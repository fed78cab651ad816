----------------------------- MODULE FacadeProofs -----------------------------
(***************************************************************************)
(* Proofs about the two parts of the facade that no driver has a share in: *)
(* the pool directory behind connectCached (ConnPools), for any number of  *)
(* clients, pools, connections and databases, and the transaction guard    *)
(* (TxnScope), for any work, any nesting and both kinds of driver.         *)
(*                                                                         *)
(* PoolsInv says what a client's reference, a pool's spare connections and *)
(* a walk under way have to do with each other; it needs the assumption    *)
(* that dropCached(url) is called for unused pools only (Careful), without *)
(* which ConnPoolsErase shows a counterexample.  IInv says of the guard's  *)
(* scopes that the driver's counter never exceeds the number of active     *)
(* ones, so when the last active one rolls back successfully it is the     *)
(* server that rolls back.                                                 *)
(***************************************************************************)
EXTENDS ConnPools, TxnScope, SequenceTheorems, FiniteSetTheorems, TLAPS

-------------------------------------------------------------------------------
(* The pool directory                                                      *)

(* Where a client is tells what it has.                                     *)
PlaceInv ==
    \A cl \in Client :
        /\ want[cl] \in Key <=> pc[cl] # "idle"
        /\ ref[cl] \in PoolId <=> pc[cl] # "idle"
        /\ held[cl] \in Conn <=> pc[cl] = "using"

(* A referenced pool is live, and it is the pool of the client's database.  *)
RefInv == \A cl \in Client : pc[cl] # "idle" => poolKey[ref[cl]] = want[cl]

(* Only live pools have spare connections, all of the pool's own database.  *)
SpareInv ==
    \A p \in PoolId : \A c \in spare[p] : p \in Live /\ connKey[c] = poolKey[p]

(* Nobody shares a connection.                                              *)
OwnInv ==
    /\ \A p, q \in PoolId : p # q => spare[p] \cap spare[q] = {}
    /\ \A cl \in Client : \A p \in PoolId : held[cl] \notin spare[p]
    /\ \A a, b \in Client : held[a] \in Conn /\ held[a] = held[b] => a = b

(* drop(url, ...) visits a pool that nobody refers to.                      *)
WalkInv ==
    walk.op \in {"dropKey", "check"} =>
        \A cl \in Client : ref[cl] \notin walk.todo

PoolsInv == PoolsTypeOK /\ PlaceInv /\ RefInv /\ SpareInv /\ OwnInv /\ WalkInv /\ RightDatabase

-------------------------------------------------------------------------------
(* std::map finds the pool stored under exactly the key asked for: operator< *)
(* tells any two different keys apart.                                      *)
LEMMA EquivalentIsEqual ==
  ASSUME NEW a \in Key, NEW b \in Key
  PROVE  Equivalent(a, b) <=> a = b
<1>1. a \in [url: Int, username: Int, password: Int] /\ b \in [url: Int, username: Int, password: Int]
  BY KeyAssumption
<1>2. /\ a.url \in Int /\ a.username \in Int /\ a.password \in Int
      /\ b.url \in Int /\ b.username \in Int /\ b.password \in Int
  BY <1>1
<1>3. Equivalent(a, b) <=> a.url = b.url /\ a.username = b.username /\ a.password = b.password
  BY <1>2 DEF Equivalent, Less
<1>. QED
  BY <1>1, <1>3

(* Find(k) is the set of the live pools stored under k.                     *)
LEMMA FindLemma ==
  ASSUME PoolsTypeOK, NEW k \in Key
  PROVE  Find(k) = {p \in Live : poolKey[p] = k}
<1>1. \A p \in Live : poolKey[p] \in Key
  BY DEF PoolsTypeOK, Live
<1>. QED
  BY <1>1, EquivalentIsEqual DEF Find

LEMMA InitInv == PoolsInit => PoolsInv
<1>. SUFFICES ASSUME PoolsInit PROVE PoolsInv
  OBVIOUS
<1>1. PoolsTypeOK
  BY LimitsAssumption DEF PoolsInit, PoolsTypeOK, PC, Walk, NoWalk
<1>2. PlaceInv /\ RefInv /\ WalkInv /\ RightDatabase
  BY NoAssumption DEF PoolsInit, PlaceInv, RefInv, WalkInv, RightDatabase, NoWalk
<1>3. SpareInv /\ OwnInv
  BY NoAssumption DEF PoolsInit, SpareInv, OwnInv
<1>. QED
  BY <1>1, <1>2, <1>3 DEF PoolsInv

-------------------------------------------------------------------------------
(* The pool a client refers to is live.                                     *)
LEMMA RefLive ==
  ASSUME PoolsInv, NEW cl \in Client, pc[cl] # "idle"
  PROVE  ref[cl] \in Live /\ want[cl] \in Key /\ poolKey[ref[cl]] = want[cl]
BY NoAssumption DEF PoolsInv, PlaceInv, RefInv, Live

(* ConnectionPools::connect finds or creates the pool of the database.      *)
LEMMA FindPoolStep ==
  ASSUME PoolsInv, NEW cl \in Client, NEW k \in Key, FindPool(cl, k)
  PROVE  PoolsInv'
<1>. USE DEF PoolsInv
<1>1. PICK p \in PoolId :
        /\ \A a \in Client : /\ pc'[a] = IF a = cl THEN "found" ELSE pc[a]
                             /\ want'[a] = IF a = cl THEN k ELSE want[a]
                             /\ ref'[a] = IF a = cl THEN p ELSE ref[a]
        /\ \A q \in PoolId : poolKey'[q] = IF q = p THEN k ELSE poolKey[q]
        /\ p \in Live => poolKey[p] = k
        /\ poolKey' \in [PoolId -> Key \cup {NoKey}]
        /\ maxSpare' \in [PoolId -> Nat]
  <2>1. /\ pc' = [pc EXCEPT ![cl] = "found"]
        /\ want' = [want EXCEPT ![cl] = k]
    BY DEF FindPool, FindOrCreate
  <2>2. CASE \E p \in Find(k) : ref' = [ref EXCEPT ![cl] = p] /\ UNCHANGED <<poolKey, maxSpare>>
    BY <2>1, <2>2, FindLemma DEF PoolsTypeOK, Live
  <2>3. CASE \E p \in PoolId \ Live :
               /\ ref' = [ref EXCEPT ![cl] = p]
               /\ poolKey' = [poolKey EXCEPT ![p] = k]
               /\ maxSpare' = [maxSpare EXCEPT ![p] = LimitOfNewPool]
    BY <2>1, <2>3 DEF PoolsTypeOK, Live, LimitOfNewPool
  <2>. QED
    BY <2>2, <2>3 DEF FindPool, FindOrCreate
<1>2. /\ UNCHANGED <<maxcount, spare, inner, walk, held, connKey>>
      /\ pc[cl] = "idle" /\ walk.op = "none"
  BY DEF FindPool, FindOrCreate, Unlocked
<1>3. PoolsTypeOK'
  <2>1. /\ pc' \in [Client -> PC] /\ want' \in [Client -> Key \cup {NoKey}]
        /\ ref' \in [Client -> PoolId \cup {NoPool}]
    BY <1>1 DEF FindPool, FindOrCreate, PoolsTypeOK, PC
  <2>. QED
    BY <1>1, <1>2, <2>1 DEF PoolsTypeOK
<1>4. \A q \in PoolId : q \in Live => poolKey'[q] = poolKey[q]
  BY <1>1
<1>5. PlaceInv'
  BY <1>1, <1>2 DEF PlaceInv
<1>6. RefInv'
  <2> SUFFICES ASSUME NEW a \in Client, pc'[a] # "idle"
               PROVE  poolKey'[ref'[a]] = want'[a]
    BY DEF RefInv
  <2>1. CASE a = cl
    BY <1>1, <2>1
  <2>2. CASE a # cl
    <3>1. pc[a] # "idle" /\ ref'[a] = ref[a] /\ want'[a] = want[a]
      BY <1>1, <2>2
    <3>. QED
      BY <1>4, <3>1, RefLive DEF Live
  <2>. QED
    BY <2>1, <2>2
<1>7. SpareInv'
  BY <1>2, <1>4 DEF SpareInv, Live
<1>8. OwnInv' /\ WalkInv'
  BY <1>2 DEF OwnInv, WalkInv
<1>9. RightDatabase'
  BY <1>1, <1>2 DEF RightDatabase
<1>. QED
  BY <1>3, <1>5, <1>6, <1>7, <1>8, <1>9

(* Waiting for the pool's mutex changes nothing but who holds it.           *)
LEMMA EnterConnectStep ==
  ASSUME PoolsInv, NEW cl \in Client, EnterConnect(cl)
  PROVE  PoolsInv'
<1>. USE DEF PoolsInv
<1>1. /\ UNCHANGED <<poolKey, maxcount, maxSpare, spare, walk, want, ref, held, connKey>>
      /\ pc[cl] = "found"
      /\ \A a \in Client : pc'[a] = IF a = cl THEN "inside" ELSE pc[a]
  BY DEF EnterConnect, PoolsTypeOK
<1>2. PoolsTypeOK'
  <2>1. inner' \in [PoolId -> Client \cup {NoClient}] /\ pc' \in [Client -> PC]
    BY DEF EnterConnect, PoolsTypeOK, PC
  <2>. QED
    BY <1>1, <2>1 DEF PoolsTypeOK
<1>3. PlaceInv' /\ RefInv' /\ RightDatabase'
  BY <1>1 DEF PlaceInv, RefInv, RightDatabase
<1>4. SpareInv' /\ OwnInv' /\ WalkInv'
  BY <1>1 DEF SpareInv, OwnInv, WalkInv, Live
<1>. QED
  BY <1>2, <1>3, <1>4

(* connect() hands out a spare connection, or one nobody owns.              *)
LEMMA ObtainStep ==
  ASSUME PoolsInv, NEW cl \in Client, NEW c \in Conn, pc[cl] = "inside",
         Obtain(cl, c, spare[ref[cl]] \ {c}),
         c \in spare[ref[cl]] \/ c \notin Owned,
         connKey' = [connKey EXCEPT ![c] = want[cl]]
  PROVE  PoolsInv'
<1>. USE DEF PoolsInv
<1>1. /\ ref[cl] \in PoolId /\ ref[cl] \in Live /\ want[cl] \in Key
      /\ poolKey[ref[cl]] = want[cl]
  BY RefLive DEF Live
<1>2. /\ UNCHANGED <<poolKey, maxcount, maxSpare, walk, want, ref>>
      /\ \A a \in Client : /\ pc'[a] = IF a = cl THEN "using" ELSE pc[a]
                           /\ held'[a] = IF a = cl THEN c ELSE held[a]
      /\ \A p \in PoolId : spare'[p] = IF p = ref[cl] THEN spare[p] \ {c} ELSE spare[p]
      /\ \A x \in Conn : connKey'[x] = IF x = c THEN want[cl] ELSE connKey[x]
  BY DEF Obtain, PoolsTypeOK
<1>3. /\ \A p \in PoolId : c \notin spare'[p]
      /\ \A a \in Client : held[a] # c
  <2>1. CASE c \in spare[ref[cl]]
    <3>1. \A p \in PoolId : p # ref[cl] => c \notin spare[p]
      <4>1. \A p, q \in PoolId : p # q => spare[p] \cap spare[q] = {}
        BY DEF OwnInv
      <4>. QED
        BY <1>1, <2>1, <4>1
    <3>2. \A a \in Client : held[a] \notin spare[ref[cl]]
      BY <1>1 DEF OwnInv
    <3>. QED
      BY <1>2, <2>1, <3>1, <3>2
  <2>2. CASE c \notin Owned
    BY <1>1, <1>2, <2>2 DEF Owned, Spare
  <2>. QED
    BY <2>1, <2>2
<1>4. PoolsTypeOK'
  <2>1. pc' \in [Client -> PC] /\ held' \in [Client -> Conn \cup {NoConn}]
    BY DEF Obtain, PoolsTypeOK, PC
  <2>2. /\ spare' \in [PoolId -> SUBSET Conn]
        /\ inner' \in [PoolId -> Client \cup {NoClient}]
    BY <1>1 DEF Obtain, PoolsTypeOK
  <2>3. connKey' \in [Conn -> Key \cup {NoKey}]
    BY <1>1 DEF PoolsTypeOK
  <2>. QED
    BY <1>2, <2>1, <2>2, <2>3 DEF PoolsTypeOK
<1>5. PlaceInv' /\ RefInv'
  BY <1>1, <1>2 DEF PlaceInv, RefInv
<1>6. SpareInv'
  <2> SUFFICES ASSUME NEW p \in PoolId, NEW x \in spare'[p]
               PROVE  (p \in Live)' /\ connKey'[x] = poolKey[p]
    BY <1>2 DEF SpareInv
  <2>1. x \in spare[p] /\ x # c /\ x \in Conn
    BY <1>2, <1>3 DEF PoolsTypeOK
  <2>. QED
    BY <1>2, <2>1 DEF SpareInv, Live
<1>7. OwnInv'
  <2>1. \A p, q \in PoolId : p # q => spare'[p] \cap spare'[q] = {}
    BY <1>2 DEF OwnInv
  <2>2. \A a \in Client : \A p \in PoolId : held'[a] \notin spare'[p]
    BY <1>2, <1>3 DEF OwnInv
  <2>3. \A a, b \in Client : held'[a] \in Conn /\ held'[a] = held'[b] => a = b
    BY <1>2, <1>3 DEF OwnInv
  <2>. QED
    BY <2>1, <2>2, <2>3 DEF OwnInv
<1>8. WalkInv'
  BY <1>2 DEF WalkInv
<1>9. RightDatabase'
  <2> SUFFICES ASSUME NEW a \in Client, pc'[a] = "using"
               PROVE  connKey'[held'[a]] = want[a]
    BY <1>2 DEF RightDatabase
  <2>1. CASE a = cl
    BY <1>2, <2>1
  <2>2. CASE a # cl
    BY <1>2, <1>3, <2>2 DEF RightDatabase, PlaceInv
  <2>. QED
    BY <2>1, <2>2
<1>. QED
  BY <1>4, <1>5, <1>6, <1>7, <1>8, <1>9

(* Spare connections are taken out of their pools and destroyed.            *)
LEMMA CloseSpares ==
  ASSUME PoolsInv, NEW S, S \subseteq Spare, Close(S),
         spare' \in [PoolId -> SUBSET Conn],
         \A p \in PoolId : spare'[p] \subseteq spare[p] \ S,
         UNCHANGED <<poolKey, pc, want, ref, held>>
  PROVE  /\ connKey' \in [Conn -> Key \cup {NoKey}]
         /\ PlaceInv' /\ RefInv' /\ SpareInv' /\ OwnInv' /\ RightDatabase'
<1>. USE DEF PoolsInv
<1>1. /\ connKey' \in [Conn -> Key \cup {NoKey}]
      /\ \A c \in Conn : c \notin S => connKey'[c] = connKey[c]
  BY DEF Close, PoolsTypeOK
<1>2. \A cl \in Client : held[cl] \notin S
  BY DEF OwnInv, Spare
<1>3. PlaceInv' /\ RefInv'
  BY DEF PlaceInv, RefInv
<1>4. SpareInv'
  <2> SUFFICES ASSUME NEW p \in PoolId, NEW c \in spare'[p]
               PROVE  (p \in Live)' /\ connKey'[c] = poolKey[p]
    BY DEF SpareInv
  <2>1. c \in Conn /\ c \in spare[p] /\ c \notin S
    BY DEF PoolsTypeOK
  <2>. QED
    BY <1>1, <2>1 DEF SpareInv, Live
<1>5. OwnInv'
  <2>1. \A p, q \in PoolId : p # q => spare'[p] \cap spare'[q] = {}
    <3> SUFFICES ASSUME NEW p \in PoolId, NEW q \in PoolId, p # q
                 PROVE  spare'[p] \cap spare'[q] = {}
      OBVIOUS
    <3>1. spare[p] \cap spare[q] = {}
      BY DEF OwnInv
    <3>. QED
      BY <3>1
  <2>2. \A a \in Client : \A p \in PoolId : held'[a] \notin spare'[p]
    BY DEF OwnInv
  <2>3. \A a, b \in Client : held'[a] \in Conn /\ held'[a] = held'[b] => a = b
    BY DEF OwnInv
  <2>. QED
    BY <2>1, <2>2, <2>3 DEF OwnInv
<1>6. RightDatabase'
  BY <1>1, <1>2 DEF RightDatabase, PlaceInv
<1>. QED
  BY <1>1, <1>3, <1>4, <1>5, <1>6

LEMMA DropDeadStep ==
  ASSUME PoolsInv, NEW cl \in Client, DropDead(cl)
  PROVE  PoolsInv'
<1>. USE DEF PoolsInv
<1>1. PICK c \in spare[ref[cl]] :
        /\ spare' = [spare EXCEPT ![ref[cl]] = @ \ {c}]
        /\ Close({c})
  BY DEF DropDead
<1>2. /\ UNCHANGED <<poolKey, maxcount, maxSpare, inner, walk, pc, want, ref, held>>
      /\ ref[cl] \in PoolId
  BY DEF DropDead, clientVars, Inside, Live
<1>3. spare' \in [PoolId -> SUBSET Conn] /\ {c} \subseteq Spare
  BY <1>1, <1>2 DEF PoolsTypeOK, Spare
<1>4. \A p \in PoolId : spare'[p] \subseteq spare[p] \ {c}
  <2> SUFFICES ASSUME NEW p \in PoolId PROVE spare'[p] \subseteq spare[p] \ {c}
    OBVIOUS
  <2>1. p # ref[cl] => spare[p] \cap spare[ref[cl]] = {}
    BY <1>2 DEF OwnInv
  <2>. QED
    BY <1>1, <1>2, <2>1 DEF PoolsTypeOK
<1>5. /\ connKey' \in [Conn -> Key \cup {NoKey}]
      /\ PlaceInv' /\ RefInv' /\ SpareInv' /\ OwnInv' /\ RightDatabase'
  BY <1>1, <1>2, <1>3, <1>4, CloseSpares
<1>6. PoolsTypeOK'
  BY <1>2, <1>3, <1>5 DEF PoolsTypeOK
<1>7. WalkInv'
  BY <1>2 DEF WalkInv
<1>. QED
  BY <1>5, <1>6, <1>7

(* drop(keep) and setMaxSpare of one pool.                                  *)
LEMMA VisitStep ==
  ASSUME PoolsInv, NEW p \in PoolId, NEW n, Visit(p, n),
         walk' \in Walk, maxSpare' \in [PoolId -> Nat],
         walk'.op \in {"dropKey", "check"} =>
            walk.op \in {"dropKey", "check"} /\ walk'.todo \subseteq walk.todo
  PROVE  PoolsInv'
<1>. USE DEF PoolsInv
<1>1. PICK S \in SUBSET spare[p] :
        /\ spare' = [spare EXCEPT ![p] = S]
        /\ Close(spare[p] \ S)
  BY DEF Visit
<1>2. UNCHANGED <<poolKey, maxcount, inner, pc, want, ref, held>>
  BY DEF Visit, clientVars
<1>3. spare' \in [PoolId -> SUBSET Conn] /\ spare[p] \ S \subseteq Spare
  BY <1>1 DEF PoolsTypeOK, Spare
<1>4. \A q \in PoolId : spare'[q] \subseteq spare[q] \ (spare[p] \ S)
  <2> SUFFICES ASSUME NEW q \in PoolId
               PROVE  spare'[q] \subseteq spare[q] \ (spare[p] \ S)
    OBVIOUS
  <2>1. q # p => spare[q] \cap spare[p] = {}
    BY DEF OwnInv
  <2>. QED
    BY <1>1, <2>1 DEF PoolsTypeOK
<1>5. /\ connKey' \in [Conn -> Key \cup {NoKey}]
      /\ PlaceInv' /\ RefInv' /\ SpareInv' /\ OwnInv' /\ RightDatabase'
  BY <1>1, <1>2, <1>3, <1>4, CloseSpares
<1>6. PoolsTypeOK'
  BY <1>2, <1>3, <1>5 DEF PoolsTypeOK
<1>7. WalkInv'
  BY <1>2 DEF WalkInv
<1>. QED
  BY <1>5, <1>6, <1>7

(* A client that departs refers to nothing; its connection is closed or put *)
(* into its pool.                                                           *)
LEMMA DepartStep ==
  ASSUME PoolsInv, NEW cl \in Client, pc[cl] # "idle", Depart(cl),
         inner' \in [PoolId -> Client \cup {NoClient}],
         \/ UNCHANGED spare /\ Close({held[cl]})
         \/ UNCHANGED <<spare, connKey>>
         \/ /\ pc[cl] = "using"
            /\ spare' = [spare EXCEPT ![ref[cl]] = @ \cup {held[cl]}]
            /\ UNCHANGED connKey
  PROVE  PoolsInv'
<1>. USE DEF PoolsInv
<1>1. /\ UNCHANGED <<poolKey, maxcount, maxSpare, walk>>
      /\ \A a \in Client : /\ pc'[a] = IF a = cl THEN "idle" ELSE pc[a]
                           /\ want'[a] = IF a = cl THEN NoKey ELSE want[a]
                           /\ ref'[a] = IF a = cl THEN NoPool ELSE ref[a]
                           /\ held'[a] = IF a = cl THEN NoConn ELSE held[a]
  BY DEF Depart, PoolsTypeOK
<1>2. /\ ref[cl] \in PoolId /\ ref[cl] \in Live /\ want[cl] \in Key
      /\ poolKey[ref[cl]] = want[cl]
  BY RefLive DEF Live
<1>3. /\ connKey' \in [Conn -> Key \cup {NoKey}]
      /\ \A c \in Conn : c # held[cl] => connKey'[c] = connKey[c]
  BY DEF Close, PoolsTypeOK
<1>4. \A p \in PoolId :
        \/ spare'[p] = spare[p]
        \/ /\ p = ref[cl] /\ spare'[p] = spare[p] \cup {held[cl]}
           /\ held[cl] \in Conn /\ pc[cl] = "using" /\ UNCHANGED connKey
  BY <1>2 DEF PlaceInv, PoolsTypeOK
<1>5. spare' \in [PoolId -> SUBSET Conn]
  BY <1>2 DEF PlaceInv, PoolsTypeOK
<1>6. PoolsTypeOK'
  <2>1. /\ pc' \in [Client -> PC] /\ want' \in [Client -> Key \cup {NoKey}]
        /\ ref' \in [Client -> PoolId \cup {NoPool}]
        /\ held' \in [Client -> Conn \cup {NoConn}]
    BY DEF Depart, PoolsTypeOK, PC
  <2>. QED
    BY <1>1, <1>3, <1>5, <2>1 DEF PoolsTypeOK
<1>7. PlaceInv'
  BY <1>1, NoAssumption DEF PlaceInv
<1>8. RefInv'
  BY <1>1 DEF RefInv
<1>9. SpareInv'
  <2> SUFFICES ASSUME NEW p \in PoolId, NEW c \in spare'[p]
               PROVE  (p \in Live)' /\ connKey'[c] = poolKey[p]
    BY <1>1 DEF SpareInv
  <2>1. CASE c \in spare[p]
    <3>1. c \in Conn /\ c # held[cl]
      BY <2>1 DEF OwnInv, PoolsTypeOK
    <3>. QED
      BY <1>1, <1>3, <2>1, <3>1 DEF SpareInv, Live
  <2>2. CASE c \notin spare[p]
    <3>1. /\ c = held[cl] /\ p = ref[cl] /\ pc[cl] = "using" /\ UNCHANGED connKey
      BY <1>4, <2>2
    <3>. QED
      BY <1>1, <1>2, <3>1 DEF RightDatabase, Live
  <2>. QED
    BY <2>1, <2>2
<1>10. OwnInv'
  <2>1. \A p, q \in PoolId : p # q => spare'[p] \cap spare'[q] = {}
    <3> SUFFICES ASSUME NEW p \in PoolId, NEW q \in PoolId, p # q
                 PROVE  spare'[p] \cap spare'[q] = {}
      OBVIOUS
    <3>1. /\ spare[p] \cap spare[q] = {}
          /\ held[cl] \notin spare[p] /\ held[cl] \notin spare[q]
      BY DEF OwnInv
    <3>. QED
      BY <1>4, <3>1
  <2>2. \A a \in Client : \A p \in PoolId : held'[a] \notin spare'[p]
    <3> SUFFICES ASSUME NEW a \in Client, NEW p \in PoolId
                 PROVE  held'[a] \notin spare'[p]
      OBVIOUS
    <3>1. held[a] \notin spare[p]
      BY DEF OwnInv
    <3>2. CASE a = cl
      BY <1>1, <1>5, <3>2, NoAssumption
    <3>3. CASE a # cl
      BY <1>1, <1>4, <3>1, <3>3 DEF OwnInv
    <3>. QED
      BY <3>2, <3>3
  <2>3. \A a, b \in Client : held'[a] \in Conn /\ held'[a] = held'[b] => a = b
    BY <1>1, NoAssumption DEF OwnInv
  <2>. QED
    BY <2>1, <2>2, <2>3 DEF OwnInv
<1>11. WalkInv'
  <2>1. walk.todo \subseteq PoolId
    BY DEF PoolsTypeOK, Walk
  <2>. QED
    BY <1>1, <2>1, NoAssumption DEF WalkInv
<1>12. RightDatabase'
  <2> SUFFICES ASSUME NEW a \in Client, pc'[a] = "using"
               PROVE  connKey'[held'[a]] = want'[a]
    BY DEF RightDatabase
  <2>1. a # cl /\ held'[a] = held[a] /\ want'[a] = want[a] /\ pc[a] = "using"
    BY <1>1
  <2>2. held[a] \in Conn /\ held[a] # held[cl]
    BY <2>1 DEF PlaceInv, OwnInv
  <2>. QED
    BY <1>3, <2>1, <2>2 DEF RightDatabase
<1>. QED
  BY <1>6, <1>7, <1>8, <1>9, <1>10, <1>11, <1>12

(* Only the walk changes; one that drops by key visits unused pools.        *)
LEMMA WalkStep ==
  ASSUME PoolsInv, walk' \in Walk, maxcount' \in Nat,
         UNCHANGED <<poolKey, maxSpare, spare, inner, clientVars, connKey>>,
         walk'.op \in {"dropKey", "check"} =>
            \A cl \in Client : ref[cl] \notin walk'.todo
  PROVE  PoolsInv'
<1>. USE DEF PoolsInv
<1>1. PoolsTypeOK'
  BY DEF PoolsTypeOK, clientVars
<1>2. PlaceInv' /\ RefInv' /\ RightDatabase'
  BY DEF PlaceInv, RefInv, RightDatabase, clientVars
<1>3. SpareInv' /\ OwnInv' /\ WalkInv'
  BY DEF SpareInv, OwnInv, WalkInv, Live, clientVars
<1>. QED
  BY <1>1, <1>2, <1>3

(* An empty pool that nobody refers to is erased.                           *)
LEMMA EraseStep ==
  ASSUME PoolsInv, NEW p \in PoolId, EraseIfEmpty(p)
  PROVE  PoolsInv'
<1>. USE DEF PoolsInv
<1>1. /\ UNCHANGED <<maxcount, maxSpare, spare, inner, pc, want, ref, held, connKey>>
      /\ walk' = NoWalk
      /\ walk.op = "check" /\ p \in walk.todo
      /\ \A q \in PoolId : q # p \/ spare[p] # {} => poolKey'[q] = poolKey[q]
  BY DEF EraseIfEmpty, clientVars, PoolsTypeOK
<1>2. PoolsTypeOK'
  <2>1. poolKey' \in [PoolId -> Key \cup {NoKey}] /\ walk' \in Walk
    BY <1>1 DEF EraseIfEmpty, PoolsTypeOK, Walk, NoWalk
  <2>. QED
    BY <1>1, <2>1 DEF PoolsTypeOK
<1>3. \A cl \in Client : ref[cl] # p
  BY <1>1 DEF WalkInv
<1>4. PlaceInv' /\ RightDatabase' /\ OwnInv' /\ WalkInv'
  BY <1>1 DEF PlaceInv, RightDatabase, OwnInv, WalkInv, NoWalk
<1>5. RefInv'
  BY <1>1, <1>3 DEF RefInv, PlaceInv
<1>6. SpareInv'
  BY <1>1 DEF SpareInv, Live
<1>. QED
  BY <1>2, <1>4, <1>5, <1>6

-------------------------------------------------------------------------------
LEMMA NextInv == Careful /\ PoolsInv /\ [PoolsNext]_poolsVars => PoolsInv'
<1>. SUFFICES ASSUME Careful, PoolsInv, [PoolsNext]_poolsVars PROVE PoolsInv'
  OBVIOUS
<1>1. ASSUME NEW cl \in Client, NEW k \in Key, FindPool(cl, k) PROVE PoolsInv'
  BY <1>1, FindPoolStep
<1>2. ASSUME NEW cl \in Client, EnterConnect(cl) PROVE PoolsInv'
  BY <1>2, EnterConnectStep
<1>3. ASSUME NEW cl \in Client, Reuse(cl) PROVE PoolsInv'
  <2>1. PICK c \in spare[ref[cl]] : Obtain(cl, c, spare[ref[cl]] \ {c})
    BY <1>3 DEF Reuse
  <2>2. pc[cl] = "inside" /\ ref[cl] \in PoolId /\ UNCHANGED connKey
    BY <1>3 DEF Reuse, Inside, Live
  <2>3. c \in Conn /\ connKey[c] = want[cl]
    BY <2>2, RefLive DEF PoolsInv, SpareInv, PoolsTypeOK
  <2>4. connKey' = [connKey EXCEPT ![c] = want[cl]]
    BY <2>2, <2>3 DEF PoolsInv, PoolsTypeOK
  <2>. QED
    BY <2>1, <2>2, <2>3, <2>4, ObtainStep
<1>4. ASSUME NEW cl \in Client, DropDead(cl) PROVE PoolsInv'
  BY <1>4, DropDeadStep
<1>5. ASSUME NEW cl \in Client, Open(cl) PROVE PoolsInv'
  <2>1. PICK c \in Conn \ Owned :
          /\ Obtain(cl, c, {})
          /\ connKey' = [connKey EXCEPT ![c] = poolKey[ref[cl]]]
    BY <1>5 DEF Open
  <2>2. pc[cl] = "inside" /\ spare[ref[cl]] \ {c} = {}
    BY <1>5 DEF Open, Inside
  <2>. QED
    BY <2>1, <2>2, RefLive, ObtainStep
<1>6. ASSUME NEW cl \in Client, OpenFailed(cl) PROVE PoolsInv'
  <2>1. pc[cl] # "idle" /\ Depart(cl) /\ UNCHANGED <<spare, connKey>>
    BY <1>6 DEF OpenFailed, Inside
  <2>2. inner' \in [PoolId -> Client \cup {NoClient}]
    BY <1>6 DEF OpenFailed, PoolsInv, PoolsTypeOK
  <2>. QED
    BY <2>1, <2>2, DepartStep
<1>7. ASSUME NEW cl \in Client, ReleaseDropped(cl) PROVE PoolsInv'
  <2>1. /\ pc[cl] # "idle" /\ Depart(cl) /\ UNCHANGED <<spare, inner>>
        /\ Close({held[cl]})
    BY <1>7 DEF ReleaseDropped
  <2>2. inner' \in [PoolId -> Client \cup {NoClient}]
    BY <2>1 DEF PoolsInv, PoolsTypeOK
  <2>. QED
    BY <2>1, <2>2, DepartStep
<1>8. ASSUME NEW cl \in Client, ReleasePut(cl) PROVE PoolsInv'
  <2>1. pc[cl] = "using" /\ Depart(cl) /\ UNCHANGED inner
    BY <1>8 DEF ReleasePut
  <2>2. inner' \in [PoolId -> Client \cup {NoClient}]
    BY <2>1 DEF PoolsInv, PoolsTypeOK
  <2>3. \/ UNCHANGED spare /\ Close({held[cl]})
        \/ /\ spare' = [spare EXCEPT ![ref[cl]] = @ \cup {held[cl]}]
           /\ UNCHANGED connKey
    BY <1>8 DEF ReleasePut
  <2>. QED
    BY <2>1, <2>2, <2>3, DepartStep
<1>9. ASSUME NEW n \in Limits, DropAll(n) \/ SetMaxSpare(n) PROVE PoolsInv'
  <2>1. n \in Nat /\ Live \in SUBSET PoolId /\ maxcount \in Nat
    BY LimitsAssumption DEF Live, PoolsInv, PoolsTypeOK
  <2>2. PICK op \in {"drop", "limit"} : walk' = [op |-> op, todo |-> Live, arg |-> n]
    BY <1>9 DEF DropAll, SetMaxSpare, StartWalk
  <2>3. /\ maxcount' \in Nat
        /\ UNCHANGED <<poolKey, maxSpare, spare, inner, clientVars, connKey>>
    BY <1>9, <2>1 DEF DropAll, SetMaxSpare, StartWalk
  <2>4. walk' \in Walk /\ walk'.op \in {"drop", "limit"}
    BY <2>1, <2>2 DEF Walk
  <2>. QED
    BY <2>3, <2>4, WalkStep
<1>10. ASSUME NEW k \in Key, NEW n \in Limits, DropKey(k, n) PROVE PoolsInv'
  <2>1. n \in Nat /\ Find(k) \in SUBSET PoolId /\ maxcount' \in Nat
    BY <1>10, LimitsAssumption DEF Find, Live, DropKey, PoolsInv, PoolsTypeOK
  <2>2. /\ walk' = [op |-> "dropKey", todo |-> Find(k), arg |-> n]
        /\ UNCHANGED <<poolKey, maxSpare, spare, inner, clientVars, connKey>>
        /\ \A cl \in Client : want[cl] # k
    BY <1>10 DEF DropKey, StartWalk
  <2>3. walk' \in Walk /\ walk'.todo = Find(k)
    BY <2>1, <2>2 DEF Walk
  <2>4. ASSUME NEW cl \in Client PROVE ref[cl] \notin Find(k)
    <3>1. \A p \in Find(k) : p \in PoolId /\ poolKey[p] = k
      BY FindLemma DEF PoolsInv, Live
    <3>2. CASE pc[cl] = "idle"
      BY <3>1, <3>2 DEF PoolsInv, PlaceInv
    <3>3. CASE pc[cl] # "idle"
      BY <2>2, <3>1, <3>3, RefLive
    <3>. QED
      BY <3>2, <3>3
  <2>. QED
    BY <2>1, <2>2, <2>3, <2>4, WalkStep
<1>11. ASSUME NEW p \in PoolId, DropVisit(p) \/ LimitVisit(p) PROVE PoolsInv'
  <2>1. walk.arg \in Nat /\ walk \in Walk
    BY DEF PoolsInv, PoolsTypeOK, Walk
  <2>2. /\ Visit(p, walk.arg) /\ walk.op \in {"drop", "limit"}
        /\ walk' = IF walk.todo = {p} THEN NoWalk ELSE [walk EXCEPT !.todo = @ \ {p}]
    BY <1>11 DEF DropVisit, LimitVisit
  <2>3. walk' \in Walk /\ walk'.op \in {"drop", "limit", "none"}
    BY <2>1, <2>2 DEF Walk, NoWalk
  <2>4. maxSpare' \in [PoolId -> Nat]
    BY <1>11, <2>1 DEF DropVisit, LimitVisit, PoolsInv, PoolsTypeOK
  <2>. QED
    BY <2>2, <2>3, <2>4, VisitStep
<1>12. ASSUME NEW p \in PoolId, DropKeyVisit(p) PROVE PoolsInv'
  <2>1. walk.arg \in Nat /\ walk \in Walk
    BY DEF PoolsInv, PoolsTypeOK, Walk
  <2>2. /\ Visit(p, walk.arg) /\ walk.op = "dropKey" /\ UNCHANGED maxSpare
        /\ walk' = [walk EXCEPT !.op = "check"]
    BY <1>12 DEF DropKeyVisit
  <2>3. walk' \in Walk /\ walk'.todo = walk.todo
    BY <2>1, <2>2 DEF Walk
  <2>4. maxSpare' \in [PoolId -> Nat]
    BY <2>2 DEF PoolsInv, PoolsTypeOK
  <2>. QED
    BY <2>2, <2>3, <2>4, VisitStep
<1>13. ASSUME NEW p \in PoolId, EraseIfEmpty(p) PROVE PoolsInv'
  BY <1>13, EraseStep
<1>14. ASSUME EmptyWalkEnds PROVE PoolsInv'
  <2>1. /\ walk' = NoWalk
        /\ UNCHANGED <<poolKey, maxcount, maxSpare, spare, inner, clientVars, connKey>>
    BY <1>14 DEF EmptyWalkEnds
  <2>2. walk' \in Walk /\ walk'.op = "none" /\ maxcount' \in Nat
    BY <2>1 DEF NoWalk, Walk, PoolsInv, PoolsTypeOK
  <2>. QED
    BY <2>1, <2>2, WalkStep
<1>15. ASSUME UNCHANGED poolsVars PROVE PoolsInv'
  <2>1. /\ UNCHANGED <<poolKey, maxcount, maxSpare, spare, inner, walk, connKey>>
        /\ UNCHANGED clientVars
    BY <1>15 DEF poolsVars
  <2>. QED
    BY <2>1, WalkStep DEF PoolsInv, PoolsTypeOK, WalkInv
<1>. QED
  BY <1>1, <1>2, <1>3, <1>4, <1>5, <1>6, <1>7, <1>8, <1>9, <1>10, <1>11, <1>12,
     <1>13, <1>14, <1>15 DEF PoolsNext, AdminStep, ClientStep

LEMMA Directory == ASSUME Careful PROVE PoolsSpec => []PoolsInv
BY InitInv, NextInv, PTL DEF PoolsSpec

(* The state of the directory, for any number of clients, pools,            *)
(* connections and databases, is always of the declared types.              *)
THEOREM PoolsTypeCorrect == ASSUME Careful PROVE PoolsSpec => []PoolsTypeOK
BY Directory, PTL DEF PoolsInv

(* Whatever pools are created, emptied, erased and created again, a client  *)
(* uses a connection to the database it asked connectCached for.            *)
THEOREM RightDatabaseHolds == ASSUME Careful PROVE PoolsSpec => []RightDatabase
BY Directory, PTL DEF PoolsInv

(* As long as dropCached(url) is called for unused pools only, the pool a   *)
(* client found under the map's mutex still exists when the client uses it  *)
(* without that mutex.                                                      *)
THEOREM ReferencedPoolLivesHolds == ASSUME Careful PROVE PoolsSpec => []ReferencedPoolLives
<1>1. PoolsInv => ReferencedPoolLives
  BY RefLive DEF ReferencedPoolLives, PoolsInv, PlaceInv, PoolsTypeOK
<1>. QED
  BY <1>1, Directory, PTL

-------------------------------------------------------------------------------
(* The limit of the pools: setMaxSpare has yet to visit those of Behind.    *)
Behind == IF walk.op = "limit" THEN walk.todo ELSE {}
Agreed(p) ==
    /\ maxSpare[p] = maxcount
    /\ maxcount = 0 \/ Cardinality(spare[p]) <= maxcount
LimitInv ==
    /\ \A p \in PoolId : IsFiniteSet(spare[p])
    /\ walk.op = "limit" => walk.arg = maxcount
    /\ \A p \in Live : p \notin Behind => Agreed(p)

(* Taking spare connections away disturbs no limit.                         *)
LEMMA ShrinkLimit ==
  ASSUME PoolsTypeOK, LimitInv, Live' \subseteq Live, UNCHANGED <<maxcount, maxSpare>>,
         \A p \in PoolId : spare'[p] \subseteq spare[p],
         walk'.op = "limit" => walk'.arg = maxcount,
         Behind \subseteq Behind'
  PROVE  LimitInv'
<1>1. \A p \in PoolId : /\ IsFiniteSet(spare'[p])
                        /\ Cardinality(spare'[p]) <= Cardinality(spare[p])
                        /\ Cardinality(spare'[p]) \in Nat /\ Cardinality(spare[p]) \in Nat
  BY FS_Subset, FS_CardinalityType DEF LimitInv
<1>2. \A p \in Live' : p \in PoolId /\ (p \notin Behind' => p \notin Behind)
  BY DEF Live
<1>3. \A p \in Live' : p \notin Behind' => Agreed(p)'
  BY <1>1, <1>2 DEF LimitInv, Agreed, PoolsTypeOK
<1>. QED
  BY <1>1, <1>3 DEF LimitInv

LEMMA LimitStep == Careful /\ PoolsInv /\ LimitInv /\ [PoolsNext]_poolsVars => LimitInv'
<1>. SUFFICES ASSUME Careful, PoolsInv, LimitInv, [PoolsNext]_poolsVars PROVE LimitInv'
  OBVIOUS
<1>. USE DEF PoolsInv
<1>0. walk.todo \subseteq PoolId /\ walk \in Walk /\ PoolsTypeOK
  BY DEF PoolsTypeOK, Walk
<1>1. ASSUME NEW cl \in Client, NEW k \in Key, FindPool(cl, k) PROVE LimitInv'
  <2>1. UNCHANGED <<maxcount, spare, walk>> /\ walk.op = "none"
    BY <1>1 DEF FindPool, FindOrCreate, Unlocked
  <2>2. CASE UNCHANGED <<poolKey, maxSpare>>
    BY <2>1, <2>2, <1>0, ShrinkLimit DEF Live, Behind, LimitInv
  <2>3. CASE \E p \in PoolId \ Live :
               /\ poolKey' = [poolKey EXCEPT ![p] = k]
               /\ maxSpare' = [maxSpare EXCEPT ![p] = LimitOfNewPool]
    <3>1. PICK p \in PoolId \ Live :
               /\ poolKey' = [poolKey EXCEPT ![p] = k]
               /\ maxSpare' = [maxSpare EXCEPT ![p] = LimitOfNewPool]
      BY <2>3
    <3>2. spare[p] = {}
      BY <3>1 DEF SpareInv
    <3>3. Agreed(p)'
      <4>1. maxSpare'[p] = maxcount'
        BY <2>1, <3>1 DEF LimitOfNewPool, PoolsTypeOK
      <4>2. Cardinality(spare'[p]) = 0 /\ maxcount' \in Nat
        BY <2>1, <3>2, FS_EmptySet DEF PoolsTypeOK
      <4>. QED
        BY <4>1, <4>2 DEF Agreed
    <3>4. \A q \in Live' : q = p \/ (q \in Live /\ Agreed(q)')
      BY <2>1, <3>1 DEF Live, PoolsTypeOK, LimitInv, Behind, Agreed
    <3>. QED
      BY <2>1, <3>3, <3>4 DEF LimitInv
  <2>. QED
    BY <1>1, <2>2, <2>3 DEF FindPool, FindOrCreate
<1>2. ASSUME UNCHANGED <<poolKey, maxcount, maxSpare, walk>>,
             \A p \in PoolId : spare'[p] \subseteq spare[p]
      PROVE  LimitInv'
  BY <1>0, <1>2, ShrinkLimit DEF Live, Behind, LimitInv
<1>3. ASSUME NEW cl \in Client,
             \/ EnterConnect(cl) \/ Reuse(cl) \/ DropDead(cl) \/ Open(cl)
             \/ OpenFailed(cl) \/ ReleaseDropped(cl)
      PROVE  LimitInv'
  <2>1. UNCHANGED <<poolKey, maxcount, maxSpare, walk>>
    BY <1>3 DEF EnterConnect, Reuse, DropDead, Open, Obtain, OpenFailed, ReleaseDropped, Depart
  <2>2. \A p \in PoolId : spare'[p] \subseteq spare[p]
    <3>1. CASE UNCHANGED spare
      BY <3>1
    <3>2. CASE Reuse(cl) \/ DropDead(cl)
      <4>1. PICK c \in spare[ref[cl]] : spare' = [spare EXCEPT ![ref[cl]] = spare[ref[cl]] \ {c}]
        BY <3>2 DEF Reuse, DropDead, Obtain
      <4>. QED
        BY <4>1 DEF PoolsTypeOK
    <3>3. CASE Open(cl)
      BY <3>3 DEF Open, Obtain, PoolsTypeOK
    <3>. QED
      BY <1>3, <3>1, <3>2, <3>3 DEF EnterConnect, OpenFailed, ReleaseDropped
  <2>. QED
    BY <1>2, <2>1, <2>2
<1>4. ASSUME NEW cl \in Client, ReleasePut(cl) PROVE LimitInv'
  <2>1. UNCHANGED <<poolKey, maxcount, maxSpare, walk>> /\ ref[cl] \in PoolId
    BY <1>4 DEF ReleasePut, Depart, Live
  <2>2. CASE UNCHANGED spare
    BY <1>2, <2>1, <2>2
  <2>3. CASE RoomToSpare(ref[cl]) /\ spare' = [spare EXCEPT ![ref[cl]] = @ \cup {held[cl]}]
    <3>1. /\ spare'[ref[cl]] = spare[ref[cl]] \cup {held[cl]}
          /\ \A p \in PoolId : p # ref[cl] => spare'[p] = spare[p]
      BY <2>1, <2>3 DEF PoolsTypeOK
    <3>2. /\ IsFiniteSet(spare[ref[cl]]) /\ Cardinality(spare[ref[cl]]) \in Nat
          /\ IsFiniteSet(spare'[ref[cl]])
          /\ Cardinality(spare'[ref[cl]]) <= Cardinality(spare[ref[cl]]) + 1
          /\ Cardinality(spare'[ref[cl]]) \in Nat
      <4>1. IsFiniteSet(spare[ref[cl]])
        BY <2>1 DEF LimitInv
      <4>2. /\ IsFiniteSet(spare[ref[cl]] \cup {held[cl]})
            /\ Cardinality(spare[ref[cl]] \cup {held[cl]}) =
                  IF held[cl] \in spare[ref[cl]] THEN Cardinality(spare[ref[cl]])
                                                ELSE Cardinality(spare[ref[cl]]) + 1
        BY <4>1, FS_AddElement
      <4>3. Cardinality(spare[ref[cl]]) \in Nat
        BY <4>1, FS_CardinalityType
      <4>4. Cardinality(spare[ref[cl]] \cup {held[cl]}) \in Nat
        BY <4>2, <4>3
      <4>. QED
        BY <3>1, <4>1, <4>2, <4>3, <4>4
    <3>3. Live' = Live /\ Behind' = Behind
      BY <2>1 DEF Live, Behind
    <3>4. ASSUME NEW p \in PoolId, p = ref[cl], Agreed(p) PROVE Agreed(p)'
      <4>1. maxSpare[ref[cl]] = maxcount /\ maxcount \in Nat
        BY <2>1, <3>4 DEF Agreed, PoolsTypeOK
      <4>2. maxcount = 0 \/ Cardinality(spare[ref[cl]]) < maxcount
        BY <2>3, <4>1 DEF RoomToSpare
      <4>3. maxcount = 0 \/ Cardinality(spare'[ref[cl]]) <= maxcount
        BY <3>2, <4>1, <4>2
      <4>. QED
        BY <2>1, <3>4, <4>1, <4>3 DEF Agreed
    <3>5. \A p \in Live' : p \notin Behind' => Agreed(p)'
      <4> SUFFICES ASSUME NEW p \in Live, p \notin Behind PROVE Agreed(p)'
        BY <3>3
      <4>1. Agreed(p) /\ p \in PoolId
        BY DEF LimitInv, Live
      <4>2. CASE p = ref[cl]
        BY <3>4, <4>1, <4>2
      <4>3. CASE p # ref[cl]
        BY <2>1, <3>1, <4>1, <4>3 DEF Agreed
      <4>. QED
        BY <4>2, <4>3
    <3>. QED
      BY <2>1, <3>1, <3>2, <3>5 DEF LimitInv
  <2>. QED
    BY <1>4, <2>2, <2>3 DEF ReleasePut
<1>5. ASSUME NEW n \in Limits, DropAll(n) PROVE LimitInv'
  <2>1. /\ UNCHANGED <<poolKey, maxcount, maxSpare, spare>> /\ walk.op = "none"
        /\ walk' = [op |-> "drop", todo |-> Live, arg |-> n]
    BY <1>5 DEF DropAll, StartWalk, Unlocked
  <2>. QED
    BY <1>0, <2>1, ShrinkLimit DEF Live, Behind
<1>6. ASSUME NEW n \in Limits, SetMaxSpare(n) PROVE LimitInv'
  <2>1. /\ UNCHANGED <<poolKey, spare>> /\ maxcount' = n
        /\ walk' = [op |-> "limit", todo |-> Live, arg |-> n]
    BY <1>6 DEF SetMaxSpare, StartWalk
  <2>. QED
    BY <2>1 DEF LimitInv, Live, Behind
<1>7. ASSUME NEW k \in Key, NEW n \in Limits, DropKey(k, n) PROVE LimitInv'
  <2>1. /\ UNCHANGED <<poolKey, maxcount, maxSpare, spare>> /\ walk.op = "none"
        /\ walk' = [op |-> "dropKey", todo |-> Find(k), arg |-> n]
    BY <1>7 DEF DropKey, StartWalk, Unlocked
  <2>. QED
    BY <1>0, <2>1, ShrinkLimit DEF Live, Behind
<1>8. ASSUME NEW p \in PoolId, DropVisit(p) \/ DropKeyVisit(p) PROVE LimitInv'
  <2>1. /\ UNCHANGED <<poolKey, maxcount, maxSpare>> /\ walk.op \in {"drop", "dropKey"}
        /\ walk'.op # "limit"
    BY <1>8, <1>0 DEF DropVisit, DropKeyVisit, Visit, NoWalk, Walk
  <2>2. \A q \in PoolId : spare'[q] \subseteq spare[q]
    BY <1>8 DEF DropVisit, DropKeyVisit, Visit, PoolsTypeOK
  <2>. QED
    BY <1>0, <2>1, <2>2, ShrinkLimit DEF Live, Behind
<1>9. ASSUME NEW p \in PoolId, LimitVisit(p) PROVE LimitInv'
  <2>1. PICK S \in SUBSET spare[p] :
          /\ Cardinality(S) <= walk.arg
          /\ spare' = [spare EXCEPT ![p] = S]
    BY <1>9 DEF LimitVisit, Visit
  <2>2. /\ UNCHANGED <<poolKey, maxcount>> /\ walk.op = "limit"
        /\ maxSpare' = [maxSpare EXCEPT ![p] = walk.arg]
        /\ walk.arg = maxcount /\ p \in walk.todo
    BY <1>9 DEF LimitVisit, Visit, LimitInv
  <2>3. /\ walk'.op = "limit" => walk'.arg = maxcount
        /\ Behind' = Behind \ {p}
    <3>1. CASE walk.todo = {p}
      BY <1>9, <2>2, <3>1 DEF LimitVisit, NoWalk, Behind
    <3>2. CASE walk.todo # {p}
      BY <1>0, <1>9, <2>2, <3>2 DEF LimitVisit, Behind, Walk
    <3>. QED
      BY <3>1, <3>2
  <2>4. Agreed(p)'
    BY <2>1, <2>2 DEF Agreed, PoolsTypeOK
  <2>5. \A q \in PoolId : q # p => spare'[q] = spare[q] /\ maxSpare'[q] = maxSpare[q]
    BY <2>1, <2>2 DEF PoolsTypeOK
  <2>6. \A q \in PoolId : IsFiniteSet(spare'[q])
    BY <2>1, <2>5, FS_Subset DEF LimitInv, PoolsTypeOK
  <2>7. \A q \in Live' : q \notin Behind' => Agreed(q)'
    BY <2>2, <2>3, <2>4, <2>5 DEF Live, LimitInv, Agreed
  <2>. QED
    BY <2>2, <2>3, <2>6, <2>7 DEF LimitInv
<1>10. ASSUME NEW p \in PoolId, EraseIfEmpty(p) PROVE LimitInv'
  <2>1. /\ UNCHANGED <<maxcount, maxSpare, spare>> /\ walk.op = "check" /\ walk' = NoWalk
        /\ Live' \subseteq Live
    BY <1>10 DEF EraseIfEmpty, Live, PoolsTypeOK
  <2>. QED
    BY <1>0, <2>1, ShrinkLimit DEF Behind, NoWalk
<1>11. ASSUME EmptyWalkEnds PROVE LimitInv'
  <2>1. /\ UNCHANGED <<poolKey, maxcount, maxSpare, spare>> /\ walk.todo = {} /\ walk' = NoWalk
    BY <1>11 DEF EmptyWalkEnds
  <2>. QED
    BY <1>0, <2>1, ShrinkLimit DEF Live, Behind, NoWalk
<1>12. ASSUME UNCHANGED poolsVars PROVE LimitInv'
  BY <1>2, <1>12 DEF poolsVars
<1>. QED
  BY <1>1, <1>3, <1>4, <1>5, <1>6, <1>7, <1>8, <1>9, <1>10, <1>11, <1>12
     DEF PoolsNext, AdminStep, ClientStep

(* For any number of pools, setMaxPoolSize reaches every one of them: the   *)
(* pools it visits one by one, and those created before it got the mutex or *)
(* after it gave the mutex up.                                              *)
THEOREM LimitAgreedHolds == ASSUME Careful PROVE PoolsSpec => []LimitAgreed
<1>1. PoolsInit => LimitInv
  BY FS_EmptySet DEF PoolsInit, LimitInv, Live, NoWalk
<1>2. LimitInv => LimitAgreed
  BY DEF LimitInv, LimitAgreed, Unlocked, Behind, Agreed
<1>. QED
  BY <1>1, <1>2, LimitStep, Directory, PTL DEF PoolsSpec

-------------------------------------------------------------------------------
(* The lease of one database: its idle connections and who holds which.     *)
Idle(k) == {c \in Spare : connKey[c] = k}
Lease(k) == [cl \in Client |-> IF pc[cl] = "using" /\ want[cl] = k
                               THEN held[cl] ELSE NoConn]
LeaseStep(k) == [LeaseOf(k)!Next]_(LeaseOf(k)!vars)

(* The steps of the abstract specification, in these terms.                 *)
LEMMA EvictStep ==
  ASSUME NEW k, Idle(k)' \subseteq Idle(k), UNCHANGED Lease(k)
  PROVE  LeaseStep(k)
BY DEF LeaseStep, LeaseOf!Next, LeaseOf!Evict, Idle, Lease

LEMMA AcquireStep ==
  ASSUME NEW k, NEW cl \in Client, NEW c \in Conn,
         Lease(k)[cl] = NoConn,
         \A a \in Client : Lease(k)[a] # c,
         c \in Idle(k) \/ Idle(k) = {},
         Lease(k)' = [Lease(k) EXCEPT ![cl] = c],
         Idle(k)' = Idle(k) \ {c}
  PROVE  LeaseStep(k)
BY DEF LeaseStep, LeaseOf!Next, LeaseOf!Acquire, LeaseOf!Leased, Idle, Lease

LEMMA ReleaseStep ==
  ASSUME NEW k, NEW cl \in Client,
         Lease(k)[cl] # NoConn,
         Lease(k)' = [Lease(k) EXCEPT ![cl] = NoConn],
         Idle(k)' = Idle(k) \/ Idle(k)' = Idle(k) \cup {Lease(k)[cl]}
  PROVE  LeaseStep(k)
BY DEF LeaseStep, LeaseOf!Next, LeaseOf!Release, Idle, Lease

(* No two pools are for one database.                                       *)
DistinctKeys == \A p, q \in Live : poolKey[p] = poolKey[q] => p = q

LEMMA DistinctStep == PoolsInv /\ DistinctKeys /\ [PoolsNext]_poolsVars => DistinctKeys'
<1>. SUFFICES ASSUME PoolsInv, DistinctKeys, [PoolsNext]_poolsVars PROVE DistinctKeys'
  OBVIOUS
<1>1. PoolsTypeOK
  BY DEF PoolsInv
<1>2. CASE UNCHANGED poolKey
  BY <1>2 DEF DistinctKeys, Live
<1>3. ASSUME NEW cl \in Client, NEW k \in Key, FindPool(cl, k) PROVE DistinctKeys'
  <2>1. ASSUME NEW p \in PoolId \ Live, Find(k) = {}, poolKey' = [poolKey EXCEPT ![p] = k]
        PROVE  DistinctKeys'
    <3>1. \A q \in Live : poolKey[q] # k
      BY <1>1, <2>1, FindLemma
    <3>2. \A q \in Live' :
            \/ q = p /\ poolKey'[q] = k
            \/ q \in Live /\ poolKey'[q] = poolKey[q]
      BY <1>1, <2>1 DEF Live, PoolsTypeOK
    <3>. QED
      BY <3>1, <3>2 DEF DistinctKeys
  <2>. QED
    BY <1>2, <1>3, <2>1 DEF FindPool, FindOrCreate
<1>4. ASSUME NEW p \in PoolId, EraseIfEmpty(p) PROVE DistinctKeys'
  <2>1. \A q \in Live' : q \in Live /\ poolKey'[q] = poolKey[q]
    BY <1>1, <1>4 DEF EraseIfEmpty, Live, PoolsTypeOK
  <2>. QED
    BY <2>1 DEF DistinctKeys
<1>5. ASSUME NEW cl \in Client,
             \/ EnterConnect(cl) \/ Reuse(cl) \/ DropDead(cl) \/ Open(cl)
             \/ OpenFailed(cl) \/ ReleaseDropped(cl) \/ ReleasePut(cl)
      PROVE  UNCHANGED poolKey
  BY <1>5 DEF EnterConnect, Reuse, DropDead, Open, Obtain, OpenFailed, ReleaseDropped,
     ReleasePut, Depart
<1>6. ASSUME NEW n \in Limits, DropAll(n) \/ SetMaxSpare(n) \/ \E k \in Key : DropKey(k, n)
      PROVE  UNCHANGED poolKey
  BY <1>6 DEF DropAll, SetMaxSpare, DropKey, StartWalk
<1>7. ASSUME NEW p \in PoolId, DropVisit(p) \/ LimitVisit(p) \/ DropKeyVisit(p)
      PROVE  UNCHANGED poolKey
  BY <1>7 DEF DropVisit, LimitVisit, DropKeyVisit, Visit
<1>. QED
  BY <1>2, <1>3, <1>4, <1>5, <1>6, <1>7
     DEF PoolsNext, AdminStep, ClientStep, EmptyWalkEnds, poolsVars

(* The idle connections of a database are the spare ones of its pool.       *)
LEMMA IdleLemma ==
  ASSUME PoolsInv, NEW k \in Key
  PROVE  \A c : c \in Idle(k) <=> \E p \in Live : poolKey[p] = k /\ c \in spare[p]
BY DEF PoolsInv, SpareInv, Idle, Spare, Live

(* Spare connections are destroyed, and nobody gets or gives back one.      *)
LEMMA OnlyEvicts ==
  ASSUME PoolsInv, NEW k \in Key,
         \A p \in PoolId : spare'[p] \subseteq spare[p],
         \A p \in PoolId : \A c \in spare'[p] : connKey'[c] = connKey[c],
         \A a \in Client :
            /\ pc'[a] = "using" <=> pc[a] = "using"
            /\ pc[a] = "using" => want'[a] = want[a] /\ held'[a] = held[a]
  PROVE  LeaseStep(k)
<1>1. Idle(k)' \subseteq Idle(k)
  BY DEF Idle, Spare
<1>2. UNCHANGED Lease(k)
  <2>1. \A a \in Client : (IF pc'[a] = "using" /\ want'[a] = k THEN held'[a] ELSE NoConn)
                       = (IF pc[a] = "using" /\ want[a] = k THEN held[a] ELSE NoConn)
    OBVIOUS
  <2>. QED
    BY <2>1 DEF Lease
<1>. QED
  BY <1>1, <1>2, EvictStep

(* connect() hands out an idle connection of the pool, or a new one when    *)
(* there is none.                                                           *)
LEMMA ObtainIsAcquire ==
  ASSUME PoolsInv, DistinctKeys, NEW k \in Key, NEW cl \in Client, NEW c \in Conn,
         pc[cl] = "inside", Obtain(cl, c, spare[ref[cl]] \ {c}),
         c \in spare[ref[cl]] \/ (c \notin Owned /\ spare[ref[cl]] = {}),
         connKey' = [connKey EXCEPT ![c] = want[cl]]
  PROVE  LeaseStep(k)
<1>. USE DEF PoolsInv
<1>1. /\ ref[cl] \in PoolId /\ ref[cl] \in Live /\ want[cl] \in Key
      /\ poolKey[ref[cl]] = want[cl]
  BY RefLive DEF Live
<1>2. /\ UNCHANGED want
      /\ \A a \in Client : /\ pc'[a] = IF a = cl THEN "using" ELSE pc[a]
                           /\ held'[a] = IF a = cl THEN c ELSE held[a]
      /\ \A p \in PoolId : spare'[p] = IF p = ref[cl] THEN spare[p] \ {c} ELSE spare[p]
      /\ \A x \in Conn : connKey'[x] = IF x = c THEN want[cl] ELSE connKey[x]
  BY DEF Obtain, PoolsTypeOK
<1>3. /\ \A p \in PoolId : spare'[p] = spare[p] \ {c} /\ spare[p] \subseteq Conn
      /\ \A p \in PoolId : p # ref[cl] => c \notin spare[p]
      /\ \A a \in Client : held[a] # c
  <2>1. CASE c \in spare[ref[cl]]
    <3>1. \A p \in PoolId : p # ref[cl] => c \notin spare[p]
      <4>1. \A p, q \in PoolId : p # q => spare[p] \cap spare[q] = {}
        BY DEF OwnInv
      <4>. QED
        BY <1>1, <2>1, <4>1
    <3>2. \A a \in Client : held[a] # c
      BY <1>1, <2>1 DEF OwnInv
    <3>3. \A p \in PoolId : spare[p] \subseteq Conn
      BY DEF PoolsTypeOK
    <3>4. \A p \in PoolId : spare'[p] = spare[p] \ {c}
      BY <1>2, <3>1
    <3>. QED
      BY <3>1, <3>2, <3>3, <3>4
  <2>2. CASE c \notin Owned
    <3>1. /\ \A p \in PoolId : c \notin spare[p]
          /\ \A a \in Client : held[a] # c
      BY <2>2 DEF Owned, Spare
    <3>2. \A p \in PoolId : spare[p] \subseteq Conn
      BY DEF PoolsTypeOK
    <3>3. \A p \in PoolId : spare'[p] = spare[p] \ {c}
      BY <1>2, <3>1
    <3>. QED
      BY <3>1, <3>2, <3>3
  <2>. QED
    BY <2>1, <2>2
<1>4. c \in spare[ref[cl]] => connKey[c] = want[cl]
  BY <1>1 DEF SpareInv
<1>5. CASE k # want[cl]
  <2>1. \A x : x \in Idle(k)' => x \in Idle(k)
    BY <1>2, <1>3, <1>5 DEF Idle, Spare
  <2>2. UNCHANGED Lease(k)
    <3>1. \A a \in Client : (IF pc'[a] = "using" /\ want'[a] = k THEN held'[a] ELSE NoConn)
                         = (IF pc[a] = "using" /\ want[a] = k THEN held[a] ELSE NoConn)
      BY <1>2, <1>5
    <3>. QED
      BY <3>1 DEF Lease
  <2>. QED
    BY <2>1, <2>2, EvictStep
<1>6. CASE k = want[cl]
  <2>1. Idle(k)' = Idle(k) \ {c}
    BY <1>2, <1>3 DEF Idle, Spare
  <2>2. Lease(k)[cl] = NoConn /\ \A a \in Client : Lease(k)[a] # c
    BY <1>3, NoAssumption DEF Lease
  <2>3. Lease(k)' = [Lease(k) EXCEPT ![cl] = c]
    BY <1>2, <1>6 DEF Lease
  <2>4. c \in Idle(k) \/ Idle(k) = {}
    <3>1. CASE c \in spare[ref[cl]]
      BY <1>1, <1>6, <3>1, IdleLemma
    <3>2. CASE spare[ref[cl]] = {}
      <4>1. \A p \in Live : poolKey[p] = k => p = ref[cl]
        BY <1>1, <1>6 DEF DistinctKeys
      <4>2. \A x : x \notin Idle(k)
        BY <3>2, <4>1, IdleLemma
      <4>. QED
        BY <4>2
    <3>. QED
      BY <3>1, <3>2
  <2>. QED
    BY <2>1, <2>2, <2>3, <2>4, AcquireStep
<1>. QED
  BY <1>5, <1>6

(* ~PoolConnection puts the connection among the idle ones of its database, *)
(* or closes it.                                                            *)
LEMMA DepartIsRelease ==
  ASSUME PoolsInv, NEW k \in Key, NEW cl \in Client, pc[cl] = "using", Depart(cl),
         \/ UNCHANGED spare /\ Close({held[cl]})
         \/ /\ spare' = [spare EXCEPT ![ref[cl]] = @ \cup {held[cl]}]
            /\ UNCHANGED connKey
  PROVE  LeaseStep(k)
<1>. USE DEF PoolsInv
<1>1. \A a \in Client :
        /\ pc'[a] = IF a = cl THEN "idle" ELSE pc[a]
        /\ want'[a] = IF a = cl THEN NoKey ELSE want[a]
        /\ held'[a] = IF a = cl THEN NoConn ELSE held[a]
  BY DEF Depart, PoolsTypeOK
<1>2. /\ ref[cl] \in PoolId /\ want[cl] \in Key /\ held[cl] \in Conn
      /\ connKey[held[cl]] = want[cl]
  BY DEF PlaceInv, RightDatabase
<1>3. /\ \A p \in PoolId : spare[p] \subseteq Conn /\ held[cl] \notin spare[p]
      /\ \A c \in Conn : c # held[cl] => connKey'[c] = connKey[c]
  BY DEF OwnInv, PoolsTypeOK, Close
<1>4. \/ UNCHANGED spare
      \/ Spare' = Spare \cup {held[cl]} /\ UNCHANGED connKey
  <2>1. ASSUME spare' = [spare EXCEPT ![ref[cl]] = @ \cup {held[cl]}]
        PROVE  Spare' = Spare \cup {held[cl]}
    <3>1. /\ spare'[ref[cl]] = spare[ref[cl]] \cup {held[cl]}
          /\ \A p \in PoolId : p # ref[cl] => spare'[p] = spare[p]
      BY <1>2, <2>1 DEF PoolsTypeOK
    <3>. QED
      BY <1>2, <3>1 DEF Spare
  <2>. QED
    BY <2>1
<1>5. Spare \subseteq Conn /\ held[cl] \notin Spare
  BY <1>3 DEF Spare
<1>6. Idle(k)' = IF UNCHANGED spare \/ k # want[cl] THEN Idle(k)
                 ELSE Idle(k) \cup {held[cl]}
  <2>1. CASE UNCHANGED spare
    <3>1. Spare' = Spare
      BY <2>1 DEF Spare
    <3>. QED
      BY <1>3, <1>5, <2>1, <3>1 DEF Idle
  <2>2. CASE ~UNCHANGED spare
    BY <1>2, <1>4, <2>2 DEF Idle
  <2>. QED
    BY <2>1, <2>2
<1>7. CASE k # want[cl]
  <2>1. UNCHANGED Idle(k)
    BY <1>6, <1>7
  <2>2. \A a \in Client : (IF pc'[a] = "using" /\ want'[a] = k THEN held'[a] ELSE NoConn)
                       = (IF pc[a] = "using" /\ want[a] = k THEN held[a] ELSE NoConn)
    BY <1>1, <1>7
  <2>3. UNCHANGED Lease(k)
    BY <2>2 DEF Lease
  <2>. QED
    BY <2>1, <2>3, EvictStep
<1>8. CASE k = want[cl]
  <2>1. Lease(k)[cl] = held[cl] /\ held[cl] # NoConn
    BY <1>2, <1>8, NoAssumption DEF Lease
  <2>2. Lease(k)' = [Lease(k) EXCEPT ![cl] = NoConn]
    BY <1>1 DEF Lease
  <2>. QED
    BY <1>6, <2>1, <2>2, ReleaseStep
<1>. QED
  BY <1>7, <1>8

LEMMA LeaseNext ==
  ASSUME PoolsInv, DistinctKeys, [PoolsNext]_poolsVars, NEW k \in Key
  PROVE  LeaseStep(k)
<1>. USE DEF PoolsInv
<1>1. ASSUME NEW cl \in Client, NEW l \in Key, FindPool(cl, l) PROVE LeaseStep(k)
  <2>1. /\ UNCHANGED <<spare, held, connKey>> /\ pc[cl] = "idle"
        /\ pc' = [pc EXCEPT ![cl] = "found"] /\ want' = [want EXCEPT ![cl] = l]
    BY <1>1 DEF FindPool, FindOrCreate
  <2>2. \A a \in Client :
            /\ pc'[a] = "using" <=> pc[a] = "using"
            /\ pc[a] = "using" => want'[a] = want[a] /\ held'[a] = held[a]
    BY <2>1 DEF PoolsTypeOK
  <2>. QED
    BY <2>1, <2>2, OnlyEvicts
<1>2. ASSUME NEW cl \in Client, EnterConnect(cl) PROVE LeaseStep(k)
  <2>1. /\ UNCHANGED <<spare, held, want, connKey>> /\ pc[cl] = "found"
        /\ pc' = [pc EXCEPT ![cl] = "inside"]
    BY <1>2 DEF EnterConnect
  <2>2. \A a \in Client : pc'[a] = "using" <=> pc[a] = "using"
    BY <2>1 DEF PoolsTypeOK
  <2>. QED
    BY <2>1, <2>2, OnlyEvicts
<1>3. ASSUME NEW cl \in Client, Reuse(cl) PROVE LeaseStep(k)
  <2>1. PICK c \in spare[ref[cl]] : Obtain(cl, c, spare[ref[cl]] \ {c})
    BY <1>3 DEF Reuse
  <2>2. pc[cl] = "inside" /\ ref[cl] \in PoolId /\ UNCHANGED connKey
    BY <1>3 DEF Reuse, Inside, Live
  <2>3. c \in Conn /\ connKey[c] = want[cl]
    BY <2>2, RefLive DEF SpareInv, PoolsTypeOK
  <2>4. connKey' = [connKey EXCEPT ![c] = want[cl]]
    BY <2>2, <2>3 DEF PoolsTypeOK
  <2>. QED
    BY <2>1, <2>2, <2>3, <2>4, ObtainIsAcquire
<1>4. ASSUME NEW cl \in Client, Open(cl) PROVE LeaseStep(k)
  <2>1. PICK c \in Conn \ Owned :
          /\ Obtain(cl, c, {})
          /\ connKey' = [connKey EXCEPT ![c] = poolKey[ref[cl]]]
    BY <1>4 DEF Open
  <2>2. pc[cl] = "inside" /\ spare[ref[cl]] = {} /\ spare[ref[cl]] \ {c} = {}
    BY <1>4 DEF Open, Inside
  <2>. QED
    BY <2>1, <2>2, RefLive, ObtainIsAcquire
<1>5. ASSUME NEW cl \in Client, DropDead(cl) PROVE LeaseStep(k)
  <2>1. PICK c \in spare[ref[cl]] :
          /\ spare' = [spare EXCEPT ![ref[cl]] = spare[ref[cl]] \ {c}]
          /\ Close({c})
    BY <1>5 DEF DropDead
  <2>2. UNCHANGED <<pc, want, held>> /\ ref[cl] \in PoolId
    BY <1>5 DEF DropDead, clientVars, Inside, Live
  <2>3. /\ \A p \in PoolId : spare'[p] \subseteq spare[p] \ {c}
        /\ \A p \in PoolId : spare[p] \subseteq Conn
    <3>1. \A p \in PoolId : p # ref[cl] => c \notin spare[p]
      <4>1. \A p, q \in PoolId : p # q => spare[p] \cap spare[q] = {}
        BY DEF OwnInv
      <4>. QED
        BY <2>1, <2>2, <4>1
    <3>. QED
      BY <2>1, <2>2, <3>1 DEF PoolsTypeOK
  <2>4. \A x \in Conn : x # c => connKey'[x] = connKey[x]
    BY <2>1 DEF Close, PoolsTypeOK
  <2>. QED
    BY <2>2, <2>3, <2>4, OnlyEvicts
<1>6. ASSUME NEW cl \in Client, OpenFailed(cl) PROVE LeaseStep(k)
  <2>1. /\ UNCHANGED <<spare, connKey>> /\ pc[cl] = "inside"
        /\ \A a \in Client :
              /\ pc'[a] = IF a = cl THEN "idle" ELSE pc[a]
              /\ a # cl => want'[a] = want[a] /\ held'[a] = held[a]
    BY <1>6 DEF OpenFailed, Depart, Inside, PoolsTypeOK
  <2>2. \A a \in Client :
            /\ pc'[a] = "using" <=> pc[a] = "using"
            /\ pc[a] = "using" => want'[a] = want[a] /\ held'[a] = held[a]
    BY <2>1
  <2>. QED
    BY <2>1, <2>2, OnlyEvicts
<1>7. ASSUME NEW cl \in Client, ReleaseDropped(cl) \/ ReleasePut(cl) PROVE LeaseStep(k)
  BY <1>7, DepartIsRelease DEF ReleaseDropped, ReleasePut
<1>8. ASSUME NEW p \in PoolId, NEW n, Visit(p, n) PROVE LeaseStep(k)
  <2>1. PICK S \in SUBSET spare[p] :
          /\ spare' = [spare EXCEPT ![p] = S]
          /\ Close(spare[p] \ S)
    BY <1>8 DEF Visit
  <2>2. UNCHANGED <<pc, want, held>>
    BY <1>8 DEF Visit, clientVars
  <2>3. \A q \in PoolId : spare'[q] \subseteq spare[q] /\ spare'[q] \cap (spare[p] \ S) = {}
    <3> SUFFICES ASSUME NEW q \in PoolId
                 PROVE  spare'[q] \subseteq spare[q] /\ spare'[q] \cap (spare[p] \ S) = {}
      OBVIOUS
    <3>1. q # p => spare[q] \cap spare[p] = {}
      BY DEF OwnInv
    <3>. QED
      BY <2>1, <3>1 DEF PoolsTypeOK
  <2>4. \A x \in Conn : x \notin spare[p] \ S => connKey'[x] = connKey[x]
    BY <2>1 DEF Close, PoolsTypeOK
  <2>5. \A q \in PoolId : spare[q] \subseteq Conn
    BY DEF PoolsTypeOK
  <2>. QED
    BY <2>2, <2>3, <2>4, <2>5, OnlyEvicts
<1>9. ASSUME UNCHANGED <<spare, pc, want, held, connKey>> PROVE LeaseStep(k)
  BY <1>9, OnlyEvicts
<1>10. ASSUME AdminStep PROVE LeaseStep(k)
  <2>1. ASSUME NEW p \in PoolId, DropVisit(p) \/ LimitVisit(p) \/ DropKeyVisit(p)
        PROVE  LeaseStep(k)
    BY <1>8, <2>1 DEF DropVisit, LimitVisit, DropKeyVisit
  <2>2. ASSUME NEW n \in Limits, DropAll(n) \/ SetMaxSpare(n) \/ \E l \in Key : DropKey(l, n)
        PROVE  LeaseStep(k)
    BY <1>9, <2>2 DEF DropAll, SetMaxSpare, DropKey, StartWalk, clientVars
  <2>3. ASSUME NEW p \in PoolId, EraseIfEmpty(p) PROVE LeaseStep(k)
    BY <1>9, <2>3 DEF EraseIfEmpty, clientVars
  <2>4. ASSUME EmptyWalkEnds PROVE LeaseStep(k)
    BY <1>9, <2>4 DEF EmptyWalkEnds, clientVars
  <2>. QED
    BY <1>10, <2>1, <2>2, <2>3, <2>4 DEF AdminStep
<1>11. ASSUME UNCHANGED poolsVars PROVE LeaseStep(k)
  BY <1>9, <1>11 DEF poolsVars, clientVars
<1>. QED
  BY <1>1, <1>2, <1>3, <1>4, <1>5, <1>6, <1>7, <1>10, <1>11 DEF PoolsNext, ClientStep

(* For any number of databases, pools and clients, the directory implements *)
(* one SessionLease per database: through erasing and creating pools again, *)
(* nobody shares a connection, and an idle one is reused before a new one   *)
(* is opened.                                                               *)
THEOREM LeasePerDatabaseHolds == ASSUME Careful PROVE PoolsSpec => LeasePerDatabase
<1>1. ASSUME PoolsInit, NEW k \in Key PROVE LeaseOf(k)!Init
  <2>1. Spare = {}
    BY <1>1 DEF PoolsInit, Spare
  <2>. QED
    BY <1>1, <2>1 DEF LeaseOf!Init, PoolsInit
<1>2. PoolsInit => DistinctKeys
  BY DEF PoolsInit, DistinctKeys, Live
<1>3. PoolsInv /\ DistinctKeys /\ [PoolsNext]_poolsVars => \A k \in Key : LeaseStep(k)
  BY LeaseNext
<1>4. PoolsInv /\ DistinctKeys /\ [PoolsNext]_poolsVars
        => [\A k \in Key : [LeaseOf(k)!Next]_(LeaseOf(k)!vars)]_poolsVars
  BY <1>3 DEF LeaseStep
<1>5. PoolsInit => \A k \in Key : LeaseOf(k)!Init
  BY <1>1
<1>. QED
  BY <1>2, <1>4, <1>5, DistinctStep, Directory, PTL DEF PoolsSpec, LeasePerDatabase

-------------------------------------------------------------------------------
(* The transaction guard                                                   *)

-------------------------------------------------------------------------------
(* What std::vector does to its elements, a sequence without duplicates.    *)

(* resize(n) to a smaller size keeps the first n elements, in order.        *)
LEMMA ResizeLemma ==
  ASSUME NEW S, NEW s \in Seq(S), NEW n \in Nat, n <= Len(s)
  PROVE  /\ SubSeq(s, 1, n) \in Seq(S)
         /\ Len(SubSeq(s, 1, n)) = n
         /\ \A i \in 1..n : SubSeq(s, 1, n)[i] = s[i]
         /\ Range(SubSeq(s, 1, n)) \subseteq Range(s)
         /\ IsInjective(s) => IsInjective(SubSeq(s, 1, n))
<1> DEFINE t == SubSeq(s, 1, n)
<1>1. \A i \in 1..n : s[i] \in S
  BY ElementOfSeq
<1>2. /\ t \in Seq(S)
      /\ Len(t) = n
      /\ \A i \in 1..n : t[i] = s[i]
  <2>1. /\ t \in Seq(S)
        /\ Len(t) = IF 1 <= n THEN n - 1 + 1 ELSE 0
        /\ \A i \in 1 .. n-1+1 : t[i] = s[1+i-1]
    BY <1>1, SubSeqProperties
  <2>. QED
    BY <2>1
<1>3. DOMAIN t = 1..n /\ DOMAIN s = 1..Len(s)
  BY <1>2
<1>4. Range(t) \subseteq Range(s)
  BY <1>2, <1>3 DEF Range
<1>5. IsInjective(s) => IsInjective(t)
  BY <1>2, <1>3 DEF IsInjective
<1>. QED
  BY <1>2, <1>4, <1>5

(* pop_back removes exactly the element back() returned.                    *)
LEMMA PopBackLemma ==
  ASSUME NEW S, NEW s \in Seq(S), s # <<>>
  PROVE  /\ Front(s) \in Seq(S)
         /\ Len(s) > 0 /\ Len(Front(s)) = Len(s) - 1
         /\ Last(s) \in S /\ Last(s) \in Range(s)
         /\ Range(s) = Range(Front(s)) \cup {Last(s)}
         /\ IsInjective(s) => IsInjective(Front(s)) /\ Last(s) \notin Range(Front(s))
<1> DEFINE n == Len(s) - 1
           t == SubSeq(s, 1, n)
<1>1. Len(s) \in Nat /\ Len(s) > 0 /\ DOMAIN s = 1..Len(s)
  OBVIOUS
<1>2. n \in Nat /\ n <= Len(s)
  BY <1>1
<1>3. /\ t \in Seq(S)
      /\ Len(t) = n
      /\ \A i \in 1..n : t[i] = s[i]
      /\ Range(t) \subseteq Range(s)
      /\ IsInjective(s) => IsInjective(t)
  BY <1>2, ResizeLemma
<1>4. DOMAIN t = 1..n
  BY <1>3
<1>5. Last(s) = s[Len(s)] /\ Last(s) \in S /\ Last(s) \in Range(s)
  BY <1>1 DEF Last, Range
<1>6. Range(s) \subseteq Range(t) \cup {Last(s)}
  <2>1. ASSUME NEW i \in 1..Len(s), i # Len(s)
        PROVE  s[i] \in Range(t)
    <3>1. i \in 1..n
      BY <2>1
    <3>. QED
      BY <1>3, <1>4, <3>1 DEF Range
  <2>. QED
    BY <1>1, <1>5, <2>1 DEF Range
<1>7. IsInjective(s) => Last(s) \notin Range(t)
  BY <1>1, <1>3, <1>4, <1>5 DEF Range, IsInjective
<1>. QED
  BY <1>1, <1>3, <1>5, <1>6, <1>7 DEF Front

-------------------------------------------------------------------------------
(* What one call of a driver does to a session.                             *)

LEMMA ClosedFresh == Closed \in Session /\ Fresh \in Session
BY DEF Closed, Fresh, Session

LEMMA LostLemma ==
  ASSUME NEW s \in Session
  PROVE  /\ Lost(s) \in Session
         /\ ~Lost(s).up /\ ~Lost(s).open /\ Lost(s).depth = s.depth
BY DEF Lost, Session

(* begin: a transaction is open or counted afterwards only if it was        *)
(* before or the call returned; a call that throws changes nothing.         *)
LEMMA BeginLemma ==
  ASSUME NEW s \in Session, NEW ok \in BOOLEAN, BeginMay(s, ok)
  PROVE  /\ Begun(s, ok) \in Session
         /\ Begun(s, ok).up = s.up
         /\ ~ok => Begun(s, ok) = s
         /\ ok => Begun(s, ok).depth = s.depth + 1
<1>1. CASE ok
  <2>1. Begun(s, ok) = [s EXCEPT !.depth = @ + 1, !.open = s.open \/ TellsBegin(s)]
    BY <1>1 DEF Begun
  <2>2. (s.open \/ TellsBegin(s)) \in BOOLEAN /\ s.depth + 1 \in Nat
    BY DEF Session
  <2>. QED
    BY <1>1, <2>1, <2>2 DEF Session
<1>2. CASE ~ok
  BY <1>2 DEF Begun
<1>. QED
  BY <1>1, <1>2

(* commit and rollback: they open nothing, and the outermost one that       *)
(* returns leaves no transaction open and none counted.                     *)
LEMMA EndLemma ==
  ASSUME NEW s \in Session, NEW ok \in BOOLEAN, NEW left \in BOOLEAN,
         EndMay(s, ok, left)
  PROVE  /\ Ended(s, left) \in Session
         /\ Ended(s, left).up = s.up
         /\ Ended(s, left).open = left
         /\ Ended(s, left).depth = CountDown(s)
         /\ CountDown(s) \in Nat
         /\ s.depth <= 1 => CountDown(s) = 0
         /\ left => s.open
         /\ s.depth <= 1 /\ ok => ~left
<1>1. CountDown(s) \in Nat /\ (s.depth <= 1 => CountDown(s) = 0)
  BY DEF CountDown, Session
<1>2. /\ Ended(s, left) \in Session
      /\ Ended(s, left).up = s.up
      /\ Ended(s, left).open = left
      /\ Ended(s, left).depth = CountDown(s)
  BY <1>1 DEF Ended, Session
<1>3. (left => s.open) /\ (s.depth <= 1 /\ ok => ~left)
  BY <1>1 DEF EndMay
<1>. QED
  BY <1>1, <1>2, <1>3

LEMMA ExecuteLemma ==
  ASSUME NEW s \in Session
  PROVE  /\ Executed(s) \in Session
         /\ Executed(s).up = s.up
         /\ Executed(s).depth = s.depth
         /\ Executed(s).open => s.open \/ s.depth > 0
<1>1. (s.open \/ s.depth > 0) \in BOOLEAN
  OBVIOUS
<1>. QED
  BY <1>1 DEF Executed, Session

-------------------------------------------------------------------------------
Active == {i \in DOMAIN scopes : scopes[i].active}

(* The counter counts active scopes, some of them no longer.                *)
CountInv == IsFiniteSet(Active) /\ sess.depth <= Cardinality(Active)

(* Only an active scope, or a destructor that failed, leaves work pending.  *)
OpenInv == sess.open => rollbackFailed \/ Active # {}

IInv == TypeOK /\ CountInv /\ OpenInv

-------------------------------------------------------------------------------
(* A scope is pushed.                                                       *)
LEMMA PushScope ==
  ASSUME TypeOK, NEW s \in Scope, scopes' = Append(scopes, s), Len(scopes) < MaxNest
  PROVE  /\ scopes' \in Seq(Scope) /\ Len(scopes') <= MaxNest
         /\ Active' = IF s.active THEN Active \cup {Len(scopes) + 1} ELSE Active
         /\ Len(scopes) + 1 \notin Active
<1>1. scopes \in Seq(Scope) /\ Len(scopes) \in Nat /\ DOMAIN scopes = 1..Len(scopes)
  BY DEF TypeOK
<1>2. /\ scopes' \in Seq(Scope)
      /\ Len(scopes') = Len(scopes) + 1
      /\ \A i \in 1..Len(scopes) : scopes'[i] = scopes[i]
      /\ scopes'[Len(scopes) + 1] = s
  BY <1>1, AppendProperties
<1>3. DOMAIN scopes' = 1..(Len(scopes) + 1)
  BY <1>2
<1>4. Len(scopes) + 1 \notin Active
  BY <1>1 DEF Active
<1>5. \A i : i \in Active' <=> (i \in Active \/ (i = Len(scopes) + 1 /\ s.active))
  BY <1>1, <1>2, <1>3 DEF Active
<1>6. Active' = IF s.active THEN Active \cup {Len(scopes) + 1} ELSE Active
  <2>1. CASE s.active
    BY <1>5, <2>1
  <2>2. CASE ~s.active
    BY <1>5, <2>2
  <2>. QED
    BY <2>1, <2>2
<1>. QED
  BY <1>1, <1>2, <1>4, <1>6, MaxNestAssumption

(* The innermost scope changes.                                             *)
LEMMA ChangeTop ==
  ASSUME TypeOK, scopes # <<>>, NEW s \in Scope, SetTop(s)
  PROVE  /\ scopes' \in Seq(Scope) /\ Len(scopes') <= MaxNest
         /\ Active' = IF s.active THEN Active \cup {Len(scopes)}
                                  ELSE Active \ {Len(scopes)}
         /\ Top.active <=> Len(scopes) \in Active
<1>1. /\ scopes \in Seq(Scope) /\ Len(scopes) \in Nat /\ DOMAIN scopes = 1..Len(scopes)
      /\ Len(scopes) \in 1..Len(scopes)
  BY DEF TypeOK
<1>2. /\ scopes' \in Seq(Scope)
      /\ Len(scopes') = Len(scopes)
      /\ \A i \in 1..Len(scopes) : scopes'[i] = IF i = Len(scopes) THEN s ELSE scopes[i]
  BY <1>1, ExceptSeq DEF SetTop
<1>3. DOMAIN scopes' = 1..Len(scopes)
  BY <1>2
<1>4. \A i : i \in Active' <=> IF i = Len(scopes) THEN s.active ELSE i \in Active
  BY <1>1, <1>2, <1>3 DEF Active
<1>5. Top = scopes[Len(scopes)]
  BY DEF Top, Last
<1>6. Top.active <=> Len(scopes) \in Active
  BY <1>1, <1>5 DEF Active
<1>. QED
  BY <1>1, <1>2, <1>4, <1>6 DEF TypeOK

(* The innermost scope is destroyed.                                        *)
LEMMA PopScope ==
  ASSUME TypeOK, scopes # <<>>, scopes' = Front(scopes)
  PROVE  /\ scopes' \in Seq(Scope) /\ Len(scopes') <= MaxNest
         /\ Active' = Active \ {Len(scopes)}
         /\ Top.active <=> Len(scopes) \in Active
<1>1. /\ scopes \in Seq(Scope) /\ Len(scopes) \in Nat /\ DOMAIN scopes = 1..Len(scopes)
      /\ Len(scopes) \in 1..Len(scopes) /\ Len(scopes) - 1 \in Nat
  BY DEF TypeOK
<1>2. /\ scopes' \in Seq(Scope)
      /\ Len(scopes') = Len(scopes) - 1
      /\ \A i \in 1..(Len(scopes) - 1) : scopes'[i] = scopes[i]
  BY <1>1, ResizeLemma DEF Front
<1>3. DOMAIN scopes' = 1..(Len(scopes) - 1)
  BY <1>2
<1>4. \A i : i \in Active' <=> (i \in Active /\ i # Len(scopes))
  BY <1>1, <1>2, <1>3 DEF Active
<1>5. Top = scopes[Len(scopes)]
  BY DEF Top, Last
<1>6. Top.active <=> Len(scopes) \in Active
  BY <1>1, <1>5 DEF Active
<1>. QED
  BY <1>1, <1>2, <1>4, <1>6, MaxNestAssumption DEF TypeOK

-------------------------------------------------------------------------------
(* A scope becomes active after the driver counted its begin; A are the     *)
(* other active ones.                                                       *)
LEMMA BeginCounted ==
  ASSUME NEW s \in Session, NEW A, IsFiniteSet(A), s.depth <= Cardinality(A),
         NEW x, x \notin A, Active' = A \cup {x},
         BeginMay(s, TRUE), sess' = Begun(s, TRUE)
  PROVE  sess' \in Session /\ CountInv' /\ OpenInv'
<1>1. sess' \in Session /\ sess'.depth = s.depth + 1 /\ s.depth \in Nat
  BY BeginLemma DEF Session
<1>2. /\ IsFiniteSet(A \cup {x})
      /\ Cardinality(A \cup {x}) = Cardinality(A) + 1
      /\ Cardinality(A) \in Nat
  BY FS_AddElement, FS_CardinalityType
<1>3. CountInv'
  <2>1. IsFiniteSet(Active') /\ Cardinality(Active') = Cardinality(A) + 1
    BY <1>2
  <2>2. s.depth + 1 <= Cardinality(A) + 1
    BY <1>1, <1>2
  <2>3. sess'.depth <= Cardinality(Active')
    BY <1>1, <2>1, <2>2
  <2>. QED
    BY <2>1, <2>3 DEF CountInv
<1>4. OpenInv'
  BY DEF OpenInv
<1>. QED
  BY <1>1, <1>3, <1>4

(* A commit or rollback takes one off the counter for one active scope      *)
(* less; when it was the last and the call returns, the server ended the    *)
(* transaction.                                                             *)
LEMMA EndOne ==
  ASSUME NEW s \in Session, NEW A, IsFiniteSet(A), s.depth <= Cardinality(A),
         NEW x \in A, NEW ok \in BOOLEAN, NEW p \in BOOLEAN, EndMay(s, ok, p)
  PROVE  /\ Ended(s, p) \in Session /\ Ended(s, p).open = p
         /\ IsFiniteSet(A \ {x}) /\ Ended(s, p).depth <= Cardinality(A \ {x})
         /\ Ended(s, p).depth <= Cardinality(A)
         /\ ok /\ p => A \ {x} # {}
<1>1. s.depth \in Nat
  BY DEF Session
<1>2. /\ Ended(s, p) \in Session /\ Ended(s, p).open = p
      /\ Ended(s, p).depth = CountDown(s)
      /\ s.depth <= 1 /\ ok => ~p
  BY EndLemma
<1>3. /\ Cardinality(A) \in Nat
      /\ IsFiniteSet(A \ {x}) /\ Cardinality(A \ {x}) = Cardinality(A) - 1
  BY FS_CardinalityType, FS_RemoveElement
<1>4. Cardinality(A \ {x}) \in Nat
  BY <1>3, FS_CardinalityType
<1>5. CountDown(s) <= Cardinality(A \ {x}) /\ CountDown(s) <= Cardinality(A)
  BY <1>1, <1>3, <1>4 DEF CountDown
<1>6. ok /\ p => A \ {x} # {}
  <2>1. ASSUME A \ {x} = {}, ok PROVE ~p
    <3>1. Cardinality(A \ {x}) = 0
      BY <2>1, FS_EmptySet
    <3>2. s.depth <= 1
      BY <1>1, <1>3, <3>1
    <3>. QED
      BY <1>2, <2>1, <3>2
  <2>. QED
    BY <2>1
<1>. QED
  BY <1>2, <1>3, <1>5, <1>6

(* The end of the innermost active scope.  A call that throws leaves the    *)
(* scope active, or the destructor remembers that it failed.                *)
LEMMA EndCounted ==
  ASSUME IInv, NEW x \in Active, NEW ok \in BOOLEAN, NEW p \in BOOLEAN,
         EndMay(sess, ok, p), sess' = Ended(sess, p),
         Active' \in {Active, Active \ {x}},
         ok \/ rollbackFailed' \/ Active' = Active
  PROVE  sess' \in Session /\ CountInv' /\ OpenInv'
<1>1. IsFiniteSet(Active) /\ sess.depth <= Cardinality(Active) /\ sess \in Session
  BY DEF IInv, CountInv, TypeOK
<1>2. /\ sess' \in Session /\ sess'.open = p
      /\ IsFiniteSet(Active \ {x}) /\ sess'.depth <= Cardinality(Active \ {x})
      /\ sess'.depth <= Cardinality(Active)
      /\ ok /\ p => Active \ {x} # {}
  BY <1>1, EndOne
<1>3. CountInv'
  <2>1. CASE Active' = Active
    BY <1>1, <1>2, <2>1 DEF CountInv
  <2>2. CASE Active' = Active \ {x}
    BY <1>2, <2>2 DEF CountInv
  <2>. QED
    BY <2>1, <2>2
<1>4. OpenInv'
  <2>1. CASE Active' = Active
    BY <2>1 DEF OpenInv
  <2>2. CASE rollbackFailed'
    BY <2>2 DEF OpenInv
  <2>3. CASE ok /\ Active' = Active \ {x}
    BY <1>2, <2>3 DEF OpenInv
  <2>. QED
    BY <2>1, <2>2, <2>3
<1>. QED
  BY <1>2, <1>3, <1>4

-------------------------------------------------------------------------------
(* The data: what is pending or durable was executed.                       *)
DataOK ==
    /\ unused \subseteq Work
    /\ pending \subseteq Work \ unused
    /\ durable \subseteq Work \ unused
    /\ undone \subseteq Work
    /\ committed \subseteq Work
    /\ rollbackFailed \in BOOLEAN

LEMMA TopLemma ==
  ASSUME TypeOK, scopes # <<>>
  PROVE  /\ Top \in Scope /\ Abandoned \subseteq Work /\ Top.work \subseteq Work
         /\ \A t \in BOOLEAN : [Top EXCEPT !.tried = t] \in Scope
         /\ \A t \in BOOLEAN : [Top EXCEPT !.tried = t].active = Top.active
         /\ \A a, t \in BOOLEAN : [Top EXCEPT !.active = a, !.tried = t] \in Scope
         /\ \A a, t \in BOOLEAN : [Top EXCEPT !.active = a, !.tried = t].active = a
<1>1. Top \in Scope
  BY PopBackLemma DEF TypeOK, Top
<1>. QED
  BY <1>1 DEF Scope, Abandoned

LEMMA DataLemma ==
  ASSUME TypeOK, UNCHANGED unused,
         pending' \subseteq pending, durable' \subseteq durable \cup pending,
         undone' \subseteq Work, committed' \subseteq Work, rollbackFailed' \in BOOLEAN
  PROVE  DataOK'
BY DEF TypeOK, DataOK

LEMMA Together ==
  ASSUME DataOK', scopes' \in Seq(Scope), Len(scopes') <= MaxNest, sess' \in Session
  PROVE  TypeOK'
BY DEF DataOK, TypeOK

-------------------------------------------------------------------------------
(* One lemma per member of Transaction                                      *)

LEMMA BeginStep ==
  ASSUME IInv, NEW x, x \notin Active, NEW ok \in BOOLEAN, DriverBegin(ok),
         Active' = (IF ok THEN Active \cup {x} ELSE Active),
         UNCHANGED rollbackFailed
  PROVE  sess' \in Session /\ CountInv' /\ OpenInv'
<1>1. sess \in Session /\ BeginMay(sess, ok) /\ sess' = Begun(sess, ok)
  BY DEF IInv, TypeOK, DriverBegin
<1>2. CASE ok
  <2>1. BeginMay(sess, TRUE) /\ sess' = Begun(sess, TRUE) /\ Active' = Active \cup {x}
    BY <1>1, <1>2
  <2>2. IsFiniteSet(Active) /\ sess.depth <= Cardinality(Active)
    BY DEF IInv, CountInv
  <2>. QED
    BY <1>1, <2>1, <2>2, BeginCounted
<1>3. CASE ~ok
  <2>1. sess' = sess /\ Active' = Active
    BY <1>1, <1>3, BeginLemma
  <2>. QED
    BY <1>1, <2>1 DEF IInv, CountInv, OpenInv
<1>. QED
  BY <1>2, <1>3

LEMMA ConstructStep ==
  ASSUME IInv, Construct
  PROVE  IInv'
<1>. USE DEF IInv
<1>1. Len(scopes) < MaxNest /\ UNCHANGED <<unused, undone, committed, rollbackFailed>>
  BY DEF Construct
<1>2. Begin0 \in Scope /\ Begin0.active /\ Inactive \in Scope /\ ~Inactive.active
  BY DEF Begin0, Inactive, Scope
<1>3. DataOK'
  BY DataLemma DEF Construct, DriverBegin, TypeOK
<1>4. ASSUME NEW ok \in BOOLEAN, DriverBegin(ok),
             scopes' = IF ok THEN Append(scopes, Begin0) ELSE scopes
      PROVE  IInv'
  <2>1. CASE ok
    <3>1. scopes' = Append(scopes, Begin0)
      BY <1>4, <2>1
    <3>2. /\ scopes' \in Seq(Scope) /\ Len(scopes') <= MaxNest
          /\ Active' = Active \cup {Len(scopes) + 1}
          /\ Len(scopes) + 1 \notin Active
      BY <1>1, <1>2, <3>1, PushScope
    <3>3. sess' \in Session /\ CountInv' /\ OpenInv'
      BY <1>1, <1>4, <2>1, <3>2, BeginStep
    <3>. QED
      BY <1>3, <3>2, <3>3, Together
  <2>2. CASE ~ok
    <3>1. UNCHANGED scopes /\ Active' = Active
      BY <1>4, <2>2 DEF Active
    <3>2. PICK x : x \notin Active
      <4>1. 0 \notin Active
        BY DEF Active, TypeOK
      <4>. QED
        BY <4>1
    <3>3. sess' \in Session /\ CountInv' /\ OpenInv'
      BY <1>1, <1>4, <2>2, <3>1, <3>2, BeginStep
    <3>. QED
      BY <1>3, <3>1, <3>3, Together DEF TypeOK
  <2>. QED
    BY <2>1, <2>2
<1>5. ASSUME scopes' = Append(scopes, Inactive), UNCHANGED sess
      PROVE  IInv'
  <2>1. scopes' \in Seq(Scope) /\ Len(scopes') <= MaxNest /\ Active' = Active
    BY <1>1, <1>2, <1>5, PushScope
  <2>2. sess' \in Session /\ CountInv' /\ OpenInv'
    BY <1>1, <1>5, <2>1 DEF CountInv, OpenInv, TypeOK
  <2>. QED
    BY <1>3, <2>1, <2>2, Together
<1>. QED
  BY <1>4, <1>5 DEF Construct

LEMMA BeginMemberStep ==
  ASSUME IInv, Begin
  PROVE  IInv'
<1>. USE DEF IInv
<1>1. PICK ok \in BOOLEAN : DriverBegin(ok) /\ SetTop(IF ok THEN Begin0 ELSE Top)
  BY DEF Begin
<1>2. /\ scopes # <<>> /\ ~Top.active
      /\ UNCHANGED <<unused, undone, committed, rollbackFailed>>
  BY DEF Begin
<1>3. DataOK'
  BY <1>1, <1>2, DataLemma DEF DriverBegin, TypeOK
<1>4. Begin0 \in Scope /\ Begin0.active /\ Top \in Scope
  BY <1>2, TopLemma DEF Begin0, Scope
<1>5. /\ scopes' \in Seq(Scope) /\ Len(scopes') <= MaxNest
      /\ Len(scopes) \notin Active
      /\ Active' = IF ok THEN Active \cup {Len(scopes)} ELSE Active
  <2>1. CASE ok
    <3>1. SetTop(Begin0)
      BY <1>1, <2>1
    <3>. QED
      BY <1>2, <1>4, <2>1, <3>1, ChangeTop
  <2>2. CASE ~ok
    <3>1. SetTop(Top)
      BY <1>1, <2>2
    <3>2. /\ scopes' \in Seq(Scope) /\ Len(scopes') <= MaxNest
          /\ Len(scopes) \notin Active /\ Active' = Active \ {Len(scopes)}
      BY <1>2, <1>4, <3>1, ChangeTop
    <3>. QED
      BY <2>2, <3>2
  <2>. QED
    BY <2>1, <2>2
<1>6. sess' \in Session /\ CountInv' /\ OpenInv'
  BY <1>1, <1>2, <1>5, BeginStep
<1>. QED
  BY <1>3, <1>5, <1>6, Together

(* commit() and rollback() of an active scope: it stays active when the     *)
(* driver's call throws.                                                    *)
LEMMA EndStep ==
  ASSUME IInv, scopes # <<>>, Top.active, NEW ok \in BOOLEAN,
         DriverCommit(ok) \/ DriverRollback(ok),
         SetTop([Top EXCEPT !.active = ~ok, !.tried = TRUE]),
         UNCHANGED <<unused, rollbackFailed>>, undone' \subseteq Work, committed' \subseteq Work
  PROVE  IInv'
<1>. USE DEF IInv
<1>1. PICK p \in BOOLEAN :
        /\ EndMay(sess, ok, p) /\ sess' = Ended(sess, p)
        /\ pending' \subseteq pending /\ durable' \subseteq durable \cup pending
  <2>1. CASE DriverCommit(ok)
    BY <2>1 DEF DriverCommit
  <2>2. CASE DriverRollback(ok)
    BY <2>2 DEF DriverRollback
  <2>. QED
    BY <2>1, <2>2
<1>2. DataOK'
  BY <1>1, DataLemma DEF TypeOK
<1>3. /\ [Top EXCEPT !.active = ~ok, !.tried = TRUE] \in Scope
      /\ [Top EXCEPT !.active = ~ok, !.tried = TRUE].active = ~ok
  BY TopLemma
<1>4. /\ scopes' \in Seq(Scope) /\ Len(scopes') <= MaxNest
      /\ Len(scopes) \in Active
      /\ Active' = IF ~ok THEN Active \cup {Len(scopes)} ELSE Active \ {Len(scopes)}
  BY <1>3, ChangeTop
<1>5. Active' \in {Active, Active \ {Len(scopes)}} /\ (ok \/ Active' = Active)
  BY <1>4
<1>6. sess' \in Session /\ CountInv' /\ OpenInv'
  BY <1>1, <1>4, <1>5, EndCounted
<1>. QED
  BY <1>2, <1>4, <1>6, Together

(* begin() of an active scope that threw when it rolled back.               *)
LEMMA BeginAgainThrows ==
  ASSUME IInv, scopes # <<>>, Top.active, DriverRollback(FALSE),
         SetTop([Top EXCEPT !.tried = TRUE]),
         UNCHANGED <<unused, undone, committed, rollbackFailed>>
  PROVE  IInv'
<1>1. [Top EXCEPT !.tried = TRUE] = [Top EXCEPT !.active = ~FALSE, !.tried = TRUE]
  BY TopLemma DEF IInv, Scope
<1>. QED
  BY <1>1, EndStep DEF IInv, TypeOK

(* begin() of an active scope: its work is rolled back and it begins again. *)
LEMMA BeginAgainReturns ==
  ASSUME IInv, scopes # <<>>, Top.active, NEW ok \in BOOLEAN, NEW p \in BOOLEAN,
         EndMay(sess, TRUE, p), BeginMay(Ended(sess, p), ok),
         sess' = Begun(Ended(sess, p), ok),
         SetTop(IF ok THEN Begin0 ELSE Inactive),
         pending' \subseteq pending, undone' = undone \cup Abandoned,
         UNCHANGED <<unused, durable, committed, rollbackFailed>>
  PROVE  IInv'
<1>. USE DEF IInv
<1>1. DataOK'
  BY TopLemma, DataLemma DEF TypeOK
<1>2. /\ Begin0 \in Scope /\ Begin0.active = TRUE
      /\ Inactive \in Scope /\ Inactive.active = FALSE
  BY DEF Begin0, Inactive, Scope
<1> DEFINE A == Active \ {Len(scopes)}
<1>3. /\ scopes' \in Seq(Scope) /\ Len(scopes') <= MaxNest
      /\ Len(scopes) \in Active /\ Len(scopes) \notin A
      /\ Active' = IF ok THEN A \cup {Len(scopes)} ELSE A
  <2>1. CASE ok
    <3>1. SetTop(Begin0)
      BY <2>1
    <3>2. /\ scopes' \in Seq(Scope) /\ Len(scopes') <= MaxNest
          /\ Len(scopes) \in Active /\ Active' = Active \cup {Len(scopes)}
      BY <1>2, <3>1, ChangeTop
    <3>. QED
      BY <2>1, <3>2
  <2>2. CASE ~ok
    <3>1. SetTop(Inactive)
      BY <2>2
    <3>2. /\ scopes' \in Seq(Scope) /\ Len(scopes') <= MaxNest
          /\ Len(scopes) \in Active /\ Active' = A
      BY <1>2, <3>1, ChangeTop
    <3>. QED
      BY <2>2, <3>2
  <2>. QED
    BY <2>1, <2>2
<1> DEFINE between == Ended(sess, p)
<1>4. /\ between \in Session /\ between.open = p
      /\ IsFiniteSet(A) /\ between.depth <= Cardinality(A)
      /\ p => A # {}
  <2>1. IsFiniteSet(Active) /\ sess.depth <= Cardinality(Active) /\ sess \in Session
    BY DEF CountInv, TypeOK
  <2>2. TRUE \in BOOLEAN
    OBVIOUS
  <2>. QED
    BY <1>3, <2>1, <2>2, EndOne
<1>. HIDE DEF A, between
<1>5. BeginMay(between, ok) /\ sess' = Begun(between, ok)
  BY DEF between
<1>6. sess' \in Session /\ CountInv' /\ OpenInv'
  <2>1. CASE ok
    <3>1. /\ BeginMay(between, TRUE) /\ sess' = Begun(between, TRUE)
          /\ Active' = A \cup {Len(scopes)}
      BY <1>3, <1>5, <2>1
    <3>. QED
      BY <1>3, <1>4, <3>1, BeginCounted
  <2>2. CASE ~ok
    <3>1. sess' = between /\ Active' = A
      BY <1>3, <1>4, <1>5, <2>2, BeginLemma
    <3>. QED
      BY <1>4, <3>1 DEF CountInv, OpenInv
  <2>. QED
    BY <2>1, <2>2
<1>. QED
  BY <1>1, <1>3, <1>6, Together

LEMMA BeginAgainStep ==
  ASSUME IInv, BeginAgain
  PROVE  IInv'
<1>1. /\ scopes # <<>> /\ Top.active
      /\ UNCHANGED <<unused, committed, rollbackFailed>>
  BY DEF BeginAgain
<1>2. CASE DriverRollback(FALSE) /\ SetTop([Top EXCEPT !.tried = TRUE]) /\ UNCHANGED undone
  BY <1>1, <1>2, BeginAgainThrows
<1>3. ASSUME NEW ok \in BOOLEAN, NEW between,
             between = Ended(sess, sess.open /\ CountDown(sess) > 0),
             EndMay(sess, TRUE, between.open), BeginMay(between, ok),
             sess' = Begun(between, ok),
             pending' = IF CountDown(sess) > 0 THEN pending ELSE {},
             SetTop(IF ok THEN Begin0 ELSE Inactive),
             undone' = undone \cup Abandoned, UNCHANGED durable
      PROVE  IInv'
  <2> DEFINE p == (sess.open /\ CountDown(sess) > 0)
  <2>1. p \in BOOLEAN
    OBVIOUS
  <2>2. between.open = p
    BY <1>3, <2>1 DEF Ended, IInv, TypeOK, Session
  <2>3. EndMay(sess, TRUE, p) /\ between = Ended(sess, p)
    BY <1>3, <2>2
  <2>4. pending' \subseteq pending
    BY <1>3
  <2>. HIDE DEF p
  <2>. QED
    BY <1>1, <1>3, <2>1, <2>3, <2>4, BeginAgainReturns
<1>. QED
  BY <1>2, <1>3 DEF BeginAgain

LEMMA DestructStep ==
  ASSUME IInv, Destruct
  PROVE  IInv'
<1>. USE DEF IInv
<1>1. scopes # <<>> /\ scopes' = Front(scopes) /\ UNCHANGED <<unused, committed>>
  BY DEF Destruct
<1>2. /\ scopes' \in Seq(Scope) /\ Len(scopes') <= MaxNest
      /\ Active' = Active \ {Len(scopes)}
      /\ Top.active <=> Len(scopes) \in Active
  BY <1>1, PopScope
<1>3. ASSUME Top.active, NEW ok \in BOOLEAN, DriverRollback(ok),
             undone' = (IF ok THEN undone \cup Abandoned ELSE undone),
             rollbackFailed' = (rollbackFailed \/ ~ok)
      PROVE  IInv'
  <2>1. PICK p \in BOOLEAN :
          /\ EndMay(sess, ok, p) /\ sess' = Ended(sess, p)
          /\ pending' \subseteq pending /\ UNCHANGED durable
    BY <1>3 DEF DriverRollback
  <2>2. undone' \subseteq Work /\ rollbackFailed' \in BOOLEAN
    BY <1>1, <1>3, TopLemma DEF TypeOK
  <2>3. DataOK'
    BY <1>1, <2>1, <2>2, DataLemma DEF TypeOK
  <2>4. ok \/ rollbackFailed'
    BY <1>3
  <2>5. sess' \in Session /\ CountInv' /\ OpenInv'
    BY <1>2, <1>3, <2>1, <2>4, EndCounted
  <2>. QED
    BY <1>2, <2>3, <2>5, Together
<1>4. ASSUME ~Top.active, UNCHANGED <<sess, pending, durable, undone, rollbackFailed>>
      PROVE  IInv'
  <2>1. Active' = Active
    BY <1>2, <1>4
  <2>2. DataOK'
    BY <1>1, <1>4, DataLemma DEF TypeOK
  <2>3. sess' \in Session /\ CountInv' /\ OpenInv'
    BY <1>4, <2>1 DEF CountInv, OpenInv, TypeOK
  <2>. QED
    BY <1>2, <2>2, <2>3, Together
<1>. QED
  BY <1>3, <1>4 DEF Destruct

LEMMA ExecuteStep ==
  ASSUME IInv, NEW w \in Work, Execute(w)
  PROVE  IInv'
<1>. USE DEF IInv
<1>1. /\ w \in unused /\ unused' = unused \ {w} /\ sess' = Executed(sess)
      /\ UNCHANGED <<undone, committed, rollbackFailed>>
      /\ \/ pending' = pending \cup {w} /\ UNCHANGED durable
         \/ durable' = durable \cup {w} /\ UNCHANGED pending
  BY DEF Execute
<1>2. DataOK'
  BY <1>1 DEF DataOK, TypeOK
<1>3. scopes \in Seq(Scope) /\ DOMAIN scopes = 1..Len(scopes) /\ Len(scopes) \in Nat
  BY DEF TypeOK
<1>4. /\ scopes' \in [1..Len(scopes) -> Scope]
      /\ \A i \in 1..Len(scopes) : scopes'[i].active = scopes[i].active
  <2>1. scopes' = [i \in 1..Len(scopes) |->
                     IF scopes[i].active /\ ~scopes[i].tried
                     THEN [scopes[i] EXCEPT !.work = @ \cup {w}]
                     ELSE scopes[i]]
    BY <1>3 DEF Execute
  <2>2. ASSUME NEW s \in Scope
        PROVE  /\ [s EXCEPT !.work = @ \cup {w}] \in Scope
               /\ [s EXCEPT !.work = @ \cup {w}].active = s.active
    BY DEF Scope
  <2>3. \A i \in 1..Len(scopes) : scopes[i] \in Scope
    BY <1>3, ElementOfSeq
  <2>. QED
    BY <2>1, <2>2, <2>3
<1>5. scopes' \in Seq(Scope) /\ Len(scopes') = Len(scopes) /\ Len(scopes') <= MaxNest
  BY <1>3, <1>4, SeqDef DEF TypeOK
<1>6. Active' = Active
  BY <1>3, <1>4, <1>5 DEF Active
<1>7. sess' \in Session /\ CountInv' /\ OpenInv'
  <2>1. /\ sess' \in Session /\ sess'.depth = sess.depth
        /\ sess'.open => sess.open \/ sess.depth > 0
    BY <1>1, ExecuteLemma DEF TypeOK
  <2>2. CountInv'
    BY <1>6, <2>1 DEF CountInv
  <2>3. Active = {} => ~(sess.depth > 0)
    BY FS_EmptySet DEF CountInv, TypeOK, Session
  <2>4. OpenInv'
    BY <1>1, <1>6, <2>1, <2>3 DEF OpenInv
  <2>. QED
    BY <2>1, <2>2, <2>4
<1>. QED
  BY <1>2, <1>5, <1>7, Together

LEMMA ServerLossStep ==
  ASSUME IInv, ServerLoss
  PROVE  IInv'
<1>. USE DEF IInv
<1>1. /\ sess' = Lost(sess) /\ pending' = {}
      /\ UNCHANGED <<scopes, unused, durable, undone, committed, rollbackFailed>>
  BY DEF ServerLoss
<1>2. DataOK'
  BY <1>1, DataLemma DEF TypeOK
<1>3. sess' \in Session /\ sess'.depth = sess.depth /\ ~sess'.open
  BY <1>1, LostLemma DEF TypeOK
<1>4. Active' = Active
  BY <1>1 DEF Active
<1>5. CountInv' /\ OpenInv'
  BY <1>3, <1>4 DEF CountInv, OpenInv
<1>. QED
  BY <1>1, <1>2, <1>3, <1>5, Together DEF TypeOK

-------------------------------------------------------------------------------
LEMMA Scopes == Spec => []IInv
<1>1. Init => IInv
  <2> SUFFICES ASSUME Init PROVE IInv
    OBVIOUS
  <2>1. TypeOK
    <3>1. <<>> \in Seq(Scope) /\ Len(<<>>) = 0 /\ FALSE \in BOOLEAN
      BY EmptySeq
    <3>2. scopes \in Seq(Scope) /\ Len(scopes) <= MaxNest
      BY <3>1, MaxNestAssumption DEF Init
    <3>3. sess \in Session
      BY ClosedFresh DEF Init
    <3>. QED
      BY <3>1, <3>2, <3>3 DEF Init, TypeOK
  <2>2. Active = {} /\ sess.depth = 0 /\ ~sess.open
    BY DEF Init, Active, Fresh
  <2>3. CountInv /\ OpenInv
    BY <2>2, FS_EmptySet DEF CountInv, OpenInv
  <2>. QED
    BY <2>1, <2>3 DEF IInv
<1>2. IInv /\ [Next]_vars => IInv'
  <2> SUFFICES ASSUME IInv, [Next]_vars PROVE IInv'
    OBVIOUS
  <2>1. CASE Construct
    BY <2>1, ConstructStep
  <2>2. CASE Begin
    BY <2>2, BeginMemberStep
  <2>3. CASE BeginAgain
    BY <2>3, BeginAgainStep
  <2>4. CASE Commit
    <3>1. PICK ok \in BOOLEAN :
            /\ DriverCommit(ok)
            /\ SetTop([Top EXCEPT !.active = ~ok, !.tried = TRUE])
            /\ committed' \subseteq committed \cup Top.work
      BY <2>4 DEF Commit
    <3>2. /\ scopes # <<>> /\ Top.active
          /\ UNCHANGED <<unused, undone, rollbackFailed>>
      BY <2>4 DEF Commit
    <3>3. committed' \subseteq Work /\ undone' \subseteq Work
      BY <3>1, <3>2, TopLemma DEF IInv, TypeOK
    <3>. QED
      BY <3>1, <3>2, <3>3, EndStep
  <2>5. CASE Rollback
    <3>1. PICK ok \in BOOLEAN :
            /\ DriverRollback(ok)
            /\ SetTop([Top EXCEPT !.active = ~ok, !.tried = TRUE])
            /\ undone' \subseteq undone \cup Abandoned
      BY <2>5 DEF Rollback
    <3>2. /\ scopes # <<>> /\ Top.active
          /\ UNCHANGED <<unused, committed, rollbackFailed>>
      BY <2>5 DEF Rollback
    <3>3. committed' \subseteq Work /\ undone' \subseteq Work
      BY <3>1, <3>2, TopLemma DEF IInv, TypeOK
    <3>. QED
      BY <3>1, <3>2, <3>3, EndStep
  <2>6. CASE Destruct
    BY <2>6, DestructStep
  <2>7. CASE ServerLoss
    BY <2>7, ServerLossStep
  <2>8. ASSUME NEW w \in Work, Execute(w) PROVE IInv'
    BY <2>8, ExecuteStep
  <2>9. CASE UNCHANGED vars
    BY <2>9 DEF vars, IInv, TypeOK, CountInv, OpenInv, Active
  <2>. QED
    BY <2>1, <2>2, <2>3, <2>4, <2>5, <2>6, <2>7, <2>8, <2>9 DEF Next
<1>. QED
  BY <1>1, <1>2, PTL DEF Spec

(* The scopes, the driver's session and the data keep their types, for any  *)
(* nesting of scopes and any work.                                          *)
THEOREM TypeCorrect == Spec => []TypeOK
BY Scopes, PTL DEF IInv

(* However deep scopes nest and whichever begins, commits and rollbacks     *)
(* throw: when the last scope is destroyed, and no rollback of a destructor *)
(* failed, the connection is in no transaction.                             *)
THEOREM NeverLeftOpenHolds == Spec => []NeverLeftOpen
<1>1. IInv => NeverLeftOpen
  <2> SUFFICES ASSUME IInv, scopes = <<>>, ~rollbackFailed
               PROVE  ~sess.open /\ sess.depth = 0
    BY DEF NeverLeftOpen
  <2>1. Active = {}
    BY DEF Active
  <2>2. sess.depth \in Nat
    BY DEF IInv, TypeOK, Session
  <2>. QED
    BY <2>1, <2>2, FS_EmptySet DEF IInv, CountInv, OpenInv
<1>. QED
  BY <1>1, Scopes, PTL

-------------------------------------------------------------------------------
(* The data.  A scope whose end was not tried yet has its begin on the      *)
(* driver's counter, so nothing above it can reach the server with a commit *)
(* or a rollback: its work is still pending unless the server was lost.     *)
Untried == {i \in DOMAIN scopes : scopes[i].active /\ ~scopes[i].tried}

DepthInv == IsFiniteSet(Untried) /\ Cardinality(Untried) <= sess.depth

(* An end throws only when it is told to the server, that is when no other  *)
(* scope is counted: below a scope whose end threw there is no untried one. *)
TriedInv == \A j \in Active : scopes[j].tried => \A i \in Untried : j < i

WorkInv == \A i \in Untried :
    /\ scopes[i].work \cap unused = {}
    /\ scopes[i].work \cap durable = {}
    /\ sess.up => scopes[i].work \subseteq pending

(* What was undone is nowhere anymore.                                      *)
GoneInv == undone \cap (unused \cup pending \cup durable) = {}

DInv == DepthInv /\ TriedInv /\ WorkInv /\ GoneInv /\ CommittedIsDurable

(* A new scope that is active, and one that is not.                         *)
LEMMA PushData ==
  ASSUME TypeOK, NEW s \in Scope, scopes' = Append(scopes, s)
  PROVE  /\ \A i : i \in Untried' <=>
                     (i \in Untried \/ (i = Len(scopes) + 1 /\ s.active /\ ~s.tried))
         /\ \A i : i \in Active' <=> (i \in Active \/ (i = Len(scopes) + 1 /\ s.active))
         /\ \A i \in Active : i \in 1..Len(scopes) /\ scopes'[i] = scopes[i]
         /\ scopes'[Len(scopes) + 1] = s
         /\ Len(scopes) \in Nat /\ Untried \subseteq Active
<1>1. scopes \in Seq(Scope) /\ Len(scopes) \in Nat /\ DOMAIN scopes = 1..Len(scopes)
  BY DEF TypeOK
<1>2. /\ scopes' \in Seq(Scope)
      /\ Len(scopes') = Len(scopes) + 1
      /\ \A i \in 1..Len(scopes) : scopes'[i] = scopes[i]
      /\ scopes'[Len(scopes) + 1] = s
  BY <1>1, AppendProperties
<1>3. DOMAIN scopes' = 1..(Len(scopes) + 1)
  BY <1>2
<1>4. \A i : i \in Untried' <=>
               (i \in Untried \/ (i = Len(scopes) + 1 /\ s.active /\ ~s.tried))
  BY <1>1, <1>2, <1>3 DEF Untried
<1>5. \A i : i \in Active' <=> (i \in Active \/ (i = Len(scopes) + 1 /\ s.active))
  BY <1>1, <1>2, <1>3 DEF Active
<1>6. Untried \subseteq Active /\ Active \subseteq 1..Len(scopes)
  BY <1>1 DEF Untried, Active
<1>. QED
  BY <1>1, <1>2, <1>4, <1>5, <1>6

(* The innermost scope changes.                                             *)
LEMMA ChangeData ==
  ASSUME TypeOK, scopes # <<>>, NEW s \in Scope, SetTop(s)
  PROVE  /\ \A i : i \in Untried' <=>
                     IF i = Len(scopes) THEN s.active /\ ~s.tried ELSE i \in Untried
         /\ \A i : i \in Active' <=> IF i = Len(scopes) THEN s.active ELSE i \in Active
         /\ \A i \in Active : /\ i \in 1..Len(scopes)
                              /\ i # Len(scopes) => scopes'[i] = scopes[i]
         /\ scopes'[Len(scopes)] = s
         /\ Len(scopes) \in Nat /\ Untried \subseteq Active
<1>1. /\ scopes \in Seq(Scope) /\ Len(scopes) \in Nat /\ DOMAIN scopes = 1..Len(scopes)
      /\ Len(scopes) \in 1..Len(scopes)
  BY DEF TypeOK
<1>2. /\ scopes' \in Seq(Scope)
      /\ Len(scopes') = Len(scopes)
      /\ \A i \in 1..Len(scopes) : scopes'[i] = IF i = Len(scopes) THEN s ELSE scopes[i]
  BY <1>1, ExceptSeq DEF SetTop
<1>3. DOMAIN scopes' = 1..Len(scopes)
  BY <1>2
<1>4. \A i : i \in Untried' <=>
               IF i = Len(scopes) THEN s.active /\ ~s.tried ELSE i \in Untried
  BY <1>1, <1>2, <1>3 DEF Untried
<1>5. \A i : i \in Active' <=> IF i = Len(scopes) THEN s.active ELSE i \in Active
  BY <1>1, <1>2, <1>3 DEF Active
<1>6. Untried \subseteq Active /\ Active \subseteq 1..Len(scopes)
  BY <1>1 DEF Untried, Active
<1>. QED
  BY <1>1, <1>2, <1>4, <1>5, <1>6

(* The innermost scope is destroyed.                                        *)
LEMMA PopData ==
  ASSUME TypeOK, scopes # <<>>, scopes' = Front(scopes)
  PROVE  /\ \A i : i \in Untried' <=> (i \in Untried /\ i # Len(scopes))
         /\ \A i : i \in Active' <=> (i \in Active /\ i # Len(scopes))
         /\ \A i \in Active : i \in 1..Len(scopes)
         /\ \A i \in Active' : scopes'[i] = scopes[i]
         /\ Untried \subseteq Active
<1>1. /\ scopes \in Seq(Scope) /\ Len(scopes) \in Nat /\ DOMAIN scopes = 1..Len(scopes)
      /\ Len(scopes) \in 1..Len(scopes) /\ Len(scopes) - 1 \in Nat
  BY DEF TypeOK
<1>2. /\ scopes' \in Seq(Scope)
      /\ Len(scopes') = Len(scopes) - 1
      /\ \A i \in 1..(Len(scopes) - 1) : scopes'[i] = scopes[i]
  BY <1>1, ResizeLemma DEF Front
<1>3. DOMAIN scopes' = 1..(Len(scopes) - 1)
  BY <1>2
<1>4. \A i : i \in Untried' <=> (i \in Untried /\ i # Len(scopes))
  BY <1>1, <1>2, <1>3 DEF Untried
<1>5. \A i : i \in Active' <=> (i \in Active /\ i # Len(scopes))
  BY <1>1, <1>2, <1>3 DEF Active
<1>6. /\ Untried \subseteq Active /\ Active \subseteq 1..Len(scopes)
      /\ \A i \in Active' : i \in 1..(Len(scopes) - 1)
  BY <1>1, <1>3 DEF Untried, Active
<1>. QED
  BY <1>2, <1>4, <1>5, <1>6

(* When the innermost scope is active and ends, the others that are untried *)
(* are still counted; the call throws only when there are none.             *)
LEMMA OthersCounted ==
  ASSUME IInv, DInv, scopes # <<>>, Len(scopes) \in Active,
         NEW ok \in BOOLEAN, NEW p \in BOOLEAN, EndMay(sess, ok, p)
  PROVE  /\ IsFiniteSet(Untried \ {Len(scopes)})
         /\ Cardinality(Untried \ {Len(scopes)}) <= CountDown(sess)
         /\ Untried \ {Len(scopes)} # {} => CountDown(sess) > 0
         /\ ~ok => Untried \ {Len(scopes)} = {}
         /\ Outermost => CountDown(sess) = 0
<1> DEFINE x == Len(scopes)
           R == Untried \ {x}
<1>1. /\ sess.depth \in Nat /\ Len(scopes) \in Nat /\ DOMAIN scopes = 1..Len(scopes)
      /\ IsFiniteSet(Untried) /\ Cardinality(Untried) <= sess.depth
      /\ IsFiniteSet(Active) /\ sess.depth <= Cardinality(Active)
  BY DEF IInv, CountInv, TypeOK, Session, DInv, DepthInv
<1>2. /\ IsFiniteSet(R) /\ Cardinality(R) \in Nat /\ Cardinality(Untried) \in Nat
      /\ Cardinality(R) = IF x \in Untried THEN Cardinality(Untried) - 1
                                            ELSE Cardinality(Untried)
  BY <1>1, FS_RemoveElement, FS_CardinalityType
<1>3. x \notin Untried => R = {}
  <2> SUFFICES ASSUME x \notin Untried, NEW i \in Untried PROVE FALSE
    OBVIOUS
  <2>1. scopes[x].active /\ scopes[x].tried
    BY <1>1 DEF Active, Untried
  <2>2. x < i
    BY <2>1 DEF DInv, TriedInv
  <2>3. i \in 1..Len(scopes)
    BY <1>1 DEF Untried
  <2>. QED
    BY <1>1, <2>2, <2>3
<1>4. R = {} => Cardinality(R) = 0
  BY FS_EmptySet
<1>5. Cardinality(R) <= CountDown(sess)
  <2>1. CASE x \in Untried
    BY <1>1, <1>2, <2>1 DEF CountDown
  <2>2. CASE x \notin Untried
    BY <1>1, <1>3, <1>4, <2>2 DEF CountDown
  <2>. QED
    BY <2>1, <2>2
<1>6. Cardinality(R) = 0 => R = {}
  BY <1>2, FS_EmptySet
<1>7. CountDown(sess) \in Nat
  BY <1>1 DEF CountDown
<1>8. R # {} => CountDown(sess) > 0
  BY <1>2, <1>5, <1>6, <1>7
<1>9. ~ok => R = {}
  <2> SUFFICES ASSUME CountDown(sess) > 0 PROVE ok
    BY <1>8
  <2>. QED
    BY DEF EndMay
<1>10. Outermost => CountDown(sess) = 0
  <2> SUFFICES ASSUME Outermost PROVE CountDown(sess) = 0
    OBVIOUS
  <2>1. \A i \in Active : ~(i < x)
    BY <1>1 DEF Outermost, Active
  <2>2. Active \subseteq {x}
    BY <1>1, <2>1 DEF Active
  <2>3. Active = {x}
    BY <2>2
  <2>4. Cardinality(Active) = 1
    BY <2>3, FS_Singleton
  <2>5. sess.depth <= 1
    BY <1>1, <2>4
  <2>. QED
    BY <1>1, <2>5 DEF CountDown
<1>. QED
  BY <1>2, <1>5, <1>8, <1>9, <1>10

(* Scopes that stay untried keep their work and what became of it; new ones *)
(* have none.                                                               *)
LEMMA WorkKept ==
  ASSUME WorkInv, UNCHANGED unused, sess'.up => sess.up,
         \A i \in Untried' :
            \/ scopes'[i].work = {}
            \/ /\ i \in Untried /\ scopes'[i].work = scopes[i].work
               /\ UNCHANGED <<pending, durable>>
  PROVE  WorkInv'
<1> SUFFICES ASSUME NEW i \in Untried'
             PROVE  /\ scopes'[i].work \cap unused' = {}
                    /\ scopes'[i].work \cap durable' = {}
                    /\ sess'.up => scopes'[i].work \subseteq pending'
  BY DEF WorkInv
<1>1. CASE scopes'[i].work = {}
  BY <1>1
<1>2. CASE /\ i \in Untried /\ scopes'[i].work = scopes[i].work
           /\ UNCHANGED <<pending, durable>>
  BY <1>2 DEF WorkInv
<1>. QED
  BY <1>1, <1>2

-------------------------------------------------------------------------------
LEMMA DurableGrows ==
  ASSUME CommittedIsDurable, UNCHANGED committed, durable \subseteq durable'
  PROVE  CommittedIsDurable'
BY DEF CommittedIsDurable

LEMMA GoneKept ==
  ASSUME GoneInv, UNCHANGED <<unused, undone>>,
         pending' \subseteq pending, durable' \subseteq durable \cup pending
  PROVE  GoneInv'
BY DEF GoneInv

(* What an outermost scope rolled back is not pending anymore and was not   *)
(* durable before.                                                          *)
LEMMA GoneGrows ==
  ASSUME IInv, DInv, scopes # <<>>, Top.active, Outermost => pending' = {},
         pending' \subseteq pending, UNCHANGED <<unused, durable>>,
         undone' = undone \cup Abandoned
  PROVE  GoneInv'
<1>. USE DEF DInv
<1>1. CASE Outermost /\ ~Top.tried
  <2>1. Top = scopes[Len(scopes)] /\ Len(scopes) \in DOMAIN scopes
    BY DEF Top, Last, IInv, TypeOK
  <2>2. Len(scopes) \in Untried
    BY <1>1, <2>1 DEF Untried
  <2>3. Top.work \cap unused = {} /\ Top.work \cap durable = {}
    BY <2>1, <2>2 DEF WorkInv
  <2>4. undone' = undone \cup Top.work /\ pending' = {}
    BY <1>1 DEF Abandoned
  <2>. QED
    BY <2>3, <2>4 DEF GoneInv
<1>2. CASE ~(Outermost /\ ~Top.tried)
  <2>1. undone' = undone
    BY <1>2 DEF Abandoned
  <2>. QED
    BY <2>1 DEF GoneInv
<1>. QED
  BY <1>1, <1>2

LEMMA TopActive ==
  ASSUME TypeOK, scopes # <<>>
  PROVE  /\ Top = scopes[Len(scopes)]
         /\ Top.active <=> Len(scopes) \in Active
         /\ Top.active /\ ~Top.tried <=> Len(scopes) \in Untried
<1>1. Top = scopes[Len(scopes)] /\ Len(scopes) \in DOMAIN scopes
  BY DEF Top, Last, TypeOK
<1>. QED
  BY <1>1 DEF Active, Untried

(* commit() and rollback() of the innermost scope.                          *)
LEMMA EndData ==
  ASSUME IInv, DInv, scopes # <<>>, Top.active,
         NEW ok \in BOOLEAN, NEW p \in BOOLEAN,
         EndMay(sess, ok, p), sess' = Ended(sess, p),
         NEW s \in Scope, s.tried, ok => ~s.active, SetTop(s),
         UNCHANGED unused,
         CountDown(sess) > 0 => UNCHANGED <<pending, durable>>
  PROVE  DepthInv' /\ TriedInv' /\ WorkInv'
<1> DEFINE x == Len(scopes)
           R == Untried \ {x}
<1>0. TypeOK /\ sess \in Session
  BY DEF IInv, TypeOK
<1>1. /\ \A i : i \in Untried' <=>
                  IF i = x THEN s.active /\ ~s.tried ELSE i \in Untried
      /\ \A i : i \in Active' <=> IF i = x THEN s.active ELSE i \in Active
      /\ \A i \in Active : i \in 1..Len(scopes) /\ (i # x => scopes'[i] = scopes[i])
      /\ Untried \subseteq Active
  BY <1>0, ChangeData
<1>2. Untried' = R
  BY <1>1
<1>3. x \in Active
  BY <1>0, TopActive
<1>4. /\ IsFiniteSet(R) /\ Cardinality(R) <= CountDown(sess)
      /\ R # {} => CountDown(sess) > 0
      /\ ~ok => R = {}
  BY <1>3, OthersCounted
<1>5. sess'.depth = CountDown(sess) /\ sess'.up = sess.up
  BY <1>0, EndLemma
<1>6. DepthInv'
  BY <1>2, <1>4, <1>5 DEF DepthInv
<1>7. TriedInv'
  <2> SUFFICES ASSUME NEW j \in Active', scopes'[j].tried, NEW i \in Untried'
               PROVE  j < i
    BY DEF TriedInv
  <2>1. ok /\ i \in Untried
    BY <1>2, <1>4
  <2>2. j # x /\ j \in Active /\ scopes'[j] = scopes[j]
    BY <1>1, <2>1
  <2>. QED
    BY <2>1, <2>2 DEF DInv, TriedInv
<1>8. WorkInv'
  <2>1. ASSUME NEW i \in Untried'
        PROVE  /\ i \in Untried /\ scopes'[i].work = scopes[i].work
               /\ UNCHANGED <<pending, durable>>
    BY <1>1, <1>2, <1>4
  <2>. QED
    BY <1>5, <2>1, WorkKept DEF DInv
<1>. QED
  BY <1>6, <1>7, <1>8

(* The rollback of the destructor.                                          *)
LEMMA PopEndData ==
  ASSUME IInv, DInv, scopes # <<>>, Top.active,
         NEW ok \in BOOLEAN, NEW p \in BOOLEAN,
         EndMay(sess, ok, p), sess' = Ended(sess, p),
         scopes' = Front(scopes), UNCHANGED unused,
         CountDown(sess) > 0 => UNCHANGED <<pending, durable>>
  PROVE  DepthInv' /\ TriedInv' /\ WorkInv'
<1> DEFINE x == Len(scopes)
           R == Untried \ {x}
<1>0. TypeOK /\ sess \in Session
  BY DEF IInv, TypeOK
<1>1. /\ \A i : i \in Untried' <=> (i \in Untried /\ i # x)
      /\ \A i : i \in Active' <=> (i \in Active /\ i # x)
      /\ \A i \in Active' : scopes'[i] = scopes[i]
      /\ Untried \subseteq Active
  BY <1>0, PopData
<1>2. Untried' = R
  BY <1>1
<1>3. x \in Active
  BY <1>0, TopActive
<1>4. /\ IsFiniteSet(R) /\ Cardinality(R) <= CountDown(sess)
      /\ R # {} => CountDown(sess) > 0
  BY <1>3, OthersCounted
<1>5. sess'.depth = CountDown(sess) /\ sess'.up = sess.up
  BY <1>0, EndLemma
<1>6. DepthInv'
  BY <1>2, <1>4, <1>5 DEF DepthInv
<1>7. TriedInv'
  BY <1>1 DEF DInv, TriedInv
<1>8. WorkInv'
  <2>1. ASSUME NEW i \in Untried'
        PROVE  /\ i \in Untried /\ scopes'[i].work = scopes[i].work
               /\ UNCHANGED <<pending, durable>>
    <3>1. i \in Untried /\ i \in Active' /\ R # {}
      BY <1>1, <1>2
    <3>. QED
      BY <1>1, <1>4, <3>1
  <2>. QED
    BY <1>5, <2>1, WorkKept DEF DInv
<1>. QED
  BY <1>6, <1>7, <1>8

(* A begin that returned counts for the scope that is untried from now on;  *)
(* A are the others.                                                        *)
LEMMA BeginDepth ==
  ASSUME NEW b \in Session, NEW A, IsFiniteSet(A), Cardinality(A) <= b.depth,
         NEW x, x \notin A, Untried' = A \cup {x},
         BeginMay(b, TRUE), sess' = Begun(b, TRUE)
  PROVE  DepthInv' /\ sess'.up = b.up
<1>1. sess'.depth = b.depth + 1 /\ sess'.up = b.up /\ b.depth \in Nat
  BY BeginLemma DEF Session
<1>2. /\ IsFiniteSet(A \cup {x})
      /\ Cardinality(A \cup {x}) = Cardinality(A) + 1
      /\ Cardinality(A) \in Nat
  BY FS_AddElement, FS_CardinalityType
<1>3. Cardinality(A) + 1 <= b.depth + 1
  BY <1>1, <1>2
<1>4. Cardinality(A) + 1 <= sess'.depth
  BY <1>1, <1>3
<1>. QED
  BY <1>1, <1>2, <1>4 DEF DepthInv

-------------------------------------------------------------------------------
LEMMA ConstructData ==
  ASSUME IInv, DInv, Construct
  PROVE  DInv'
<1>. USE DEF DInv
<1>0. TypeOK /\ sess \in Session /\ IsFiniteSet(Untried) /\ Cardinality(Untried) <= sess.depth
  BY DEF IInv, TypeOK, DepthInv
<1>1. UNCHANGED <<unused, pending, durable, undone, committed>>
  BY DEF Construct, DriverBegin
<1>2. GoneInv' /\ CommittedIsDurable'
  BY <1>1, GoneKept, DurableGrows
<1>3. /\ Begin0 \in Scope /\ Begin0.active /\ ~Begin0.tried /\ Begin0.work = {}
      /\ Inactive \in Scope /\ ~Inactive.active
  BY DEF Begin0, Inactive, Scope
<1>4. CASE UNCHANGED <<scopes, sess>>
  <2>1. Untried' = Untried /\ Active' = Active
    BY <1>4 DEF Untried, Active
  <2>. QED
    BY <1>1, <1>2, <1>4, <2>1 DEF DepthInv, TriedInv, WorkInv
<1>5. ASSUME scopes' = Append(scopes, Inactive), UNCHANGED sess
      PROVE  DInv'
  <2>1. /\ \A i : i \in Untried' <=> i \in Untried
        /\ \A i : i \in Active' <=> i \in Active
        /\ \A i \in Active : scopes'[i] = scopes[i]
        /\ Untried \subseteq Active
    BY <1>0, <1>3, <1>5, PushData
  <2>2. Untried' = Untried
    BY <2>1
  <2>. QED
    BY <1>1, <1>2, <1>5, <2>1, <2>2 DEF DepthInv, TriedInv, WorkInv
<1>6. ASSUME scopes' = Append(scopes, Begin0), BeginMay(sess, TRUE), sess' = Begun(sess, TRUE)
      PROVE  DInv'
  <2> DEFINE x == Len(scopes) + 1
  <2>1. /\ \A i : i \in Untried' <=> (i \in Untried \/ i = x)
        /\ \A i : i \in Active' <=> (i \in Active \/ i = x)
        /\ \A i \in Active : i \in 1..Len(scopes) /\ scopes'[i] = scopes[i]
        /\ scopes'[x] = Begin0
        /\ Len(scopes) \in Nat /\ Untried \subseteq Active
    BY <1>0, <1>3, <1>6, PushData
  <2>2. x \notin Untried /\ Untried' = Untried \cup {x}
    BY <2>1
  <2>3. DepthInv' /\ sess'.up = sess.up
    BY <1>0, <1>6, <2>2, BeginDepth
  <2>4. TriedInv'
    <3> SUFFICES ASSUME NEW j \in Active', scopes'[j].tried, NEW i \in Untried'
                 PROVE  j < i
      BY DEF TriedInv
    <3>1. j \in Active /\ scopes[j].tried /\ j \in 1..Len(scopes)
      BY <1>3, <2>1
    <3>2. CASE i \in Untried
      BY <3>1, <3>2 DEF TriedInv
    <3>3. CASE i = x
      BY <2>1, <3>1, <3>3
    <3>. QED
      BY <2>1, <3>2, <3>3
  <2>5. WorkInv'
    <3>1. ASSUME NEW i \in Untried'
          PROVE  \/ scopes'[i].work = {}
                 \/ /\ i \in Untried /\ scopes'[i].work = scopes[i].work
                    /\ UNCHANGED <<pending, durable>>
      BY <1>1, <1>3, <2>1
    <3>. QED
      BY <1>1, <2>3, <3>1, WorkKept
  <2>. QED
    BY <1>2, <2>3, <2>4, <2>5
<1>7. ASSUME NEW ok \in BOOLEAN, DriverBegin(ok),
             scopes' = IF ok THEN Append(scopes, Begin0) ELSE scopes
      PROVE  DInv'
  <2>1. BeginMay(sess, ok) /\ sess' = Begun(sess, ok)
    BY <1>7 DEF DriverBegin
  <2>2. CASE ok
    BY <1>6, <1>7, <2>1, <2>2
  <2>3. CASE ~ok
    BY <1>0, <1>4, <1>7, <2>1, <2>3, BeginLemma
  <2>. QED
    BY <2>2, <2>3
<1>. QED
  BY <1>5, <1>7 DEF Construct

LEMMA BeginData ==
  ASSUME IInv, DInv, Begin
  PROVE  DInv'
<1>. USE DEF DInv
<1> DEFINE x == Len(scopes)
<1>0. TypeOK /\ sess \in Session /\ IsFiniteSet(Untried) /\ Cardinality(Untried) <= sess.depth
  BY DEF IInv, TypeOK, DepthInv
<1>1. PICK ok \in BOOLEAN : DriverBegin(ok) /\ SetTop(IF ok THEN Begin0 ELSE Top)
  BY DEF Begin
<1>2. /\ scopes # <<>> /\ ~Top.active
      /\ UNCHANGED <<unused, pending, durable, undone, committed>>
      /\ BeginMay(sess, ok) /\ sess' = Begun(sess, ok)
  BY <1>1 DEF Begin, DriverBegin
<1>3. GoneInv' /\ CommittedIsDurable'
  BY <1>2, GoneKept, DurableGrows
<1>4. /\ Begin0 \in Scope /\ Begin0.active /\ ~Begin0.tried /\ Begin0.work = {}
      /\ Top \in Scope /\ x \notin Active
  BY <1>0, <1>2, TopLemma, TopActive DEF Begin0, Scope
<1>5. CASE ~ok
  <2>1. SetTop(Top) /\ sess' = sess
    BY <1>0, <1>1, <1>2, <1>5, BeginLemma
  <2>2. /\ \A i : i \in Untried' <=> i \in Untried
        /\ \A i : i \in Active' <=> i \in Active
        /\ \A i \in Active : scopes'[i] = scopes[i]
        /\ Untried \subseteq Active
    <3>1. /\ \A i : i \in Untried' <=>
                      IF i = x THEN Top.active /\ ~Top.tried ELSE i \in Untried
          /\ \A i : i \in Active' <=> IF i = x THEN Top.active ELSE i \in Active
          /\ \A i \in Active : i # x => scopes'[i] = scopes[i]
          /\ Untried \subseteq Active
      BY <1>0, <1>2, <1>4, <2>1, ChangeData
    <3>. QED
      BY <1>2, <1>4, <3>1
  <2>3. Untried' = Untried
    BY <2>2
  <2>. QED
    BY <1>2, <1>3, <2>1, <2>2, <2>3 DEF DepthInv, TriedInv, WorkInv
<1>6. CASE ok
  <2>1. SetTop(Begin0) /\ BeginMay(sess, TRUE) /\ sess' = Begun(sess, TRUE)
    BY <1>1, <1>2, <1>6
  <2>2. /\ \A i : i \in Untried' <=> (i = x \/ i \in Untried)
        /\ \A i : i \in Active' <=> (i = x \/ i \in Active)
        /\ \A i \in Active : i \in 1..Len(scopes) /\ i # x /\ scopes'[i] = scopes[i]
        /\ scopes'[x] = Begin0
        /\ Len(scopes) \in Nat /\ Untried \subseteq Active
    <3>1. /\ \A i : i \in Untried' <=>
                      IF i = x THEN Begin0.active /\ ~Begin0.tried ELSE i \in Untried
          /\ \A i : i \in Active' <=> IF i = x THEN Begin0.active ELSE i \in Active
          /\ \A i \in Active : i \in 1..Len(scopes) /\ (i # x => scopes'[i] = scopes[i])
          /\ scopes'[x] = Begin0
          /\ Len(scopes) \in Nat /\ Untried \subseteq Active
      BY <1>0, <1>2, <1>4, <2>1, ChangeData
    <3>. QED
      BY <1>4, <3>1
  <2>3. x \notin Untried /\ Untried' = Untried \cup {x}
    BY <1>4, <2>2
  <2>4. DepthInv' /\ sess'.up = sess.up
    BY <1>0, <2>1, <2>3, BeginDepth
  <2>5. TriedInv'
    <3> SUFFICES ASSUME NEW j \in Active', scopes'[j].tried, NEW i \in Untried'
                 PROVE  j < i
      BY DEF TriedInv
    <3>1. j \in Active /\ scopes[j].tried /\ j \in 1..Len(scopes) /\ j # x
      BY <1>4, <2>2
    <3>2. CASE i \in Untried
      BY <3>1, <3>2 DEF TriedInv
    <3>3. CASE i = x
      BY <2>2, <3>1, <3>3
    <3>. QED
      BY <2>2, <3>2, <3>3
  <2>6. WorkInv'
    <3>1. ASSUME NEW i \in Untried'
          PROVE  \/ scopes'[i].work = {}
                 \/ /\ i \in Untried /\ scopes'[i].work = scopes[i].work
                    /\ UNCHANGED <<pending, durable>>
      BY <1>2, <1>4, <2>2
    <3>. QED
      BY <1>2, <2>4, <3>1, WorkKept
  <2>. QED
    BY <1>3, <2>4, <2>5, <2>6
<1>. QED
  BY <1>5, <1>6

LEMMA BeginAgainData ==
  ASSUME IInv, DInv, BeginAgain
  PROVE  DInv'
<1>. USE DEF DInv
<1> DEFINE x == Len(scopes)
           R == Untried \ {x}
<1>0. TypeOK /\ sess \in Session
  BY DEF IInv, TypeOK
<1>1. scopes # <<>> /\ Top.active /\ UNCHANGED <<unused, committed>>
  BY DEF BeginAgain
<1>2. x \in Active
  BY <1>0, <1>1, TopActive
<1>3. CASE DriverRollback(FALSE) /\ SetTop([Top EXCEPT !.tried = TRUE]) /\ UNCHANGED undone
  <2>1. PICK p \in BOOLEAN :
          /\ EndMay(sess, FALSE, p) /\ sess' = Ended(sess, p)
          /\ pending' = IF CountDown(sess) > 0 \/ p THEN pending ELSE {}
          /\ UNCHANGED durable
    BY <1>3 DEF DriverRollback
  <2>2. [Top EXCEPT !.tried = TRUE] \in Scope /\ [Top EXCEPT !.tried = TRUE].tried
    BY <1>0, <1>1, TopLemma DEF Scope
  <2>3. DepthInv' /\ TriedInv' /\ WorkInv'
    <3>1. FALSE \in BOOLEAN /\ (CountDown(sess) > 0 => UNCHANGED <<pending, durable>>)
      BY <2>1
    <3>. QED
      BY <1>1, <1>3, <2>1, <2>2, <3>1, EndData
  <2>. QED
    BY <1>1, <1>3, <2>1, <2>3, GoneKept, DurableGrows
<1>4. ASSUME NEW ok \in BOOLEAN, NEW p \in BOOLEAN, NEW b,
             b = Ended(sess, p), EndMay(sess, TRUE, p), BeginMay(b, ok),
             sess' = Begun(b, ok),
             pending' = IF CountDown(sess) > 0 THEN pending ELSE {},
             SetTop(IF ok THEN Begin0 ELSE Inactive),
             undone' = undone \cup Abandoned, UNCHANGED durable
      PROVE  DInv'
  <2>1. /\ Begin0 \in Scope /\ Begin0.active /\ ~Begin0.tried /\ Begin0.work = {}
        /\ Inactive \in Scope /\ ~Inactive.active
    BY DEF Begin0, Inactive, Scope
  <2>2. TRUE \in BOOLEAN
    OBVIOUS
  <2>3. /\ IsFiniteSet(R) /\ Cardinality(R) <= CountDown(sess)
        /\ R # {} => CountDown(sess) > 0
        /\ Outermost => CountDown(sess) = 0
    BY <1>1, <1>2, <1>4, <2>2, OthersCounted
  <2>4. b \in Session /\ b.up = sess.up /\ b.depth = CountDown(sess)
    <3>1. EndMay(sess, TRUE, p)
      BY <1>4
    <3>2. \A t \in BOOLEAN : EndMay(sess, t, p) =>
            /\ Ended(sess, p) \in Session /\ Ended(sess, p).up = sess.up
            /\ Ended(sess, p).depth = CountDown(sess)
      BY <1>0, EndLemma
    <3>. QED
      BY <1>4, <2>2, <3>1, <3>2
  <2>5. GoneInv' /\ CommittedIsDurable'
    BY <1>1, <1>4, <2>3, GoneGrows, DurableGrows
  <2>6. ASSUME NEW s \in Scope, SetTop(s), ~s.tried \/ ~s.active, s.active => s.work = {}
        PROVE  /\ \A i : i \in Untried' <=> IF i = x THEN s.active ELSE i \in Untried
               /\ TriedInv'
               /\ sess'.up = sess.up => WorkInv'
    <3>1. /\ \A i : i \in Untried' <=>
                      IF i = x THEN s.active /\ ~s.tried ELSE i \in Untried
          /\ \A i : i \in Active' <=> IF i = x THEN s.active ELSE i \in Active
          /\ \A i \in Active : i \in 1..Len(scopes) /\ (i # x => scopes'[i] = scopes[i])
          /\ scopes'[x] = s
          /\ Len(scopes) \in Nat /\ Untried \subseteq Active
      BY <1>0, <1>1, <2>6, ChangeData
    <3>2. TriedInv'
      <4> SUFFICES ASSUME NEW j \in Active', scopes'[j].tried, NEW i \in Untried'
                   PROVE  j < i
        BY DEF TriedInv
      <4>1. j \in Active /\ scopes[j].tried /\ j \in 1..Len(scopes) /\ j # x
        BY <2>6, <3>1
      <4>2. CASE i \in Untried
        BY <4>1, <4>2 DEF TriedInv
      <4>3. CASE i = x
        BY <3>1, <4>1, <4>3
      <4>. QED
        BY <3>1, <4>2, <4>3
    <3>3. ASSUME sess'.up = sess.up PROVE WorkInv'
      <4>1. ASSUME NEW i \in Untried'
            PROVE  \/ scopes'[i].work = {}
                   \/ /\ i \in Untried /\ scopes'[i].work = scopes[i].work
                      /\ UNCHANGED <<pending, durable>>
        <5>1. CASE i = x
          BY <2>6, <3>1, <5>1
        <5>2. CASE i # x
          <6>1. i \in R /\ scopes'[i] = scopes[i]
            BY <3>1, <5>2
          <6>. QED
            BY <1>4, <2>3, <6>1
        <5>. QED
          BY <5>1, <5>2
      <4>. QED
        BY <1>1, <3>3, <4>1, WorkKept
    <3>. QED
      BY <2>6, <3>1, <3>2, <3>3
  <2>7. CASE ok
    <3>1. SetTop(Begin0) /\ BeginMay(b, TRUE) /\ sess' = Begun(b, TRUE)
      BY <1>4, <2>7
    <3>2. /\ \A i : i \in Untried' <=> IF i = x THEN Begin0.active ELSE i \in Untried
          /\ TriedInv'
          /\ sess'.up = sess.up => WorkInv'
      BY <2>1, <2>6, <3>1
    <3>3. Untried' = R \cup {x} /\ x \notin R
      BY <2>1, <3>2
    <3>4. DepthInv' /\ sess'.up = b.up
      BY <2>3, <2>4, <3>1, <3>3, BeginDepth
    <3>. QED
      BY <2>4, <2>5, <3>2, <3>4
  <2>8. CASE ~ok
    <3>1. SetTop(Inactive) /\ sess' = b
      BY <1>4, <2>4, <2>8, BeginLemma
    <3>2. /\ \A i : i \in Untried' <=> IF i = x THEN Inactive.active ELSE i \in Untried
          /\ TriedInv'
          /\ sess'.up = sess.up => WorkInv'
      BY <2>1, <2>6, <3>1
    <3>3. Untried' = R
      BY <2>1, <3>2
    <3>4. DepthInv'
      BY <2>3, <2>4, <3>1, <3>3 DEF DepthInv
    <3>. QED
      BY <2>4, <2>5, <3>1, <3>2, <3>4
  <2>. QED
    BY <2>7, <2>8
<1>5. ASSUME NEW ok \in BOOLEAN, NEW between,
             between = Ended(sess, sess.open /\ CountDown(sess) > 0),
             EndMay(sess, TRUE, between.open), BeginMay(between, ok),
             sess' = Begun(between, ok),
             pending' = IF CountDown(sess) > 0 THEN pending ELSE {},
             SetTop(IF ok THEN Begin0 ELSE Inactive),
             undone' = undone \cup Abandoned, UNCHANGED durable
      PROVE  DInv'
  <2> DEFINE p == (sess.open /\ CountDown(sess) > 0)
  <2>1. p \in BOOLEAN
    OBVIOUS
  <2>2. between.open = p
    BY <1>0, <1>5, <2>1 DEF Ended, Session
  <2>3. EndMay(sess, TRUE, p) /\ between = Ended(sess, p)
    BY <1>5, <2>2
  <2>. HIDE DEF p
  <2>. QED
    BY <1>4, <1>5, <2>1, <2>3
<1>. QED
  BY <1>3, <1>5 DEF BeginAgain

LEMMA CommitData ==
  ASSUME IInv, DInv, Commit
  PROVE  DInv'
<1>. USE DEF DInv
<1>0. TypeOK /\ sess \in Session
  BY DEF IInv, TypeOK
<1>1. /\ scopes # <<>> /\ Top.active /\ UNCHANGED <<unused, undone>>
  BY DEF Commit
<1>2. PICK ok \in BOOLEAN :
        /\ DriverCommit(ok)
        /\ SetTop([Top EXCEPT !.active = ~ok, !.tried = TRUE])
        /\ committed' = IF ok /\ Outermost /\ ~Top.tried
                        THEN committed \cup Top.work ELSE committed
  BY DEF Commit
<1>3. PICK p \in BOOLEAN :
        /\ EndMay(sess, ok, p) /\ sess' = Ended(sess, p)
        /\ CountDown(sess) > 0 \/ p => UNCHANGED <<pending, durable>>
        /\ ~(CountDown(sess) > 0 \/ p) =>
              /\ pending' = {}
              /\ durable' = durable \cup pending \/ (~ok /\ durable' = durable)
  BY <1>2 DEF DriverCommit
<1>4. /\ [Top EXCEPT !.active = ~ok, !.tried = TRUE] \in Scope
      /\ [Top EXCEPT !.active = ~ok, !.tried = TRUE].active = ~ok
      /\ [Top EXCEPT !.active = ~ok, !.tried = TRUE].tried
  <2>1. Top \in Scope
    BY <1>0, <1>1, TopLemma
  <2>2. \A t \in Scope : \A a \in BOOLEAN :
          [[t EXCEPT !.active = a] EXCEPT !.tried = TRUE].tried
    BY DEF Scope
  <2>. QED
    BY <1>0, <1>1, <2>1, <2>2, TopLemma
<1>5. DepthInv' /\ TriedInv' /\ WorkInv'
  BY <1>1, <1>2, <1>3, <1>4, EndData
<1>6. pending' \subseteq pending /\ durable' \subseteq durable \cup pending /\ durable \subseteq durable'
  BY <1>3
<1>7. GoneInv'
  BY <1>1, <1>6, GoneKept
<1>8. CommittedIsDurable'
  <2>1. CASE ok /\ Outermost /\ ~Top.tried
    <3>1. Top = scopes[Len(scopes)] /\ Len(scopes) \in Untried /\ Len(scopes) \in Active
      BY <1>0, <1>1, <2>1, TopActive
    <3>2. CountDown(sess) = 0
      BY <1>1, <1>3, <2>1, <3>1, OthersCounted
    <3>3. sess.up /\ ~p
      BY <1>3, <2>1, <3>2 DEF EndMay
    <3>4. durable' = durable \cup pending
      BY <1>3, <2>1, <3>2, <3>3
    <3>5. Top.work \subseteq pending
      BY <3>1, <3>3 DEF WorkInv
    <3>6. committed' = committed \cup Top.work
      BY <1>2, <2>1
    <3>. QED
      BY <3>4, <3>5, <3>6 DEF CommittedIsDurable
  <2>2. CASE ~(ok /\ Outermost /\ ~Top.tried)
    BY <1>2, <1>6, <2>2, DurableGrows
  <2>. QED
    BY <2>1, <2>2
<1>. QED
  BY <1>5, <1>7, <1>8

LEMMA RollbackData ==
  ASSUME IInv, DInv, Rollback
  PROVE  DInv'
<1>. USE DEF DInv
<1>0. TypeOK /\ sess \in Session
  BY DEF IInv, TypeOK
<1>1. /\ scopes # <<>> /\ Top.active /\ UNCHANGED <<unused, committed>>
  BY DEF Rollback
<1>2. PICK ok \in BOOLEAN :
        /\ DriverRollback(ok)
        /\ SetTop([Top EXCEPT !.active = ~ok, !.tried = TRUE])
        /\ undone' = IF ok THEN undone \cup Abandoned ELSE undone
  BY DEF Rollback
<1>3. PICK p \in BOOLEAN :
        /\ EndMay(sess, ok, p) /\ sess' = Ended(sess, p)
        /\ pending' = IF CountDown(sess) > 0 \/ p THEN pending ELSE {}
        /\ UNCHANGED durable
  BY <1>2 DEF DriverRollback
<1>4. /\ [Top EXCEPT !.active = ~ok, !.tried = TRUE] \in Scope
      /\ [Top EXCEPT !.active = ~ok, !.tried = TRUE].active = ~ok
      /\ [Top EXCEPT !.active = ~ok, !.tried = TRUE].tried
  <2>1. Top \in Scope
    BY <1>0, <1>1, TopLemma
  <2>2. \A t \in Scope : \A a \in BOOLEAN :
          [[t EXCEPT !.active = a] EXCEPT !.tried = TRUE].tried
    BY DEF Scope
  <2>. QED
    BY <1>0, <1>1, <2>1, <2>2, TopLemma
<1>5. DepthInv' /\ TriedInv' /\ WorkInv'
  BY <1>1, <1>2, <1>3, <1>4, EndData
<1>6. CommittedIsDurable'
  BY <1>1, <1>3, DurableGrows
<1>7. GoneInv'
  <2>1. CASE ~ok
    BY <1>1, <1>2, <1>3, <2>1, GoneKept
  <2>2. CASE ok
    <3>1. Outermost => pending' = {}
      <4>1. Len(scopes) \in Active
        BY <1>0, <1>1, TopActive
      <4>2. Outermost => CountDown(sess) = 0
        BY <1>1, <1>3, <4>1, OthersCounted
      <4>3. CountDown(sess) = 0 => ~p
        BY <1>3, <2>2 DEF EndMay
      <4>. QED
        BY <1>3, <4>2, <4>3
    <3>. QED
      BY <1>1, <1>2, <1>3, <2>2, <3>1, GoneGrows
  <2>. QED
    BY <2>1, <2>2
<1>. QED
  BY <1>5, <1>6, <1>7

LEMMA DestructData ==
  ASSUME IInv, DInv, Destruct
  PROVE  DInv'
<1>. USE DEF DInv
<1>0. TypeOK /\ sess \in Session
  BY DEF IInv, TypeOK
<1>1. scopes # <<>> /\ scopes' = Front(scopes) /\ UNCHANGED <<unused, committed>>
  BY DEF Destruct
<1>2. CASE ~Top.active /\ UNCHANGED <<sess, pending, durable, undone>>
  <2>1. /\ \A i : i \in Untried' <=> (i \in Untried /\ i # Len(scopes))
        /\ \A i : i \in Active' <=> (i \in Active /\ i # Len(scopes))
        /\ \A i \in Active' : scopes'[i] = scopes[i]
        /\ Untried \subseteq Active
    BY <1>0, <1>1, PopData
  <2>2. Len(scopes) \notin Active
    BY <1>0, <1>1, <1>2, TopActive
  <2>3. Untried' = Untried /\ Active' = Active
    BY <2>1, <2>2
  <2>4. GoneInv' /\ CommittedIsDurable'
    BY <1>1, <1>2, GoneKept, DurableGrows
  <2>. QED
    BY <1>1, <1>2, <2>1, <2>3, <2>4 DEF DepthInv, TriedInv, WorkInv
<1>3. ASSUME Top.active, NEW ok \in BOOLEAN, DriverRollback(ok),
             undone' = IF ok THEN undone \cup Abandoned ELSE undone
      PROVE  DInv'
  <2>1. PICK p \in BOOLEAN :
          /\ EndMay(sess, ok, p) /\ sess' = Ended(sess, p)
          /\ pending' = IF CountDown(sess) > 0 \/ p THEN pending ELSE {}
          /\ UNCHANGED durable
    BY <1>3 DEF DriverRollback
  <2>2. DepthInv' /\ TriedInv' /\ WorkInv'
    BY <1>1, <1>3, <2>1, PopEndData
  <2>3. CommittedIsDurable'
    BY <1>1, <2>1, DurableGrows
  <2>4. GoneInv'
    <3>1. CASE ~ok
      BY <1>1, <1>3, <2>1, <3>1, GoneKept
    <3>2. CASE ok
      <4>1. Len(scopes) \in Active
        BY <1>0, <1>1, <1>3, TopActive
      <4>2. Outermost => CountDown(sess) = 0
        BY <1>1, <2>1, <4>1, OthersCounted
      <4>3. CountDown(sess) = 0 => ~p
        BY <2>1, <3>2 DEF EndMay
      <4>4. Outermost => pending' = {}
        BY <2>1, <4>2, <4>3
      <4>. QED
        BY <1>1, <1>3, <2>1, <3>2, <4>4, GoneGrows
    <3>. QED
      BY <3>1, <3>2
  <2>. QED
    BY <2>2, <2>3, <2>4
<1>. QED
  BY <1>2, <1>3 DEF Destruct

LEMMA ExecuteData ==
  ASSUME IInv, DInv, NEW w \in Work, Execute(w)
  PROVE  DInv'
<1>. USE DEF DInv
<1>0. /\ TypeOK /\ sess \in Session /\ sess.depth \in Nat
      /\ IsFiniteSet(Untried) /\ Cardinality(Untried) <= sess.depth
  BY DEF IInv, TypeOK, DepthInv, Session
<1>1. /\ w \in unused /\ unused' = unused \ {w} /\ sess' = Executed(sess)
      /\ UNCHANGED <<undone, committed>>
      /\ sess'.open => pending' = pending \cup {w} /\ UNCHANGED durable
      /\ ~sess'.open => durable' = durable \cup {w} /\ UNCHANGED pending
  BY DEF Execute
<1>2. /\ sess'.up = sess.up /\ sess'.depth = sess.depth
      /\ sess.depth > 0 => sess'.open
  <2>1. (sess.open \/ sess.depth > 0) \in BOOLEAN
    OBVIOUS
  <2>. QED
    BY <1>0, <1>1, <2>1 DEF Executed, Session
<1>3. scopes \in Seq(Scope) /\ DOMAIN scopes = 1..Len(scopes) /\ Len(scopes) \in Nat
  BY <1>0 DEF TypeOK
<1>4. /\ DOMAIN scopes' = 1..Len(scopes)
      /\ \A i \in 1..Len(scopes) :
            /\ scopes'[i].active = scopes[i].active
            /\ scopes'[i].tried = scopes[i].tried
            /\ scopes'[i].work \subseteq scopes[i].work \cup {w}
  <2>1. scopes' = [i \in 1..Len(scopes) |->
                     IF scopes[i].active /\ ~scopes[i].tried
                     THEN [scopes[i] EXCEPT !.work = @ \cup {w}]
                     ELSE scopes[i]]
    BY <1>3 DEF Execute
  <2>2. ASSUME NEW s \in Scope
        PROVE  /\ [s EXCEPT !.work = @ \cup {w}].active = s.active
               /\ [s EXCEPT !.work = @ \cup {w}].tried = s.tried
               /\ [s EXCEPT !.work = @ \cup {w}].work = s.work \cup {w}
    BY DEF Scope
  <2>3. \A i \in 1..Len(scopes) : scopes[i] \in Scope
    BY <1>3, ElementOfSeq
  <2>. QED
    BY <2>1, <2>2, <2>3
<1>5. Active' = Active /\ Untried' = Untried
  BY <1>3, <1>4 DEF Active, Untried
<1>6. DepthInv'
  BY <1>2, <1>5 DEF DepthInv
<1>7. TriedInv'
  BY <1>3, <1>4, <1>5 DEF TriedInv, Active
<1>8. GoneInv'
  BY <1>1 DEF GoneInv
<1>9. CommittedIsDurable'
  BY <1>1 DEF CommittedIsDurable
<1>10. WorkInv'
  <2> SUFFICES ASSUME NEW i \in Untried
               PROVE  /\ scopes'[i].work \cap unused' = {}
                      /\ scopes'[i].work \cap durable' = {}
                      /\ sess'.up => scopes'[i].work \subseteq pending'
    BY <1>5 DEF WorkInv
  <2>1. sess.depth > 0
    <3>1. Cardinality(Untried) \in Nat /\ Cardinality(Untried) # 0
      BY <1>0, FS_CardinalityType, FS_EmptySet
    <3>. QED
      BY <1>0, <3>1
  <2>2. pending' = pending \cup {w} /\ durable' = durable
    BY <1>1, <1>2, <2>1
  <2>3. /\ scopes[i].work \cap unused = {} /\ scopes[i].work \cap durable = {}
        /\ sess.up => scopes[i].work \subseteq pending
    BY DEF WorkInv
  <2>4. scopes'[i].work \subseteq scopes[i].work \cup {w}
    BY <1>3, <1>4 DEF Untried
  <2>5. w \notin durable
    BY <1>0, <1>1 DEF TypeOK
  <2>. QED
    BY <1>1, <1>2, <2>2, <2>3, <2>4, <2>5
<1>. QED
  BY <1>6, <1>7, <1>8, <1>9, <1>10

LEMMA ServerLossData ==
  ASSUME IInv, DInv, ServerLoss
  PROVE  DInv'
<1>. USE DEF DInv
<1>1. /\ sess' = Lost(sess) /\ pending' = {}
      /\ UNCHANGED <<scopes, unused, durable, undone, committed>>
  BY DEF ServerLoss
<1>2. sess'.depth = sess.depth /\ ~sess'.up
  BY <1>1, LostLemma DEF IInv, TypeOK
<1>3. Active' = Active /\ Untried' = Untried
  BY <1>1 DEF Active, Untried
<1>4. GoneInv' /\ CommittedIsDurable'
  BY <1>1, GoneKept, DurableGrows
<1>. QED
  BY <1>1, <1>2, <1>3, <1>4 DEF DepthInv, TriedInv, WorkInv

-------------------------------------------------------------------------------
LEMMA Data == Spec => []DInv
<1>1. Init => DInv
  <2> SUFFICES ASSUME Init PROVE DInv
    OBVIOUS
  <2>1. Active = {} /\ Untried = {} /\ sess.depth = 0
    BY DEF Init, Active, Untried, Fresh
  <2>2. DepthInv
    BY <2>1, FS_EmptySet DEF DepthInv
  <2>. QED
    BY <2>1, <2>2 DEF DInv, TriedInv, WorkInv, GoneInv, CommittedIsDurable, Init
<1>2. IInv /\ DInv /\ [Next]_vars => DInv'
  <2> SUFFICES ASSUME IInv, DInv, [Next]_vars PROVE DInv'
    OBVIOUS
  <2>1. CASE Construct
    BY <2>1, ConstructData
  <2>2. CASE Begin
    BY <2>2, BeginData
  <2>3. CASE BeginAgain
    BY <2>3, BeginAgainData
  <2>4. CASE Commit
    BY <2>4, CommitData
  <2>5. CASE Rollback
    BY <2>5, RollbackData
  <2>6. CASE Destruct
    BY <2>6, DestructData
  <2>7. CASE ServerLoss
    BY <2>7, ServerLossData
  <2>8. ASSUME NEW w \in Work, Execute(w) PROVE DInv'
    BY <2>8, ExecuteData
  <2>9. CASE UNCHANGED vars
    BY <2>9 DEF vars, DInv, DepthInv, TriedInv, WorkInv, GoneInv,
                CommittedIsDurable, Active, Untried
  <2>. QED
    BY <2>1, <2>2, <2>3, <2>4, <2>5, <2>6, <2>7, <2>8, <2>9 DEF Next
<1>. QED
  BY <1>1, <1>2, Scopes, PTL DEF Spec

(* However deep scopes nest and whatever throws: the work of a scope that   *)
(* is still active is not durable before the end of that scope is asked for *)
(* (an inner commit never reaches the server).                              *)
THEOREM ActiveNotDurableHolds == Spec => []ActiveNotDurable
<1>1. DInv => ActiveNotDurable
  BY DEF DInv, WorkInv, Untried, ActiveNotDurable
<1>. QED
  BY <1>1, Data, PTL

(* What an outermost scope rolled back, explicitly, in begin() or in its    *)
(* destructor, is never durable, whatever follows on the connection.        *)
THEOREM UndoneNeverDurableHolds == Spec => []UndoneNeverDurable
<1>1. DInv => UndoneNeverDurable
  BY DEF DInv, GoneInv, UndoneNeverDurable
<1>. QED
  BY <1>1, Data, PTL

(* When the first commit of an outermost scope returns, all its work is     *)
(* durable.                                                                 *)
THEOREM CommittedIsDurableHolds == Spec => []CommittedIsDurable
<1>1. DInv => CommittedIsDurable
  BY DEF DInv
<1>. QED
  BY <1>1, Data, PTL
===============================================================================
