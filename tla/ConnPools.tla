------------------------------- MODULE ConnPools -------------------------------
(***************************************************************************)
(* ConnectionPools, the map of pools behind connectCached, dropCached and  *)
(* setMaxPoolSize.  The map has a mutex of its own; connect() gives it up  *)
(* before it uses the pool it found, the other operations keep it while    *)
(* they visit the pools one by one, waiting for each pool's mutex.         *)
(* What happens inside one pool is the subject of ConnPool: here the spare *)
(* connections of a pool are a set, and any of them may prove dead.        *)
(***************************************************************************)
EXTENDS Integers, FiniteSets

CONSTANTS
    Client,     \* concurrent users of connectCached
    NoClient,   \* a pool's mutex is free
    PoolId,     \* addresses of ConnectionPool objects
    NoPool,     \* no pool is referenced
    Conn,       \* identities of raw driver connections
    NoConn,     \* no raw connection is held
    Key,        \* the ConnectionParameters in use; a number stands for a
                \* string, in the order of std::string::compare
    NoKey,      \* not in the map; no database
    Limits,     \* the limits setMaxPoolSize and dropCached are called with
    Careful     \* dropCached(url) is called for unused pools only

ASSUME KeyAssumption == Key \subseteq [url: Int, username: Int, password: Int]
ASSUME LimitsAssumption == Limits \subseteq Nat
ASSUME CarefulAssumption == Careful \in BOOLEAN
ASSUME NoAssumption ==
    /\ NoClient \notin Client
    /\ NoPool \notin PoolId
    /\ NoConn \notin Conn
    /\ NoKey \notin Key

VARIABLES
    poolKey,    \* _pools: the key each live pool is stored under
    maxcount,   \* _maxcount
    maxSpare,   \* _maxSpare of each pool
    spare,      \* _connectionPool of each pool
    inner,      \* _mutex of each pool: the client inside its connect()
    walk,       \* the operation that holds the map's mutex
    pc,         \* where each client is
    want,       \* the parameters of each client's connectCached
    ref,        \* the pool each client found, later its PoolConnection's pool
    held,       \* the raw connection of each client's PoolConnection
    connKey     \* the database each raw connection was opened to

clientVars == <<pc, want, ref, held>>
poolsVars == <<poolKey, maxcount, maxSpare, spare, inner, walk, clientVars, connKey>>

(* Mutant: two passwords of one user share a pool.                          *)
Less_NoPassword(a, b) ==
    \/ a.url < b.url
    \/ a.url = b.url /\ a.username < b.username

(* operator< of ConnectionParameter, and what std::map takes for equal.     *)
Less(a, b) ==
    \/ a.url < b.url
    \/ a.url = b.url /\ a.username < b.username
    \/ a.url = b.url /\ a.username = b.username /\ a.password < b.password
Equivalent(a, b) == ~Less(a, b) /\ ~Less(b, a)

Live == {p \in PoolId : poolKey[p] # NoKey}
Find(k) == {p \in Live : Equivalent(poolKey[p], k)}

Spare == UNION {spare[p] : p \in PoolId}
Owned == Spare \cup {held[cl] : cl \in Client}

(* Where a client can be: without a connection; past the unlock of          *)
(* ConnectionPools::connect; in ConnectionPool::connect; using a connection. *)
PC == {"idle", "found", "inside", "using"}

(* What can hold the map's mutex beyond one step: drop(keep), setMaxSpare,  *)
(* and the two halves of drop(url, ...).                                    *)
Walk == [op: {"none", "drop", "limit", "dropKey", "check"},
         todo: SUBSET PoolId, arg: Nat]
NoWalk == [op |-> "none", todo |-> {}, arg |-> 0]
Unlocked == walk.op = "none"

PoolsTypeOK ==
    /\ poolKey \in [PoolId -> Key \cup {NoKey}]
    /\ maxcount \in Nat
    /\ maxSpare \in [PoolId -> Nat]
    /\ spare \in [PoolId -> SUBSET Conn]
    /\ inner \in [PoolId -> Client \cup {NoClient}]
    /\ walk \in Walk
    /\ pc \in [Client -> PC]
    /\ want \in [Client -> Key \cup {NoKey}]
    /\ ref \in [Client -> PoolId \cup {NoPool}]
    /\ held \in [Client -> Conn \cup {NoConn}]
    /\ connKey \in [Conn -> Key \cup {NoKey}]

PoolsInit ==
    /\ poolKey = [p \in PoolId |-> NoKey]
    /\ maxcount \in Limits
    /\ maxSpare = [p \in PoolId |-> 0]
    /\ spare = [p \in PoolId |-> {}]
    /\ inner = [p \in PoolId |-> NoClient]
    /\ walk = NoWalk
    /\ pc = [cl \in Client |-> "idle"]
    /\ want = [cl \in Client |-> NoKey]
    /\ ref = [cl \in Client |-> NoPool]
    /\ held = [cl \in Client |-> NoConn]
    /\ connKey = [c \in Conn |-> NoKey]

(* The raw connections of S are destroyed. *)
Close(S) == connKey' = [c \in Conn |-> IF c \in S THEN NoKey ELSE connKey[c]]

-------------------------------------------------------------------------------
(* ConnectionPools::connect                                                 *)

(* Mutant: a pool is created with the default limit of its constructor.     *)
LimitOfNewPool_Default == 0

LimitOfNewPool == maxcount

(* The pool of this url, user and password is found, or created and stored. *)
FindOrCreate(cl, k) ==
    /\ pc[cl] = "idle"
    /\ pc' = [pc EXCEPT ![cl] = "found"]
    /\ want' = [want EXCEPT ![cl] = k]
    /\ \/ \E p \in Find(k) :
            /\ ref' = [ref EXCEPT ![cl] = p]
            /\ UNCHANGED <<poolKey, maxSpare>>
       \/ \E p \in PoolId \ Live :
            /\ Find(k) = {}
            /\ ref' = [ref EXCEPT ![cl] = p]
            /\ poolKey' = [poolKey EXCEPT ![p] = k]
            /\ maxSpare' = [maxSpare EXCEPT ![p] = LimitOfNewPool]
    /\ UNCHANGED <<maxcount, spare, inner, walk, held, connKey>>

(* Mutant: the map is searched without its mutex.                           *)
FindPool_Unlocked(cl, k) == FindOrCreate(cl, k)

(* All that happens under the map's mutex, which is free again when the     *)
(* step ends.                                                               *)
FindPool(cl, k) == Unlocked /\ FindOrCreate(cl, k)

(* it->second->connect() waits for the pool's mutex.                        *)
EnterConnect(cl) ==
    /\ pc[cl] = "found"
    /\ ref[cl] \in Live
    /\ inner[ref[cl]] = NoClient
    /\ inner' = [inner EXCEPT ![ref[cl]] = cl]
    /\ pc' = [pc EXCEPT ![cl] = "inside"]
    /\ UNCHANGED <<poolKey, maxcount, maxSpare, spare, walk, want, ref, held, connKey>>

(* connect() ends: the client has connection c, and the pool is left with   *)
(* the spare connections of S.                                              *)
Obtain(cl, c, S) ==
    /\ pc' = [pc EXCEPT ![cl] = "using"]
    /\ held' = [held EXCEPT ![cl] = c]
    /\ spare' = [spare EXCEPT ![ref[cl]] = S]
    /\ inner' = [inner EXCEPT ![ref[cl]] = NoClient]
    /\ UNCHANGED <<poolKey, maxcount, maxSpare, walk, want, ref>>

Inside(cl) == pc[cl] = "inside" /\ ref[cl] \in Live

(* Mutant: the connection is copied out of the vector and stays in it.      *)
Reuse_Copied(cl) ==
    /\ Inside(cl)
    /\ \E c \in spare[ref[cl]] : Obtain(cl, c, spare[ref[cl]])
    /\ UNCHANGED connKey

(* A spare connection answers its ping and is handed out.                   *)
Reuse(cl) ==
    /\ Inside(cl)
    /\ \E c \in spare[ref[cl]] : Obtain(cl, c, spare[ref[cl]] \ {c})
    /\ UNCHANGED connKey

(* A spare connection does not answer its ping and is dropped.              *)
DropDead(cl) ==
    /\ Inside(cl)
    /\ \E c \in spare[ref[cl]] :
        /\ spare' = [spare EXCEPT ![ref[cl]] = @ \ {c}]
        /\ Close({c})
    /\ UNCHANGED <<poolKey, maxcount, maxSpare, inner, walk, clientVars>>

(* None is left: a new connection is opened to the pool's database.         *)
Open(cl) ==
    /\ Inside(cl)
    /\ spare[ref[cl]] = {}
    /\ \E c \in Conn \ Owned :
        /\ Obtain(cl, c, {})
        /\ connKey' = [connKey EXCEPT ![c] = poolKey[ref[cl]]]

(* The client is back where it was before connectCached.                    *)
Depart(cl) ==
    /\ pc' = [pc EXCEPT ![cl] = "idle"]
    /\ want' = [want EXCEPT ![cl] = NoKey]
    /\ ref' = [ref EXCEPT ![cl] = NoPool]
    /\ held' = [held EXCEPT ![cl] = NoConn]
    /\ UNCHANGED <<poolKey, maxcount, maxSpare, walk>>

(* Opening it throws.                                                       *)
OpenFailed(cl) ==
    /\ Inside(cl)
    /\ spare[ref[cl]] = {}
    /\ Depart(cl)
    /\ inner' = [inner EXCEPT ![ref[cl]] = NoClient]
    /\ UNCHANGED <<spare, connKey>>

-------------------------------------------------------------------------------
(* ~PoolConnection uses its reference to the pool only when the connection  *)
(* is worth keeping.                                                        *)
ReleaseDropped(cl) ==
    /\ pc[cl] = "using"
    /\ Depart(cl)
    /\ Close({held[cl]})
    /\ UNCHANGED <<spare, inner>>

(* Mutant: the connection was moved out of the wrapper before put().        *)
ReleasePut_MovedFrom(cl) ==
    /\ pc[cl] = "using"
    /\ ref[cl] \in Live
    /\ inner[ref[cl]] = NoClient
    /\ Depart(cl)
    /\ spare' = [spare EXCEPT ![ref[cl]] = @ \cup {NoConn}]
    /\ UNCHANGED <<inner, connKey>>

RoomToSpare(p) == maxSpare[p] = 0 \/ Cardinality(spare[p]) < maxSpare[p]

ReleasePut(cl) ==
    /\ pc[cl] = "using"
    /\ ref[cl] \in Live
    /\ inner[ref[cl]] = NoClient
    /\ Depart(cl)
    /\ IF RoomToSpare(ref[cl])
       THEN /\ spare' = [spare EXCEPT ![ref[cl]] = @ \cup {held[cl]}]
            /\ UNCHANGED connKey
       ELSE UNCHANGED spare /\ Close({held[cl]})
    /\ UNCHANGED inner

-------------------------------------------------------------------------------
(* The operations that keep the map's mutex                                 *)

StartWalk(op, P, n) ==
    /\ Unlocked
    /\ walk' = [op |-> op, todo |-> P, arg |-> n]
    /\ UNCHANGED <<poolKey, maxSpare, spare, inner, clientVars, connKey>>

DropAll(keep) ==
    /\ Live # {}
    /\ StartWalk("drop", Live, keep)
    /\ UNCHANGED maxcount

(* Mutant: only the pools that exist learn of the new limit.                *)
SetMaxSpare_PoolsOnly(m) ==
    /\ StartWalk("limit", Live, m)
    /\ UNCHANGED maxcount

SetMaxSpare(m) ==
    /\ StartWalk("limit", Live, m)
    /\ maxcount' = m

(* drop(url, username, password, keep).                                     *)
DropKey(k, keep) ==
    /\ Careful => \A cl \in Client : want[cl] # k
    /\ Find(k) # {}
    /\ StartWalk("dropKey", Find(k), keep)
    /\ UNCHANGED maxcount

(* ConnectionPool::drop or setMaxSpare of one pool, under that pool's mutex: *)
(* n spare connections stay.                                                *)
Visit(p, n) ==
    /\ p \in walk.todo
    /\ inner[p] = NoClient
    /\ \E S \in SUBSET spare[p] :
        /\ Cardinality(S) <= n
        /\ S # spare[p] => Cardinality(S) = n
        /\ spare' = [spare EXCEPT ![p] = S]
        /\ Close(spare[p] \ S)
    /\ UNCHANGED <<poolKey, maxcount, inner, clientVars>>

DropVisit(p) ==
    /\ walk.op = "drop"
    /\ Visit(p, walk.arg)
    /\ walk' = IF walk.todo = {p} THEN NoWalk ELSE [walk EXCEPT !.todo = @ \ {p}]
    /\ UNCHANGED maxSpare

LimitVisit(p) ==
    /\ walk.op = "limit"
    /\ Visit(p, walk.arg)
    /\ maxSpare' = [maxSpare EXCEPT ![p] = walk.arg]
    /\ walk' = IF walk.todo = {p} THEN NoWalk ELSE [walk EXCEPT !.todo = @ \ {p}]

DropKeyVisit(p) ==
    /\ walk.op = "dropKey"
    /\ Visit(p, walk.arg)
    /\ walk' = [walk EXCEPT !.op = "check"]
    /\ UNCHANGED maxSpare

(* getCurrentSize() == 0 is read without the pool's mutex; an empty pool is *)
(* erased from the map, which destroys it.                                  *)
EraseIfEmpty(p) ==
    /\ walk.op = "check"
    /\ p \in walk.todo
    /\ poolKey' = IF spare[p] = {} THEN [poolKey EXCEPT ![p] = NoKey] ELSE poolKey
    /\ walk' = NoWalk
    /\ UNCHANGED <<maxcount, maxSpare, spare, inner, clientVars, connKey>>

(* setMaxSpare on an empty map has nothing to visit.                        *)
EmptyWalkEnds ==
    /\ walk.op = "limit"
    /\ walk.todo = {}
    /\ walk' = NoWalk
    /\ UNCHANGED <<poolKey, maxcount, maxSpare, spare, inner, clientVars, connKey>>

-------------------------------------------------------------------------------
ClientStep(cl) ==
    \/ \E k \in Key : FindPool(cl, k)
    \/ EnterConnect(cl) \/ Reuse(cl) \/ DropDead(cl) \/ Open(cl) \/ OpenFailed(cl)
    \/ ReleaseDropped(cl) \/ ReleasePut(cl)

AdminStep ==
    \/ \E n \in Limits : DropAll(n) \/ SetMaxSpare(n) \/ \E k \in Key : DropKey(k, n)
    \/ \E p \in PoolId : DropVisit(p) \/ LimitVisit(p) \/ DropKeyVisit(p) \/ EraseIfEmpty(p)
    \/ EmptyWalkEnds

PoolsNext == AdminStep \/ \E cl \in Client : ClientStep(cl)

PoolsSpec == PoolsInit /\ [][PoolsNext]_poolsVars

-------------------------------------------------------------------------------
(* Properties                                                               *)

(* "looks in this pool if there is a connection with the given url"         *)
(* (connectCached): whatever pools were created, emptied and erased in      *)
(* between, a client gets a connection opened with exactly its url, user    *)
(* name and password.                                                       *)
RightDatabase ==
    \A cl \in Client : pc[cl] = "using" => connKey[held[cl]] = want[cl]

(* "When the returned Connection object is destroyed, the actual connection *)
(* is put back into the pool" (connectCached): the pool a client found and  *)
(* will put its connection into exists as long as the client refers to it.  *)
ReferencedPoolLives ==
    \A cl \in Client : ref[cl] # NoPool => ref[cl] \in Live

(* When no operation is under way, one limit holds for every pool, the ones *)
(* created while setMaxPoolSize was waiting for other pools included, and   *)
(* no pool keeps more than that.                                            *)
LimitAgreed ==
    Unlocked => \A p \in Live :
                    /\ maxSpare[p] = maxcount
                    /\ maxcount = 0 \/ Cardinality(spare[p]) <= maxcount

(* Each database has a lease of its own: with its pool found, filled,       *)
(* emptied, erased and created again, a client never shares a connection    *)
(* and gets an idle one before a new one is opened.                         *)
LeaseOf(k) == INSTANCE SessionLease
    WITH idle <- {c \in Spare : connKey[c] = k},
         lease <- [cl \in Client |-> IF pc[cl] = "using" /\ want[cl] = k
                                     THEN held[cl] ELSE NoConn]
LeasePerDatabase ==
    /\ \A k \in Key : LeaseOf(k)!Init
    /\ [][\A k \in Key : [LeaseOf(k)!Next]_(LeaseOf(k)!vars)]_poolsVars
===============================================================================
