----------------------------- MODULE StmtCache -----------------------------
(***************************************************************************
 PSCConnection: a connection with a cache of its prepared statements.  Copies
 share the connection and the cache.  A statement refers to its connection but
 does not keep it: it has to go first.
 ***************************************************************************)
EXTENDS Naturals, FiniteSets

CONSTANTS Holders,        \* those with a copy of the connection
          Keys,         \* queries, alone or with the names of limit and offset
          Objects       \* the statements that there can be at a time

VARIABLE sys

\* conn, cache: who refers to the connection and to the cache.  entry: what is
\* in the cache.  key: what a statement was prepared from.  held: who has which
\* statement for what.  early: the connection was let go before the cache.
Init == \E u \in Holders :
    sys = [conn |-> {u}, cache |-> {u}, entry |-> << >>, key |-> << >>, held |-> {},
           early |-> FALSE, misuse |-> {}]

Live(s) == {s.entry[k] : k \in DOMAIN s.entry} \cup {h.statement : h \in s.held}
Restrict(f, S) == [x \in DOMAIN f \cap S |-> f[x]]
With(f, x, v) == [y \in DOMAIN f \cup {x} |-> IF y = x THEN v ELSE f[y]]

\* What nobody refers to goes: first the cache, then the statements, which need
\* their connection then.
Collected(s) ==
    LET t == IF s.cache = {} THEN [s EXCEPT !.entry = << >>] ELSE s
        gone == DOMAIN t.key \ Live(t)
    IN [t EXCEPT !.key = Restrict(@, Live(t)),
                 !.misuse = IF gone # {} /\ t.conn = {} THEN @ \cup {"closed connection"} ELSE @]
Becomes(s) == sys' = Collected(s)
-----------------------------------------------------------------------------
Given(s, u, k, o) == [s EXCEPT !.held = @ \cup {[user |-> u, asked |-> k, statement |-> o]}]
Free(s) == Objects \ DOMAIN s.key

\* prepare and prepareWithLimit, which makes its key of three parts.
Prepare(u, k) ==
    /\ u \in sys.cache
    /\ \/ k \in DOMAIN sys.entry /\ Becomes(Given(sys, u, k, sys.entry[k]))
       \/ /\ k \notin DOMAIN sys.entry /\ u \in sys.conn /\ Free(sys) # {}
          /\ LET o == CHOOSE x \in Free(sys) : TRUE
             IN Becomes(Given([sys EXCEPT !.entry = With(@, k, o), !.key = With(@, o, k)], u, k, o))

ClearStatementCache(u) == u \in sys.cache /\ Becomes([sys EXCEPT !.entry = << >>])

Release(h) == h \in sys.held /\ Becomes([sys EXCEPT !.held = @ \ {h}])

Copy(u, v) ==
    /\ u \in sys.cache /\ v \notin sys.cache
    /\ Becomes([sys EXCEPT !.cache = @ \cup {v}, !.conn = IF u \in @ THEN @ \cup {v} ELSE @])

\* A user has given back its statements before the connection goes.
Leaves(u) == u \in sys.cache /\ ~ \E h \in sys.held : h.user = u
LetGo(s, u) == [s EXCEPT !.conn = @ \ {u}]

\* The destructor: the members of the derived class go first.
Destroy(u) ==
    /\ Leaves(u)
    /\ Becomes(LetGo(Collected([sys EXCEPT !.cache = @ \ {u}]), u))

\* Connection::close lets go of the connection only, and an assignment does
\* that before it lets go of the cache.
Close(u) ==
    /\ Leaves(u)
    /\ Becomes([LetGo(sys, u) EXCEPT !.early = TRUE])
Assign(u) ==
    /\ Leaves(u)
    /\ Becomes([Collected([LetGo(sys, u) EXCEPT !.early = TRUE]) EXCEPT !.cache = @ \ {u}])

Next ==
    \/ \E u \in Holders :
         \/ \E k \in Keys : Prepare(u, k)
         \/ ClearStatementCache(u)
         \/ \E v \in Holders : Copy(u, v)
         \/ Destroy(u)
         \/ Close(u)
         \/ Assign(u)
    \/ \E h \in sys.held : Release(h)
-----------------------------------------------------------------------------
(* What the composition says of this part. *)

\* Statements go before their connection, unless a copy was closed or assigned.
HandlesLegal ==
    /\ ~ sys.early => sys.misuse = {}
    /\ DOMAIN sys.key = Live(sys)

\* A user has a statement for what it asked for, and all users have the same one
\* for the same query as long as it is in the cache.
DataStays ==
    /\ \A h \in sys.held : sys.key[h.statement] = h.asked
    /\ \A k \in DOMAIN sys.entry : sys.key[sys.entry[k]] = k
=============================================================================
