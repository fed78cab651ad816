----------------------------- MODULE SessionLease -----------------------------
(***************************************************************************)
(* What connectCached promises (include/tntdb/connect.h): a client holds a *)
(* connection nobody else holds; an idle one is handed out before a new    *)
(* one is opened; a connection given back is idle or gone.                 *)
(***************************************************************************)
CONSTANTS Client, Conn, NoConn

VARIABLES
    idle,   \* the connections waiting for reuse
    lease   \* the connection each client holds, or NoConn

vars == <<idle, lease>>

Leased == {lease[cl] : cl \in Client} \ {NoConn}

Init ==
    /\ idle = {}
    /\ lease = [cl \in Client |-> NoConn]

(* A client obtains an idle connection, or a new one when none is idle. *)
Acquire(cl) ==
    /\ lease[cl] = NoConn
    /\ \E c \in Conn \ Leased :
        /\ c \in idle \/ idle = {}
        /\ lease' = [lease EXCEPT ![cl] = c]
        /\ idle' = idle \ {c}

(* A client gives its connection back; it is kept for reuse or closed. *)
Release(cl) ==
    /\ lease[cl] # NoConn
    /\ lease' = [lease EXCEPT ![cl] = NoConn]
    /\ idle' = idle \/ idle' = idle \cup {lease[cl]}

(* Idle connections may be closed at any time. *)
Evict ==
    /\ idle' \subseteq idle
    /\ UNCHANGED lease

Next == Evict \/ \E cl \in Client : Acquire(cl) \/ Release(cl)

Spec == Init /\ [][Next]_vars
===============================================================================
