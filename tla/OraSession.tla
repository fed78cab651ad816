----------------------------- MODULE OraSession -----------------------------
(***************************************************************************
 A connection of the oracle driver: the handles of OCI, which all go with the
 environment they were allocated in, the session at the server, and the
 statements that lastInsertId keeps.  A fork copies the handles but not the
 session: the child notices by the process id when it is asked to ping.
 ***************************************************************************)
EXTENDS Calls, Sequences

CONSTANTS SequenceNames \* the names that lastInsertId is called with

VARIABLE sys

Processes == {"parent", "child"}

\* What a process has in its memory: envhp # 0, whether the environment is
\* still there, seqStmt, the names whose statement handle is open, and pid.
NoObject == [exists |-> FALSE, envhp |-> FALSE, env |-> FALSE, seqStmt |-> {}, open |-> {},
             pid |-> "none"]

\* attached and session: those of the server.  strangers: a child destroyed a
\* connection that it did not ping.
Init == sys = [of |-> [p \in Processes |-> NoObject], forked |-> FALSE,
               attached |-> FALSE, session |-> FALSE, strangers |-> FALSE,
               misuse |-> {}, failing |-> 0, calls |-> 0, threw |-> FALSE]

Ends(t) == Reached(t) /\ sys' = Finished(t)
Env(s, p) == s.of[p].env
-----------------------------------------------------------------------------
(* Logging on: one call after the other, each of which may fail. *)

Allocated(s, p) == Call(s, Env(s, p))
CreateEnvironment(s, p) ==
    Then(Call(s, TRUE), LAMBDA t : [t EXCEPT !.of[p].envhp = TRUE, !.of[p].env = TRUE])
AttachToServer(s, p) ==
    Then(Call(s, Env(s, p)), LAMBDA t : [t EXCEPT !.attached = TRUE])
BeginSession(s, p) ==
    Then(Call(s, Env(s, p) /\ s.attached), LAMBDA t : [t EXCEPT !.session = TRUE])

\* The error and server handles; the service and session handles with their
\* attributes; the session becomes the one of the service.
Logon(s, p) ==
    LET a == CreateEnvironment(s, p)
        b == Then(a, LAMBDA t : Then(Allocated(t, p), LAMBDA u : Allocated(u, p)))
        c == Then(b, LAMBDA t : AttachToServer(t, p))
        d == Then(c, LAMBDA t : Then(Allocated(t, p), LAMBDA u : Allocated(u, p)))
        e == Then(d, LAMBDA t : BeginSession(t, p))
    IN Then(e, LAMBDA t : Allocated(t, p))

\* A constructor that throws leaves no object whose destructor would clean up:
\* the handles are lost.
Construct(failing) ==
    /\ ~ sys.of["parent"].exists /\ ~ sys.forked
    /\ LET t == Logon(Begin([sys EXCEPT !.attached = FALSE, !.session = FALSE], failing), "parent")
       IN Ends(IF t.threw THEN [t EXCEPT !.of["parent"] = NoObject]
               ELSE [t EXCEPT !.of["parent"].exists = TRUE, !.of["parent"].pid = "parent"])
-----------------------------------------------------------------------------
\* Each handle of a statement is released with its statement.
FreeStatements(s, p) ==
    LET t == IF s.of[p].seqStmt \subseteq s.of[p].open THEN s ELSE Misuse(s, "freed after the environment")
    IN [t EXCEPT !.of[p].seqStmt = {}, !.of[p].open = {}]

\* All handles that were allocated in the environment go with it.
FreeEnvironment(s, p) == [s EXCEPT !.of[p].env = FALSE, !.of[p].open = {}]

\* Errors are logged.
EndSession(s, p) ==
    LET t == Call(s, Env(s, p))
    IN IF t.threw THEN [t EXCEPT !.threw = FALSE] ELSE [t EXCEPT !.session = FALSE]
DetachFromServer(s, p) ==
    LET t == Call(s, Env(s, p))
    IN IF t.threw THEN [t EXCEPT !.threw = FALSE] ELSE [t EXCEPT !.attached = FALSE, !.session = FALSE]

\* The member seqStmt goes after the body of the destructor.
Destroy(p, failing) ==
    /\ sys.of[p].exists
    /\ LET s == Begin(sys, failing)
           t == IF ~ s.of[p].envhp THEN s
                ELSE FreeEnvironment(DetachFromServer(EndSession(s, p), p), p)
           stranger == s.of[p].envhp /\ s.of[p].pid # p
       IN Ends([FreeStatements(t, p) EXCEPT !.of[p] = NoObject,
                                            !.strangers = @ \/ stranger])

\* The connection is of no use any more in the child.
Ping(p) ==
    /\ sys.of[p].exists /\ sys.of[p].pid # p
    /\ Ends([FreeEnvironment(FreeStatements(Begin(sys, 0), p), p) EXCEPT !.of[p].envhp = FALSE])

\* The statement is remembered before it is executed.  A process uses the
\* connection that it opened.
LastInsertId(p, name, failing) ==
    /\ sys.of[p].exists /\ sys.of[p].pid = p
    /\ LET s == Begin(sys, failing)
           t == IF name \in s.of[p].seqStmt THEN s
                ELSE Then(Call(s, Env(s, p)),
                          LAMBDA u : [u EXCEPT !.of[p].seqStmt = @ \cup {name},
                                               !.of[p].open = @ \cup {name}])
       IN Ends(Then(t, LAMBDA u : Call(u, name \in u.of[p].open)))

Fork == /\ ~ sys.forked /\ sys.of["parent"].exists
        /\ sys' = [sys EXCEPT !.forked = TRUE, !.of["child"] = sys.of["parent"]]

Next ==
    \/ \E k \in 0..8 : Construct(k)
    \/ \E p \in Processes :
         \/ \E k \in 0..2 : Destroy(p, k)
         \/ Ping(p)
         \/ \E name \in SequenceNames, k \in 0..2 : LastInsertId(p, name, k)
    \/ Fork
-----------------------------------------------------------------------------
(* What the composition says of this part. *)

\* No handle is used after its environment is gone, except that the destructor
\* releases the statements of lastInsertId after it; and a child that pings its
\* copy of a connection does not end the session of the parent.
HandlesLegal ==
    /\ sys.misuse \subseteq {"freed after the environment"}
    /\ \A p \in Processes :
         LET object == sys.of[p]
         IN /\ object.open \subseteq object.seqStmt
            /\ object.env = object.envhp
            /\ object.exists /\ object.envhp => object.seqStmt = object.open
    /\ sys.of["parent"].exists /\ ~ sys.strangers => sys.session
=============================================================================
