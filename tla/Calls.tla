------------------------------- MODULE Calls -------------------------------
(***************************************************************************
 How the functions of a driver are written in the modules of statements: a
 function is an operator from the state of the system to the next one.  The
 state records which call of the client library is to fail, and whether an
 exception is on its way; the functions that follow are not executed then.
 ***************************************************************************)
EXTENDS Naturals

\* A function of the program starts with the choice of the call that fails, 0
\* for none.
Begin(s, failing) == [s EXCEPT !.failing = failing, !.calls = 0, !.threw = FALSE]

Then(s, F(_)) == IF s.threw THEN s ELSE F(s)
Throw(s) == [s EXCEPT !.threw = TRUE]
Misuse(s, what) == [s EXCEPT !.misuse = @ \cup {what}]

\* A call of the client library with a handle that should be open.
Call(s, isOpen) ==
    LET t == [s EXCEPT !.calls = @ + 1,
                       !.misuse = IF isOpen THEN @ ELSE @ \cup {"closed handle"}]
    IN IF t.calls = s.failing THEN Throw(t) ELSE t

\* Whether the calls reached the one that was to fail: other choices of it are
\* the same behaviour as none.
Reached(s) == s.calls >= s.failing
Finished(s) == [s EXCEPT !.failing = 0, !.calls = 0, !.threw = FALSE]
=============================================================================
