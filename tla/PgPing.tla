------------------------------- MODULE PgPing -------------------------------
(***************************************************************************
 postgresql::Connection::ping: a query is sent, and its results are read as
 they come; ten seconds without any give up.  The answer may come later: it
 must be taken neither for the one of the next ping nor for the result of the
 next command.

 The results of a query are the row and the end.
 ***************************************************************************)
EXTENDS Naturals

CONSTANT MaxCommands    \* how many commands are sent

VARIABLE sys

Idle == 0       \* libpq waits for no results
Results == 2

\* next: the number of the next command.  pending: the command whose results
\* are still to be read; come, consumed, read: how many of them have arrived,
\* were taken from the socket, were given to the program.  asked: the ping that
\* goes on.  got: what the last call that succeeded asked and was answered.
Init == sys = [next |-> 1, pending |-> Idle, come |-> 0, consumed |-> 0, read |-> 0,
               asked |-> Idle, lost |-> FALSE, got |-> [asked |-> Idle, answer |-> Idle],
               clean |-> TRUE]
-----------------------------------------------------------------------------
(* libpq and the server. *)

\* PQsendQuery refuses while results of an earlier query are outstanding.
CanSend(s) == s.pending = Idle /\ ~ s.lost
Sent(s) == [s EXCEPT !.pending = s.next, !.next = @ + 1, !.come = 0, !.consumed = 0, !.read = 0]

ServerAnswers ==
    /\ sys.pending # Idle /\ sys.come < Results /\ ~ sys.lost
    /\ sys' = [sys EXCEPT !.come = @ + 1]
ServerLoss == ~ sys.lost /\ sys' = [sys EXCEPT !.lost = TRUE]

Readable(s) == s.come > s.consumed \/ s.lost
ConsumeInput(s) == [s EXCEPT !.consumed = s.come]
IsBusy(s) == s.read = s.consumed

\* PQgetResult gives the row, then nothing: the connection is idle again.
RowRead(s) == [s EXCEPT !.read = 1]
EndRead(s) == [s EXCEPT !.read = 2, !.pending = Idle]
-----------------------------------------------------------------------------
Returned(s, ok) ==
    [s EXCEPT !.asked = Idle,
              !.got = IF ok THEN [asked |-> sys.asked, answer |-> sys.pending] ELSE @,
              !.clean = ok => s.pending = Idle]

\* while (PQisBusy == 0): the row is thrown away, the end is the answer.
ReadAll(s) ==
    LET t == IF IsBusy(s) \/ s.read > 0 THEN s ELSE RowRead(s)
    IN IF IsBusy(t) THEN t ELSE Returned(EndRead(t), TRUE)

StartPing ==
    /\ sys.asked = Idle /\ sys.next <= MaxCommands
    /\ sys' = IF CanSend(sys) THEN [Sent(sys) EXCEPT !.asked = sys.next] ELSE Returned(sys, FALSE)

Poll ==
    /\ sys.asked # Idle /\ Readable(sys)
    /\ sys' = IF sys.lost THEN Returned(sys, FALSE) ELSE ReadAll(ConsumeInput(sys))

TimedOut ==
    /\ sys.asked # Idle /\ ~ Readable(sys)
    /\ sys' = Returned(sys, FALSE)

\* PQexec waits for the results that are outstanding and throws them away; then
\* it sends and reads until the end.
Execute ==
    /\ sys.asked = Idle /\ sys.next <= MaxCommands
    /\ sys' = IF sys.lost THEN Returned([sys EXCEPT !.pending = Idle], FALSE)
              ELSE LET sent == Sent([sys EXCEPT !.pending = Idle])
                   IN [sent EXCEPT !.pending = Idle, !.come = Results, !.consumed = Results,
                                   !.read = Results, !.clean = TRUE,
                                   !.got = [asked |-> sys.next, answer |-> sent.pending]]

Next == StartPing \/ Poll \/ TimedOut \/ Execute \/ ServerAnswers \/ ServerLoss
-----------------------------------------------------------------------------
(* What the composition says of this part. *)

\* A ping that succeeds leaves nothing on the connection.
HandlesLegal == sys.clean

\* An answer is the one of the command that asked.
DataStays == sys.got.asked = sys.got.answer
=============================================================================
