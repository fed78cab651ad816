------------------------------ MODULE DriverTxn ------------------------------
(***************************************************************************)
(* The transaction counter every driver keeps for its server session       *)
(* (transactionActive in mysql, postgresql, sqlite and oracle): only the   *)
(* outermost begin and the outermost commit or rollback reach the server.  *)
(*                                                                         *)
(* A session is a record: up, the server still answers; depth, the value   *)
(* of transactionActive; open, the server keeps what is executed next      *)
(* pending until a commit.  An operation is a pair of operators: whether   *)
(* the call may return (ok) or throw, and the session it leaves.           *)
(***************************************************************************)
EXTENDS Integers

CONSTANT LazyBegin  \* TRUE for oracle, whose beginTransaction only counts

ASSUME LazyBeginAssumption == LazyBegin \in BOOLEAN

Session == [up: BOOLEAN, depth: Nat, open: BOOLEAN]

Fresh  == [up |-> TRUE,  depth |-> 0, open |-> FALSE]
Closed == [up |-> FALSE, depth |-> 0, open |-> FALSE]

(* The server drops the session and with it whatever was pending.           *)
Lost(s) == [s EXCEPT !.up = FALSE, !.open = FALSE]

(* begin tells the server when the counter is 0, and counts only after the  *)
(* server agreed.                                                           *)
TellsBegin(s) == s.depth = 0 /\ ~LazyBegin
BeginMay(s, ok) == IF TellsBegin(s) THEN ok => s.up ELSE ok
Begun(s, ok) ==
    IF ok THEN [s EXCEPT !.depth = @ + 1, !.open = s.open \/ TellsBegin(s)] ELSE s

(* Mutants: the counter goes below zero for a commit without a begin; every *)
(* commit and rollback reaches the server.                                  *)
CountDown_Unguarded(s) == s.depth - 1
CountDown_NotCounted(s) == 0

(* commit and rollback share their counting, "transactionActive == 0 ||     *)
(* --transactionActive == 0": the server is told when the counter is or     *)
(* reaches 0.  A call the server refuses throws after the counter went      *)
(* down, and leaves the transaction pending (a busy sqlite file) or ended   *)
(* (a deferred constraint).                                                 *)
CountDown(s) == IF s.depth = 0 THEN 0 ELSE s.depth - 1
EndMay(s, ok, pending) ==
    IF CountDown(s) > 0
    THEN ok /\ pending = s.open
    ELSE /\ ok => s.up /\ ~pending
         /\ pending => s.open
Ended(s, pending) == [s EXCEPT !.depth = CountDown(s), !.open = pending]

(* A statement inside a counted transaction makes the server keep work.     *)
Executed(s) == [s EXCEPT !.open = s.open \/ s.depth > 0]
==============================================================================
