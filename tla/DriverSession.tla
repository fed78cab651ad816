---------------------------- MODULE DriverSession ----------------------------
(***************************************************************************)
(* The session of DriverTxn as a specification of its own: what the pool,  *)
(* the guard class and the replication driver rely on in every driver.     *)
(* The driver's own model implements it.                                   *)
(***************************************************************************)
EXTENDS DriverTxn

VARIABLE sess

Init == sess = Fresh

BeginTransaction ==
    \E ok \in BOOLEAN : BeginMay(sess, ok) /\ sess' = Begun(sess, ok)

(* commit or rollback *)
EndTransaction ==
    \E ok, pending \in BOOLEAN : EndMay(sess, ok, pending) /\ sess' = Ended(sess, pending)

Execute == sess.up /\ sess' = Executed(sess)

ServerLoss == sess' = Lost(sess)

(* The connection is destroyed and another one opened. *)
Reconnect == sess' = Fresh

Next == BeginTransaction \/ EndTransaction \/ Execute \/ ServerLoss \/ Reconnect

Spec == Init /\ [][Next]_sess
==============================================================================
