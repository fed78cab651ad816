------------------------------ MODULE MCConnPool ------------------------------
(* TLC instances of ConnPool. *)
EXTENDS ConnPool

CONSTANTS c1, c2, k1, k2, k3

MCClient == {c1, c2}
MCConn   == {k1, k2, k3}
MCSpares == 0..2
===============================================================================
