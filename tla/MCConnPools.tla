------------------------------ MODULE MCConnPools ------------------------------
(* TLC instances of ConnPools. *)
EXTENDS ConnPools, TLC

CONSTANTS c1, c2, p1, p2, k1, k2, k3

MCClient == {c1, c2}
MCPoolId == {p1, p2}
MCConn   == {k1, k2, k3}
MCLimits == 0..2

(* Two keys that differ in the password only. *)
MCKeys == {[url |-> 1, username |-> 1, password |-> 1],
           [url |-> 1, username |-> 1, password |-> 2]}

MCSymmetry == Permutations(MCClient) \cup Permutations(MCPoolId) \cup Permutations(MCConn)
===============================================================================
