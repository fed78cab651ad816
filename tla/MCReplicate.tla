------------------------------ MODULE MCReplicate ------------------------------
(* TLC instances of Replicate. *)
EXTENDS Replicate, TLC

CONSTANTS c1, c2, w1, w2, w3

MCClient  == {c1, c2}
MCWork    == {w1, w2, w3}
MCTwoWork == {w1, w2}

(* The clients list the databases in opposite orders. *)
MCBackend == {1, 2, 3}
MCUrlList == [cl \in Client |-> IF cl = c1 THEN <<1, 2, 3>> ELSE <<3, 2, 1>>]

(* No database locks when a transaction begins, or a later one in the order. *)
MCImmediates == {{}, {2}}

(* Statements fail outside of the programs' own transactions; or within. *)
MCFaultsOutside == [inside \in BOOLEAN |-> IF inside THEN {} ELSE {"statement"}]
MCFaultsInside  == [inside \in BOOLEAN |-> IF inside THEN {"statement"} ELSE {}]
===============================================================================
