----------------------------- MODULE MCPgSession -----------------------------
(* TLC instances of PgSession. *)
EXTENDS PgSession, TLC

CONSTANTS s1, s2, c1, c2, w1

MCStmt == {s1, s2}
MCCursor == {c1, c2}
MCWork == {w1}
MCSymmetry == Permutations(MCStmt) \cup Permutations(MCCursor)
==============================================================================
