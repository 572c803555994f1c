----------------------------- MODULE MCStatements --------------------------
(* Small instances of Statements for TLC. *)
EXTENDS Statements, TLC

CONSTANTS s1, s2, r1, r2, good, other, bad

\* Statements and request ids are interchangeable.
Symmetric == Permutations(Statements) \cup Permutations(Requests)
=============================================================================
