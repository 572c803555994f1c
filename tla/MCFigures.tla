------------------------------ MODULE MCFigures ----------------------------
(* Small instances of Figures for TLC. *)
EXTENDS Figures, TLC

CONSTANTS r1, r2, r3, p1, p2

\* Request ids are interchangeable; so are readers.
Symmetric == Permutations(Requests) \cup Permutations(Readers)
=============================================================================
