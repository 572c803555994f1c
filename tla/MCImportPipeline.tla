------------------------- MODULE MCImportPipeline -------------------------
(* Small instances of ImportPipeline for TLC. *)
EXTENDS ImportPipeline, TLC

CONSTANTS j1, j2, t1, t2, t3, c1, c2

\* Tickets and contents are interchangeable; so are jobs.
Symmetric == Permutations(Jobs) \cup Permutations(Tickets) \cup Permutations(Contents)
=============================================================================
