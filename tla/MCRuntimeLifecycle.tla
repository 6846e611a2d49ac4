------------------------- MODULE MCRuntimeLifecycle -------------------------
(* Small instances of RuntimeLifecycle for TLC. *)
EXTENDS RuntimeLifecycle, TLC

\* Containers, names and threads are interchangeable; used by runs that check
\* safety only.
Symmetry == Permutations(Ids) \cup Permutations(Names) \cup Permutations(Workers)
=============================================================================
