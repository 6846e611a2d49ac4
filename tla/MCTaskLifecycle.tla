-------------------------- MODULE MCTaskLifecycle --------------------------
(* Small instances of TaskLifecycle for TLC. *)
EXTENDS TaskLifecycle, TLC

\* Tasks, threads and applications are interchangeable; used by runs that
\* check safety only.
Symmetry == Permutations(Tasks) \cup Permutations(Workers) \cup Permutations(Apps)
=============================================================================
