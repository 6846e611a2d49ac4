--------------------------- MODULE MCImageRemoval ---------------------------
(* Small instances of ImageRemoval for TLC. *)
EXTENDS ImageRemoval, TLC

\* Images, tags and threads are interchangeable; used by runs that check
\* safety only.
Symmetry == Permutations(Images) \cup Permutations(Tags) \cup Permutations(Workers)
=============================================================================
