----------------------------- MODULE MCBatchDialog -----------------------------
(* Small instances of BatchDialog for TLC. *)
EXTENDS BatchDialog, TLC

\* Images are interchangeable; used by runs that check safety only.
Symmetry == Permutations(Images)
=============================================================================
