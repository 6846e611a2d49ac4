----------------------------- MODULE MCTaskPages -----------------------------
(* A small instance of TaskPages for TLC. *)
EXTENDS TaskPages

CONSTANTS t1, t2
MCTasks == {t1, t2}
=============================================================================
