----------------------------- MODULE MCTaskService -----------------------------
(* A small instance of TaskService for TLC. *)
EXTENDS TaskService, TLC

CONSTANTS t1, b1, run, c1, c2, s1

AnyOrder == Permutations(Cancels)
===============================================================================
