----------------------------- MODULE MCScheduler -----------------------------
(* A small instance of Scheduler for TLC. *)
EXTENDS Scheduler, TLC

(* The coroutines are interchangeable. *)
CoSymmetry == Permutations(Coroutines)
=============================================================================
