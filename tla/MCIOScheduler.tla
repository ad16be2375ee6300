---------------------------- MODULE MCIOScheduler ----------------------------
(* A small instance of IOScheduler for TLC. *)
EXTENDS IOScheduler, TLC

(* The coroutines are interchangeable. *)
CoSymmetry == Permutations(Coroutines)
=============================================================================
