----------------------------- MODULE MCSocketIO -----------------------------
(* Instances of SocketIO for TLC: one descriptor shared by two coroutines. *)
EXTENDS SocketIO, TLC

CoSymmetry == Permutations(Cos)
====
