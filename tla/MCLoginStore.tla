---------------------------- MODULE MCLoginStore ----------------------------
(* Instances of LoginStore for TLC. *)
EXTENDS LoginStore, TLC

Interchangeable == Permutations(Procs)
=============================================================================
