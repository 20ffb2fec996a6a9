----------------------------- MODULE MCEnvServe -----------------------------
(* Instances of EnvServe for TLC. *)
EXTENDS EnvServe

CONSTANTS a1, a2

TwoActors == <<a1, a2>>
=============================================================================
