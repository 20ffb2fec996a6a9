--------------------------- MODULE MCTruthStream ---------------------------
(* Instances of TruthStream for TLC: model values for actors and handles. *)
EXTENDS TruthStream, TLC
=============================================================================
