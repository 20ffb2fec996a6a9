---------------------------- MODULE MCWorldReplay ----------------------------
(***************************************************************************)
(* Instances of WorldReplay for TLC: a driver "e" behind a parked "x".      *)
(***************************************************************************)
EXTENDS WorldReplay, TLC

ModelCells == ("e" :> 0) @@ ("x" :> 2)
\* "x" leaves by the scenario's own script at tick 1 and comes back at tick 2, by an
\* interaction whose id sorts after the session's.
ModelScript == <<[actor |-> "x", at |-> 1, state |-> FALSE], [actor |-> "x", at |-> 2, state |-> TRUE]>>
ModelAutoIds == <<"w1", "w2">>

\* The live world starts with the driver alone, and no script.
LiveCells == "e" :> 0
LiveScript == <<>>
=============================================================================
