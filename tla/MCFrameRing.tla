---------------------------- MODULE MCFrameRing ----------------------------
(* Instances of FrameRing for TLC. *)
EXTENDS FrameRing, TLC

CONSTANTS t1, t2, c1, c2

Short(c) == [content |-> c, len |-> 1]
Long(c) == [content |-> c, len |-> 3]

\* One camera or two, frames shorter and longer than the meta page.
ModelRequests == {<<Long(c1)>>, <<Long(c2)>>, <<Short(c1)>>, <<Short(c2)>>,
                  <<Short(c1), Short(c2)>>, <<Short(c2), Short(c1)>>}

Interchangeable == Permutations({t1, t2}) \cup Permutations({c1, c2})
=============================================================================
