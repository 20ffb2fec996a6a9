-------------------------- MODULE MCRenderPipeline --------------------------
(* Instances of RenderPipeline for TLC. *)
EXTENDS RenderPipeline

CONSTANTS c1, c2

Ask(op, resize) == [op |-> op, resize |-> resize]

\* Every op, with and without a camera that changes its size.
ModelRequests ==
  {Ask("piped", {}), Ask("piped", {c1}), Ask("plain", {}), Ask("tick", {c1}), Ask("close", {})}

\* A client that pipelines and one that asks for single ticks.
TwoClients == {Ask("piped", {}), Ask("tick", {})}
=============================================================================
