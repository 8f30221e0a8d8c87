----------------------------- MODULE MCPreviews -----------------------------
(* Instances of Previews for TLC: pushes are numbers, in their order.      *)
EXTENDS Previews

CONSTANT PushCount

MCPushes == 1 .. PushCount

=============================================================================
