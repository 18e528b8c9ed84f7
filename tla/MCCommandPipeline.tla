------------------------- MODULE MCCommandPipeline -------------------------
(* Instance of CommandPipeline for TLC *)
EXTENDS CommandPipeline

CONSTANTS a, b, q1, q2

Lifecycle == {a}
Authority == {b}
=============================================================================
