------------------------- MODULE MCCommandExecution -------------------------
(* Instances of CommandExecution.                                          *)
EXTENDS CommandExecution, TLC

CONSTANTS c1, c2, s1, s2, p1, p2

\* Each session has one call.
MCOneEach == (c1 :> s1) @@ (c2 :> s2)
=============================================================================
