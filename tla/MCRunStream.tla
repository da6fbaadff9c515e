------------------------------ MODULE MCRunStream ------------------------------
(* Instances of RunStream for TLC.  Connections share the log and nothing     *)
(* else, and none of them changes it: one connection meets every behaviour.   *)
EXTENDS RunStream

CONSTANT c1
=============================================================================
