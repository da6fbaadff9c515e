------------------------------ MODULE MCToolCalls ------------------------------
(* Instances of ToolCalls for TLC. *)
EXTENDS ToolCalls, TLC

CONSTANTS r1, r2, c1, c2, c3

\* One limit of its own for web_extract, none for skill_read.
ExtractLimit == [t \in Tools |-> IF t = "web_extract" THEN 2 ELSE 0]

RunAndCallSymmetry == Permutations({r1, r2}) \cup Permutations({c1, c2, c3})
=============================================================================
