---------------------------- MODULE MCRunLifecycle ----------------------------
(* Instances of RunLifecycle for TLC. *)
EXTENDS RunLifecycle

CONSTANTS r1, r2, s1, s2, u1

(* Two runs of one session compete for it. *)
SameSession == [r \in {r1, r2} |-> s1]
OneOwnerOfOne == [s \in {s1} |-> u1]
SoleRun     == [r \in {r1} |-> s1]

=============================================================================
