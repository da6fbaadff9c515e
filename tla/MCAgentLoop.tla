------------------------------ MODULE MCAgentLoop ------------------------------
(* Instances of AgentLoop for TLC. *)
EXTENDS AgentLoop

\* One error of each kind the classification tells apart.
SomeErrors ==
  {[status |-> s, text |-> "none"] : s \in {0, 400, 402, 413, 429, 503}}
  \cup {[status |-> 0, text |-> t] : t \in {"network", "context", "quota", "channel", "page"}}
=============================================================================
