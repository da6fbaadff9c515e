---------------------------- MODULE MCConversation ----------------------------
(* A conversation: the history of its answers with the checkpoints that stand  *)
(* for a part of it, and the memory kept of it.  What they have in common, the *)
(* revision of the selected answers and the deletion of the session, each      *)
(* module has for itself, so a behaviour moves one of them.                    *)
EXTENDS MCAnswerHistory, MCSessionMemory

VARIABLE part
conversationVars == <<vars, historyVars, part>>

ConversationInit ==
  /\ part \in {"memory", "history"} /\ Init /\ HistoryInit
  /\ part = "history" => changes = <<>>
ConversationNext ==
  /\ UNCHANGED part
  /\ \/ part = "memory" /\ Next /\ UNCHANGED historyVars
     \/ part = "history" /\ HistoryNext /\ UNCHANGED vars
ConversationSpec == ConversationInit /\ [][ConversationNext]_conversationVars
=============================================================================
