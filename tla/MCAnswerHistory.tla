---------------------------- MODULE MCAnswerHistory ----------------------------
(* Instances of AnswerHistory for TLC: the operations users mix with sending  *)
(* messages, one set for each question.                                       *)
EXTENDS AnswerHistory

CheckpointOperations == {"retry", "delete", "compact", "auto", "preserve", "undo"}
EditOperations       == {"edit", "preserve"}
=============================================================================
