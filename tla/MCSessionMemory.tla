-------------------------- MODULE MCSessionMemory --------------------------
(* Instances of SessionMemory for TLC. *)
EXTENDS SessionMemory, TLC

CONSTANTS likes, token, masked, t1, t2

Card(current, forbidden) == <<current, forbidden>>
NoCard == Card(<<>>, <<>>)

Made(source, before, after) ==
  [source |-> source, before |-> before, after |-> after, undone |-> FALSE]

(* A session without memory, and one that an older version compacted while   *)
(* it still kept credentials.                                                *)
Histories ==
  {[content |-> NoCard, changes |-> <<>>],
   [content |-> Card(<<likes>>, <<>>),
    changes |-> <<Made("compact", Card(<<likes, token>>, <<>>), Card(<<likes>>, <<>>))>>]}

=============================================================================
