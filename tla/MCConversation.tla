--------------------------- MODULE MCConversation ---------------------------
(* Every way to spread the messages over the conversations is an initial   *)
(* state; one message is as good as another.                               *)
EXTENDS Conversation

Symmetry == Permutations(Message)
=============================================================================
