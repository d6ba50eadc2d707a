--------------------------- MODULE MCConversation ---------------------------
(* One thread, two turns that overlap, with and without a system prompt.     *)
EXTENDS Conversation

Question == <<"user">>
Prompted == <<"system", "user">>
FollowUp == <<"user", "user">>
SomeBodies == {Question, Prompted, FollowUp}
=============================================================================
