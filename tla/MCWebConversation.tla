-------------------------- MODULE MCWebConversation --------------------------
(* WebConversation with a few messages. A message and a conversation id     *)
(* stand for themselves; liveness rules symmetry out.                      *)
EXTENDS WebConversation, TLC
==============================================================================
