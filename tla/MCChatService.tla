----------------------------- MODULE MCChatService -----------------------------
(* ChatService on a few requests, which are interchangeable.               *)
EXTENDS ChatService, TLC

Interchangeable == Permutations(Requests) \union Permutations(Conversations)

(* Spec, if LastDay is 0: midnight never comes.                            *)
OneDaySpec == Init /\ [][SameDay]_vars
==============================================================================
