----------------------------- MODULE MCChatAnswer ------------------------------
(* ChatAnswer on a few requests, which are numbers.  Its run checks         *)
(* liveness, which does not go together with symmetry; instead, requests    *)
(* are numbered as they arrive.                                             *)
EXTENDS ChatAnswer

(* Requests differ in nothing but their names, so every behaviour is one of *)
(* these with its requests renamed.  No fair action makes a request arrive. *)
ArrivalsInOrder ==
  \A q, r \in Requests : q < r /\ pc'[r] # "idle" => pc'[q] # "idle"
==============================================================================
