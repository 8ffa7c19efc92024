------------------------- MODULE MCConversationStore -------------------------
(* ConversationStore, and ChatMemory on top, on a few turns.               *)
EXTENDS ChatMemory, Functions

\* Turns of different lengths; all orders in which they are appended occur.
MCLength == CHOOSE f \in [Turns -> 1 .. Cardinality(Turns)] : IsInjective(f)

\* Turns have 2, 4 and 6 characters and the current message 1: there is room
\* for all three turns, for the two shorter ones, or for the shortest and not
\* the next; or the number of turns is the limit that counts, or is zero.
MCLimits == {<<3, 13>>, <<3, 7>>, <<3, 5>>, <<2, 13>>, <<0, 13>>}
==============================================================================
