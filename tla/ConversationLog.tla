--------------------------- MODULE ConversationLog ---------------------------
(***************************************************************************)
(* What the conversation store promises to its callers: a conversation is  *)
(* a log of completed turns, a turn is appended whole and once, and a log  *)
(* only ever disappears together with its conversation.                    *)
(*                                                                         *)
(* ConversationStore (the SQL of chat/storage.py) is shown to implement    *)
(* this specification, and ChatService, which runs the store's calls as    *)
(* single transactions, to stay within it.                                 *)
(***************************************************************************)
EXTENDS Naturals, Sequences

CONSTANTS
  Conversations,   \* conversation ids
  Turns            \* completed pairs of a user and an assistant message

VARIABLES
  rows,            \* conversations that exist
  log              \* the turns of each, oldest first

LogVars == <<rows, log>>

Init ==
  /\ rows = {}
  /\ log = [c \in Conversations |-> <<>>]

Create(c) ==
  /\ c \notin rows
  /\ rows' = rows \union {c}
  /\ UNCHANGED log

AppendTurn(c, t) ==
  /\ c \in rows
  /\ \A d \in Conversations : \A i \in 1 .. Len(log[d]) : log[d][i] # t
  /\ log' = [log EXCEPT ![c] = Append(@, t)]
  /\ UNCHANGED rows

\* Some conversations and their turns are deleted together.
Purge(gone) ==
  /\ rows' = rows \ gone
  /\ log' = [c \in Conversations |-> IF c \in gone THEN <<>> ELSE log[c]]

Next ==
  \/ \E c \in Conversations : Create(c) \/ \E t \in Turns : AppendTurn(c, t)
  \/ \E gone \in SUBSET rows : Purge(gone)

Spec == Init /\ [][Next]_LogVars
==============================================================================
