------------------------------ MODULE ChatMemory ------------------------------
(***************************************************************************)
(* ChatMemory of chat/memory.py over the PostgreSQL store: what a turn is  *)
(* given to read of its conversation.  assemble_context takes the messages *)
(* that history returns in twos, keeps the newest turns within two limits, *)
(* and counts the completed turns for the turn limit.  It runs in one go,  *)
(* on whatever the transactions of other turns have committed by then.     *)
(***************************************************************************)
EXTENDS ConversationStore

CONSTANTS
  Length,            \* Length[t]: characters of each message of a turn
  CurrentLength,     \* those of the message that is being answered
  Limits             \* pairs of past_turn_limit and character_limit to look at

ASSUME MemoryAssumption ==
  /\ Length \in [Turns -> Nat]
  /\ CurrentLength \in Nat
  /\ Limits \subseteq Nat \X (Nat \ {0})

------------------------------------------------------------------------------
(* history: the committed messages by ordinal, none of an expired row.     *)
StoredHistory(c) ==
  IF row[c] = "live"
    THEN [i \in 1 .. Cardinality(Ordinals(c)) |->
            messages[c][CHOOSE o \in Ordinals(c) :
                          Cardinality({p \in Ordinals(c) : p <= o}) = i]]
    ELSE <<>>

(* prior_turns: the messages in twos; an odd one out ends as a short turn. *)
PriorTurns(stored) ==
  [i \in 1 .. (Len(stored) + 1) \div 2 |->
     SubSeq(stored, 2 * i - 1, Min({2 * i, Len(stored)}))]

Candidates(turns, pastTurnLimit) ==
  SubSeq(turns, Max({1, Len(turns) - pastTurnLimit + 1}), Len(turns))

\* sum, of a sequence of numbers, added up from its last one.
Total(lengths) ==
  LET last[k \in 0 .. Len(lengths)] ==
        IF k = 0 THEN 0 ELSE last[k - 1] + lengths[Len(lengths) + 1 - k]
  IN  last[Len(lengths)]

TurnLength(turn) == Total([i \in 1 .. Len(turn) |-> Length[turn[i].turn]])

\* Fault: a turn that does not fit is skipped, and older ones are still kept.
Keep_Skips(turn, selection, room) ==
  LET count == selection.count + TurnLength(turn)
  IN  IF selection.full \/ count > room
        THEN selection
        ELSE [messages |-> turn \o selection.messages, count |-> count, full |-> FALSE]

(* One round of the loop, which ends with the first turn that is too long. *)
Keep(turn, selection, room) ==
  LET count == selection.count + TurnLength(turn)
  IN  IF selection.full \/ count > room
        THEN [selection EXCEPT !.full = TRUE]
        ELSE [messages |-> turn \o selection.messages, count |-> count, full |-> FALSE]

(* What the loop over the turns, newest first, selects.                    *)
Selected(turns, room) ==
  LET after[i \in 0 .. Len(turns)] ==
        IF i = 0 THEN [messages |-> <<>>, count |-> CurrentLength, full |-> FALSE]
        ELSE Keep(turns[Len(turns) + 1 - i], after[i - 1], room)
  IN  after[Len(turns)]

AssembleContext(stored, pastTurnLimit, characterLimit) ==
  [messages  |-> Selected(Candidates(PriorTurns(stored), pastTurnLimit),
                          characterLimit).messages,
   completed |-> Len(stored) \div 2]

------------------------------------------------------------------------------
\* The newest k turns of a conversation, and their messages.
Newest(c, k) == SubSeq(History(c), TurnsIn(c) - k + 1, TurnsIn(c))

Dialogue(turns) ==
  [i \in 1 .. 2 * Len(turns) |->
     [turn |-> turns[(i + 1) \div 2], role |-> IF i % 2 = 1 THEN "user" ELSE "assistant"]]

Characters(turns) == CurrentLength + 2 * Total([i \in 1 .. Len(turns) |-> Length[turns[i]]])

(***************************************************************************)
(* Whatever other turns are in the middle of, the context is made of whole *)
(* turns, each question before its answer; it is the longest run of newest *)
(* turns within both limits, with no gap; and the turns that are counted   *)
(* against the limit are those the conversation has.  Grouping in twos     *)
(* relies on the store: half a turn, or two turns interleaved, would pair  *)
(* every later question with somebody else's answer.                       *)
(***************************************************************************)
ContextIsNewestTurns ==
  \A c \in Conversations, limits \in Limits :
    LET limit   == limits[1]
        room    == limits[2]
        context == AssembleContext(StoredHistory(c), limit, room)
        stored  == IF row[c] = "live" THEN TurnsIn(c) ELSE 0
        fitting == {k \in 0 .. Min({stored, limit}) :
                      k = 0 \/ Characters(Newest(c, k)) <= room}
    IN  /\ context.completed = stored
        /\ context.messages = Dialogue(Newest(c, Max(fitting)))
==============================================================================
