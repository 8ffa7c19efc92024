--------------------------- MODULE WebConversation ---------------------------
(***************************************************************************)
(* The browser's side of a conversation: the reducer of                    *)
(* chat/conversation-state.ts and the requests, effects and session        *)
(* storage of chat/use-conversation.ts.                                    *)
(*                                                                         *)
(* Handlers, stream events and effects run one at a time on the page's     *)
(* event loop.  A request keeps the conversation id of the moment it was   *)
(* made; its events go to whatever state the page is in when they arrive.  *)
(* React runs the effect that saves the session some time after the        *)
(* dispatch that changed the state, but before the next click.             *)
(*                                                                         *)
(* A turn is its assistant message, which carries the status; the user's   *)
(* message is always the one before it.  The API is external: it answers   *)
(* 404 to a conversation that is gone, creates one for a request without,  *)
(* stores a turn before it ends the stream, and may fail at any point.     *)
(***************************************************************************)
EXTENDS Integers, Sequences, FiniteSets

CONSTANTS
  Turns,          \* submitted messages, by pendingId
  Conversations,
  None,           \* null
  Hazards         \* what may happen, see AllHazards

AllHazards == {"expiry",      \* the API forgets a conversation
               "reload",      \* the page is loaded again
               "reset",       \* New chat is clicked while a request runs
               "latebreak"}   \* a stream breaks after its message_end while
                              \* another request runs

ASSUME WebAssumption ==
  /\ None \notin Conversations
  /\ Hazards \subseteq AllHazards

VARIABLES
  conversationId, messages, requestState,   \* ConversationState
  unsaved,       \* the saving effect has to run
  savedId,       \* session storage: maas_conversation_id
  savedMessages, \* session storage: maas_conversation_transcript, <<>> for none
  request,       \* request[t]: the call of requestTurn for the turn
  known,         \* of each conversation: "unused", "live" or "gone" at the API
  stored         \* <<c, t>>: the API has stored turn t in conversation c

state   == <<conversationId, messages, requestState>>
session == <<savedId, savedMessages>>
api     == <<known, stored>>
vars    == <<state, unsaved, session, request, api>>

\* Where a request is; draining is between message_end and the stream's end.
Waiting  == {"posting", "reposting"}
Open     == Waiting \union {"streaming", "answered"}
Stations == Open \union {"unused", "draining", "over"}

Running(t) == request[t].at \in Open

Shown == {messages[i].id : i \in 1 .. Len(messages)}

Init ==
  /\ conversationId = None /\ messages = <<>> /\ requestState = "idle"
  /\ unsaved = FALSE
  /\ savedId = None /\ savedMessages = <<>>
  /\ request = [t \in Turns |-> [at |-> "unused", conversation |-> None]]
  /\ known = [c \in Conversations |-> "unused"]
  /\ stored = {}

------------------------------------------------------------------------------
(* Building blocks.                                                        *)

Move(t, to) == request' = [request EXCEPT ![t].at = to]

\* messages.map over the message of the turn, if it is still there.
WithStatus(t, status) ==
  [i \in 1 .. Len(messages) |->
     IF messages[i].id = t THEN [messages[i] EXCEPT !.status = status] ELSE messages[i]]

\* Its index; a turn is on the page at most once.
Position(t) == CHOOSE i \in 1 .. Len(messages) : messages[i].id = t

\* Fault: only the id is removed.
ClearSaved_IdOnly == savedId' = None /\ UNCHANGED savedMessages

ClearSaved == savedId' = None /\ savedMessages' = <<>>

\* turn_failed; the API has no 404 for a request without conversation, so
\* clearConversation is never set.
TurnFailed(t) ==
  /\ messages' = WithStatus(t, "failed")
  /\ requestState' = "idle"
  /\ unsaved' = TRUE
  /\ Move(t, "over")
  /\ UNCHANGED conversationId

\* append_turn brings an expired conversation back.
Stores(some) ==
  /\ stored' = stored \union some
  /\ known' = [c \in Conversations |-> IF \E t \in Turns : <<c, t>> \in some
                                         THEN "live" ELSE known[c]]

\* What the API may still store of the requests that run.
MayStore(c, t) ==
  /\ Running(t) /\ request[t].conversation = c
  /\ request[t].at = "posting" => known[c] = "live"

Storable == {p \in Conversations \X Turns : MayStore(p[1], p[2])}

(* React runs pending effects before it handles a click.                   *)
Clickable == ~unsaved

Post(t) == request' = [request EXCEPT ![t] = [at |-> "posting", conversation |-> conversationId]]

------------------------------------------------------------------------------
(* The user.                                                               *)

Submit(t) ==
  /\ Clickable /\ requestState = "idle"
  /\ request[t].at = "unused"
  /\ messages' = Append(messages, [id |-> t, status |-> "pending"])
  /\ requestState' = "submitting"
  /\ unsaved' = TRUE
  /\ Post(t)
  /\ UNCHANGED <<conversationId, session, api>>

\* Fault: the retry button stays enabled while a request runs.
Retry_Anytime(t) ==
  /\ Clickable
  /\ \E i \in 1 .. Len(messages) : messages[i] = [id |-> t, status |-> "failed"]
  /\ messages' = WithStatus(t, "pending")
  /\ requestState' = "submitting"
  /\ unsaved' = TRUE
  /\ Post(t)
  /\ UNCHANGED <<conversationId, session, api>>

Retry(t) ==
  /\ Clickable /\ requestState = "idle"
  /\ \E i \in 1 .. Len(messages) : messages[i] = [id |-> t, status |-> "failed"]
  /\ messages' = WithStatus(t, "pending")
  /\ requestState' = "submitting"
  /\ unsaved' = TRUE
  /\ Post(t)
  /\ UNCHANGED <<conversationId, session, api>>

(* startNewConversation; nothing stops a request that runs.                *)
NewChat ==
  /\ Clickable /\ messages # <<>>
  /\ requestState # "idle" => "reset" \in Hazards
  /\ conversationId' = None /\ messages' = <<>> /\ requestState' = "idle"
  /\ ClearSaved
  /\ unsaved' = TRUE
  /\ UNCHANGED <<request, api>>

\* parseStoredTranscript: only turns that were complete are in the storage.
StoredTranscript ==
  [i \in 1 .. Len(savedMessages) |-> [id |-> savedMessages[i], status |-> "complete"]]

\* Fault: requests that were cut off are shown again as they were.
Reload_RestoresState ==
  /\ "reload" \in Hazards
  /\ request' = [t \in Turns |-> IF Running(t) \/ request[t].at = "draining"
                                   THEN [request[t] EXCEPT !.at = "over"] ELSE request[t]]
  /\ conversationId' = savedId
  /\ requestState' = "idle" /\ unsaved' = TRUE
  /\ UNCHANGED <<messages, session, api>>

(* The page loads again.  Requests are cut off, whatever the API makes of  *)
(* them; the first effect restores the session if both parts are there.    *)
Reload ==
  /\ "reload" \in Hazards
  /\ request' = [t \in Turns |-> IF Running(t) \/ request[t].at = "draining"
                                   THEN [request[t] EXCEPT !.at = "over"] ELSE request[t]]
  /\ \E some \in SUBSET Storable : Stores(some)
  /\ IF savedId # None /\ StoredTranscript # <<>>
       THEN conversationId' = savedId /\ messages' = StoredTranscript /\ UNCHANGED session
       ELSE conversationId' = None /\ messages' = <<>> /\ ClearSaved
  /\ requestState' = "idle" /\ unsaved' = TRUE

------------------------------------------------------------------------------
(* The saving effect.                                                      *)

(* completedTranscript: the completed turns before the first that is not.  *)
CompletedTranscript ==
  LET whole == {n \in 0 .. Len(messages) : \A i \in 1 .. n : messages[i].status = "complete"}
      n     == CHOOSE n \in whole : \A m \in whole : m <= n
  IN  [i \in 1 .. n |-> messages[i].id]

Save ==
  /\ unsaved
  /\ unsaved' = FALSE
  /\ IF conversationId = None THEN ClearSaved
     ELSE IF CompletedTranscript # <<>>
       THEN savedId' = conversationId /\ savedMessages' = CompletedTranscript
       ELSE UNCHANGED session
  /\ UNCHANGED <<state, request, api>>

------------------------------------------------------------------------------
(* The answer of the API.                                                  *)

\* Fault: the old turns stay on the page.
NotFound_KeepsTurns(t) ==
  /\ request[t].at = "posting" /\ request[t].conversation # None
  /\ known[request[t].conversation] = "gone"
  /\ ClearSaved
  /\ conversationId' = None
  /\ request' = [request EXCEPT ![t] = [at |-> "reposting", conversation |-> None]]
  /\ unsaved' = TRUE
  /\ UNCHANGED <<messages, requestState, api>>

(* 404: the conversation is forgotten, only the pending turn stays on the  *)
(* page, and the message is posted again without a conversation.           *)
NotFound(t) ==
  /\ request[t].at = "posting" /\ request[t].conversation # None
  /\ known[request[t].conversation] = "gone"
  /\ ClearSaved
  /\ conversationId' = None
  /\ messages' = IF t \in Shown THEN <<messages[Position(t)]>> ELSE messages
  /\ request' = [request EXCEPT ![t] = [at |-> "reposting", conversation |-> None]]
  /\ unsaved' = TRUE
  /\ UNCHANGED <<requestState, api>>

(* Any other status, or no answer.                                         *)
PostFails(t) ==
  /\ request[t].at \in Waiting
  /\ TurnFailed(t)
  /\ UNCHANGED <<session, api>>

(* message_start, in the conversation of the request or in a new one.      *)
MessageStart(t) ==
  /\ request[t].at \in Waiting
  /\ \E c \in Conversations :
       /\ IF request[t].conversation = None
            THEN known[c] = "unused"
            ELSE c = request[t].conversation /\ known[c] = "live"
       /\ known' = [known EXCEPT ![c] = "live"]
       /\ request' = [request EXCEPT ![t] = [at |-> "streaming", conversation |-> c]]
       /\ conversationId' = c
       /\ savedId' = c
  /\ requestState' = "streaming"
  /\ unsaved' = TRUE
  /\ UNCHANGED <<messages, savedMessages, stored>>

(* The API stores the turn, also in a conversation that expired meanwhile. *)
Store(t) ==
  /\ request[t].at = "streaming"
  /\ Stores({<<request[t].conversation, t>>})
  /\ Move(t, "answered")
  /\ UNCHANGED <<state, unsaved, session>>

\* Fault: the effect that saves does not depend on the messages.
MessageEnd_Unnoticed(t) ==
  /\ request[t].at = "answered"
  /\ messages' = WithStatus(t, "complete")
  /\ requestState' = "idle"
  /\ Move(t, "draining")
  /\ UNCHANGED <<conversationId, unsaved, session, api>>

MessageEnd(t) ==
  /\ request[t].at = "answered"
  /\ messages' = WithStatus(t, "complete")
  /\ requestState' = "idle"
  /\ unsaved' = TRUE
  /\ Move(t, "draining")
  /\ UNCHANGED <<conversationId, session, api>>

\* Fault: a broken stream is only logged.
StreamFails_Silent(t) ==
  /\ request[t].at \in {"streaming", "answered"}
  /\ Move(t, "over")
  /\ UNCHANGED <<state, unsaved, session, api>>

(* An error event, or the stream ends or breaks without message_end.       *)
StreamFails(t) ==
  /\ request[t].at \in {"streaming", "answered"}
  /\ TurnFailed(t)
  /\ UNCHANGED <<session, api>>

(* The stream ends after message_end, or breaks: then the catch reports    *)
(* a failure of the turn that was complete, and unlocks the composer of a  *)
(* page that has sent the next one since.                                  *)
StreamEnds(t) ==
  /\ request[t].at = "draining"
  /\ \/ /\ Move(t, "over")
        /\ UNCHANGED <<state, unsaved>>
     \/ /\ "latebreak" \in Hazards \/ \A q \in Turns : ~Running(q)
        /\ TurnFailed(t)
  /\ UNCHANGED <<session, api>>

Expire(c) ==
  /\ "expiry" \in Hazards
  /\ known[c] = "live"
  /\ known' = [known EXCEPT ![c] = "gone"]
  /\ UNCHANGED <<state, unsaved, session, request, stored>>

------------------------------------------------------------------------------
Answer(t) ==
  NotFound(t) \/ PostFails(t) \/ MessageStart(t) \/ Store(t) \/ MessageEnd(t)
    \/ StreamFails(t) \/ StreamEnds(t)

Next ==
  \/ \E t \in Turns : Submit(t) \/ Retry(t) \/ Answer(t)
  \/ NewChat
  \/ Reload
  \/ Save
  \/ \E c \in Conversations : Expire(c)

(* Requests are answered, fail or time out, and React runs its effects.    *)
Fairness ==
  /\ \A t \in Turns : WF_vars(Answer(t))
  /\ WF_vars(Save)

Spec     == Init /\ [][Next]_vars
FairSpec == Spec /\ Fairness

------------------------------------------------------------------------------
(* Types of the variables; a saved transcript always has an id.            *)
TypeOK ==
  /\ conversationId \in Conversations \union {None}
  /\ messages \in Seq([id : Turns, status : {"pending", "complete", "failed"}])
  /\ requestState \in {"idle", "submitting", "streaming"}
  /\ unsaved \in BOOLEAN
  /\ savedId \in Conversations \union {None}
  /\ savedMessages \in Seq(Turns)
  /\ savedMessages # <<>> => savedId # None
  /\ request \in [Turns -> [at : Stations, conversation : Conversations \union {None}]]
  /\ known \in [Conversations -> {"unused", "live", "gone"}]
  /\ stored \subseteq Conversations \X Turns

(***************************************************************************)
(* The page is one conversation: every answer it shows as complete is part *)
(* of the conversation the next message continues, so that the assistant   *)
(* remembers what the visitor reads.                                       *)
(***************************************************************************)
TranscriptIsConversation ==
  requestState = "idle" =>
    \A i \in 1 .. Len(messages) :
      messages[i].status = "complete" => <<conversationId, messages[i].id>> \in stored

(***************************************************************************)
(* The same of the session storage: a transcript there never lacks its id, *)
(* and belongs to it, although the two keys are written at different times *)
(* by the stream and by the effect.                                        *)
(***************************************************************************)
SavedIsConversation ==
  \A i \in 1 .. Len(savedMessages) : <<savedId, savedMessages[i]>> \in stored

(***************************************************************************)
(* A reload between two turns restores what the page shows as answered, up *)
(* to the first turn that failed, in the same conversation: stream, effect *)
(* and stale sessions never leave the storage behind the page.             *)
(***************************************************************************)
Answered(n) == \A i \in 1 .. n : messages[i].status = "complete"

ReloadKeepsAnswers ==
  [][Reload /\ requestState = "idle" /\ ~unsaved =>
       \A n \in 1 .. Len(messages) :
         Answered(n) => conversationId' = conversationId
                        /\ SubSeq(messages', 1, n) = SubSeq(messages, 1, n)]_vars

(***************************************************************************)
(* Whatever happens, an answer that is shown as pending is still on its    *)
(* way: no message says "Thinking" for ever.                               *)
(***************************************************************************)
PendingIsRunning ==
  \A i \in 1 .. Len(messages) :
    messages[i].status = "pending" => Running(messages[i].id)

(***************************************************************************)
(* The composer is locked while a request runs: two turns of a page never  *)
(* race for the same conversation.                                         *)
(***************************************************************************)
OneRequestAtATime ==
  /\ Cardinality({t \in Turns : Running(t)}) <= 1
  /\ requestState = "idle" => \A t \in Turns : ~Running(t)

(***************************************************************************)
(* The composer is not locked for ever.                                    *)
(***************************************************************************)
ComposerUnlocks == requestState # "idle" ~> requestState = "idle"
==============================================================================
