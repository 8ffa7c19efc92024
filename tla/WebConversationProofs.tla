------------------------- MODULE WebConversationProofs -------------------------
(***************************************************************************)
(* What the page of a visitor keeps in agreement, for any number of turns  *)
(* and conversations, with failures, retries, expiry and reloads.          *)
(*                                                                         *)
(* The argument is that one request runs at a time and that the            *)
(* conversation on the page is that request's, so what the stream writes   *)
(* into the page belongs there. New chat while a request runs breaks just  *)
(* this, and so does a stream that breaks after its message_end while the  *)
(* next request runs; the theorems that need neither to happen say so.     *)
(***************************************************************************)
EXTENDS WebConversation, FiniteSetTheorems, WellFoundedInduction, TLAPS

Statuses == {"pending", "complete", "failed"}
Bubble   == [id : Turns, status : Statuses]

(* A function over 1 .. n is a sequence of its values.                     *)
LEMMA IsSequence ==
  ASSUME NEW S, NEW n \in Nat, NEW f, f = [i \in 1 .. n |-> f[i]],
         \A i \in 1 .. n : f[i] \in S
  PROVE  f \in Seq(S) /\ Len(f) = n
  <1>1. f \in [1 .. n -> S]
    OBVIOUS
  <1>2. QED
    BY <1>1

(* messages.map changes the status of one turn.                            *)
LEMMA StatusOfOne ==
  ASSUME TypeOK, NEW t \in Turns, NEW status \in Statuses, messages' = WithStatus(t, status)
  PROVE  /\ messages' \in Seq(Bubble) /\ Len(messages') = Len(messages)
         /\ \A i \in 1 .. Len(messages) :
              /\ messages'[i].id = messages[i].id
              /\ messages'[i].status = IF messages[i].id = t THEN status ELSE messages[i].status
  <1>1. messages \in Seq(Bubble) /\ Len(messages) \in Nat
    BY DEF TypeOK, Bubble, Statuses
  <1>2. \A i \in 1 .. Len(messages) : messages[i] \in Bubble
    BY <1>1
  <1>3. messages' = [i \in 1 .. Len(messages) |->
                       IF messages[i].id = t THEN [messages[i] EXCEPT !.status = status]
                       ELSE messages[i]]
    BY DEF WithStatus
  <1>4. ASSUME NEW i \in 1 .. Len(messages)
        PROVE  /\ messages'[i] \in Bubble /\ messages'[i].id = messages[i].id
               /\ messages'[i].status = IF messages[i].id = t THEN status ELSE messages[i].status
    BY <1>2, <1>3 DEF Bubble
  <1>5. messages' = [i \in 1 .. Len(messages) |-> messages'[i]]
    BY <1>3
  <1>6. messages' \in Seq(Bubble) /\ Len(messages') = Len(messages)
    BY <1>1, <1>4, <1>5, IsSequence
  <1>7. QED
    BY <1>4, <1>6

(* The completed turns before the first that is not: there is a longest    *)
(* run of them.                                                            *)
LEMMA LongestRun ==
  ASSUME TypeOK
  PROVE  \E n \in 0 .. Len(messages) :
           Answered(n) /\ \A m \in 0 .. Len(messages) : Answered(m) => m <= n
  <1> DEFINE T == {i \in 1 .. Len(messages) : messages[i].status # "complete"}
                    \union {Len(messages) + 1}
             L == OpToRel(<, Nat)
  <1>1. Len(messages) \in Nat
    BY DEF TypeOK
  <1>2. IsWellFoundedOn(L, Nat)
    BY NatLessThanWellFounded
  <1>3. T \subseteq Nat /\ T # {}
    BY <1>1
  <1>4. ASSUME NEW x \in T, NEW y \in T, <<y, x>> \notin L PROVE ~(y < x)
    BY <1>3, <1>4 DEF OpToRel
  <1> HIDE DEF L, T
  <1>5. \E x \in T : \A y \in T : <<y, x>> \notin L
    BY <1>2, <1>3, WFMin, Zenon
  <1>6. PICK x \in T : \A y \in T : ~(y < x)
    BY <1>4, <1>5
  <1> USE DEF T
  <1>7. x \in Nat /\ x >= 1 /\ x <= Len(messages) + 1 /\ x - 1 \in 0 .. Len(messages)
    BY <1>1
  <1>8. ASSUME NEW i \in 1 .. x - 1 PROVE messages[i].status = "complete"
    <2>1. i \in 1 .. Len(messages) /\ i < x
      BY <1>1, <1>7
    <2>2. QED
      BY <1>6, <2>1
  <1>9. ASSUME NEW m \in 0 .. Len(messages), Answered(m) PROVE m <= x - 1
    <2>1. SUFFICES ASSUME m > x - 1 PROVE FALSE
      BY <1>1, <1>7
    <2>2. x \in 1 .. m /\ x # Len(messages) + 1
      BY <1>1, <1>7, <2>1
    <2>3. QED
      BY <1>9, <2>2 DEF Answered
  <1>10. QED
    BY <1>7, <1>8, <1>9 DEF Answered

(* What completedTranscript returns.                                       *)
LEMMA TranscriptToSave ==
  ASSUME TypeOK
  PROVE  \E n \in 0 .. Len(messages) :
           /\ Answered(n) /\ \A m \in 0 .. Len(messages) : Answered(m) => m <= n
           /\ CompletedTranscript = [i \in 1 .. n |-> messages[i].id]
           /\ CompletedTranscript \in Seq(Turns) /\ Len(CompletedTranscript) = n
  <1> DEFINE whole == {n \in 0 .. Len(messages) :
                         \A i \in 1 .. n : messages[i].status = "complete"}
             n == CHOOSE n \in whole : \A m \in whole : m <= n
  <1>1. Len(messages) \in Nat /\ \A i \in 1 .. Len(messages) : messages[i] \in Bubble
    <2>1. messages \in Seq(Bubble)
      BY DEF TypeOK, Bubble, Statuses
    <2>2. QED
      BY <2>1
  <1>2. \E k \in whole : \A m \in whole : m <= k
    BY LongestRun DEF Answered
  <1>3. n \in whole /\ \A m \in whole : m <= n
    BY <1>2
  <1>4. CompletedTranscript = [i \in 1 .. n |-> messages[i].id]
    BY DEF CompletedTranscript
  <1>5. n \in 0 .. Len(messages) /\ Answered(n)
        /\ \A m \in 0 .. Len(messages) : Answered(m) => m <= n
    BY <1>3 DEF Answered
  <1> HIDE DEF n, whole
  <1>6. \A i \in 1 .. n : i \in 1 .. Len(messages)
    BY <1>1, <1>5
  <1>7. \A i \in 1 .. n : messages[i].id \in Turns
    BY <1>1, <1>6 DEF Bubble
  <1>8. \A i \in 1 .. n : CompletedTranscript[i] \in Turns
    BY <1>4, <1>7
  <1>9. CompletedTranscript = [i \in 1 .. n |-> CompletedTranscript[i]]
    BY <1>4
  <1>10. CompletedTranscript \in Seq(Turns) /\ Len(CompletedTranscript) = n
    BY <1>1, <1>5, <1>8, <1>9, IsSequence
  <1>11. QED
    BY <1>4, <1>5, <1>10

(* What parseStoredTranscript returns.                                     *)
LEMMA TranscriptRestored ==
  ASSUME TypeOK
  PROVE  /\ StoredTranscript \in Seq(Bubble) /\ Len(StoredTranscript) = Len(savedMessages)
         /\ \A i \in 1 .. Len(savedMessages) :
              StoredTranscript[i].id = savedMessages[i] /\ StoredTranscript[i].status = "complete"
  <1>1. Len(savedMessages) \in Nat /\ \A i \in 1 .. Len(savedMessages) : savedMessages[i] \in Turns
    BY DEF TypeOK
  <1>2. StoredTranscript = [i \in 1 .. Len(savedMessages) |->
                              [id |-> savedMessages[i], status |-> "complete"]]
    BY DEF StoredTranscript
  <1>3. \A i \in 1 .. Len(savedMessages) :
          /\ StoredTranscript[i].id = savedMessages[i] /\ StoredTranscript[i].status = "complete"
          /\ StoredTranscript[i] \in Bubble
    BY <1>1, <1>2 DEF Bubble, Statuses
  <1>4. StoredTranscript = [i \in 1 .. Len(savedMessages) |-> StoredTranscript[i]]
    BY <1>2
  <1>5. QED
    BY <1>1, <1>3, <1>4, IsSequence
------------------------------------------------------------------------------
(* Types, and answers that are awaited.                                    *)

\* A stream belongs to a conversation.
Assigned ==
  \A t \in Turns : request[t].at \in {"streaming", "answered"} => request[t].conversation # None

LEMMA TypesInit == Init => TypeOK /\ Assigned
  <1> SUFFICES ASSUME Init PROVE TypeOK /\ Assigned
    OBVIOUS
  <1>1. <<>> \in Seq(Bubble) /\ <<>> \in Seq(Turns)
    OBVIOUS
  <1>2. QED
    BY <1>1 DEF Init, TypeOK, Assigned, Stations, Open, Waiting, Bubble, Statuses

\* What every step keeps besides the messages.
OtherTypes ==
  /\ conversationId \in Conversations \union {None}
  /\ requestState \in {"idle", "submitting", "streaming"}
  /\ unsaved \in BOOLEAN
  /\ request \in [Turns -> [at : Stations, conversation : Conversations \union {None}]]

SavedTypes ==
  /\ savedId \in Conversations \union {None}
  /\ savedMessages \in Seq(Turns)
  /\ savedMessages # <<>> => savedId # None

ApiTypes ==
  /\ known \in [Conversations -> {"unused", "live", "gone"}]
  /\ stored \subseteq Conversations \X Turns

LEMMA TypesAre == TypeOK <=> OtherTypes /\ messages \in Seq(Bubble) /\ SavedTypes /\ ApiTypes
  BY DEF TypeOK, OtherTypes, SavedTypes, ApiTypes, Bubble, Statuses

LEMMA TypesPrimed ==
  ASSUME OtherTypes', messages' \in Seq(Bubble), SavedTypes', ApiTypes'
  PROVE  TypeOK'
  BY DEF TypeOK, OtherTypes, SavedTypes, ApiTypes, Bubble, Statuses

LEMMA TypesStep ==
  ASSUME TypeOK, Assigned, [Next]_vars
  PROVE  TypeOK'
  <1>0. OtherTypes /\ messages \in Seq(Bubble) /\ SavedTypes /\ ApiTypes
    BY TypesAre
  <1> USE DEF OtherTypes, SavedTypes, ApiTypes, Stations, Open, Waiting
  <1>1. ASSUME NEW t \in Turns, Submit(t) PROVE TypeOK'
    <2>1. [id |-> t, status |-> "pending"] \in Bubble
      BY DEF Bubble, Statuses
    <2>2. messages' \in Seq(Bubble)
      BY <1>0, <1>1, <2>1 DEF Submit
    <2>3. OtherTypes' /\ SavedTypes' /\ ApiTypes'
      BY <1>0, <1>1 DEF Submit, Post, session, api
    <2>4. QED
      BY <2>2, <2>3, TypesPrimed
  <1>2. ASSUME NEW t \in Turns, Retry(t) PROVE TypeOK'
    <2>1. messages' \in Seq(Bubble)
      BY <1>2, StatusOfOne DEF Retry, Statuses
    <2>2. OtherTypes' /\ SavedTypes' /\ ApiTypes'
      BY <1>0, <1>2 DEF Retry, Post, session, api
    <2>3. QED
      BY <2>1, <2>2, TypesPrimed
  <1>3. ASSUME NewChat PROVE TypeOK'
    <2>1. messages' \in Seq(Bubble)
      BY <1>3 DEF NewChat
    <2>2. OtherTypes' /\ SavedTypes' /\ ApiTypes'
      BY <1>0, <1>3 DEF NewChat, ClearSaved, api
    <2>3. QED
      BY <2>1, <2>2, TypesPrimed
  <1>4. ASSUME Reload PROVE TypeOK'
    <2>1. messages' \in Seq(Bubble)
      <3>1. StoredTranscript \in Seq(Bubble) /\ <<>> \in Seq(Bubble)
        BY TranscriptRestored
      <3>2. messages' = StoredTranscript \/ messages' = <<>>
        BY <1>4 DEF Reload
      <3>3. QED
        BY <3>1, <3>2
    <2>2. SavedTypes' /\ conversationId' \in Conversations \union {None}
      <3>1. \/ conversationId' = savedId /\ UNCHANGED <<savedId, savedMessages>>
            \/ conversationId' = None /\ savedId' = None /\ savedMessages' = <<>>
        BY <1>4 DEF Reload, ClearSaved, session
      <3>2. <<>> \in Seq(Turns)
        OBVIOUS
      <3>3. CASE UNCHANGED <<savedId, savedMessages>>
        BY <1>0, <3>1, <3>3
      <3>4. CASE conversationId' = None /\ savedId' = None /\ savedMessages' = <<>>
        BY <3>2, <3>4
      <3>5. QED
        BY <3>1, <3>3, <3>4
    <2>3. ApiTypes'
      <3>1. Storable \subseteq Conversations \X Turns
        BY DEF Storable
      <3>2. PICK some \in SUBSET Storable : Stores(some)
        BY <1>4 DEF Reload
      <3>3. QED
        BY <1>0, <3>1, <3>2 DEF Stores
    <2>4. OtherTypes'
      <3>1. \A t \in Turns : request'[t] = request[t] \/ request'[t] = [request[t] EXCEPT !.at = "over"]
        BY <1>4 DEF Reload
      <3>2. request' = [t \in Turns |-> request'[t]]
        BY <1>4 DEF Reload
      <3>3. \A t \in Turns : request[t] \in [at : Stations, conversation : Conversations \union {None}]
        BY <1>0
      <3>4. \A t \in Turns : request'[t] \in [at : Stations, conversation : Conversations \union {None}]
        BY <3>1, <3>3
      <3>5. QED
        BY <1>4, <2>2, <3>2, <3>4 DEF Reload
    <2>5. QED
      BY <2>1, <2>2, <2>3, <2>4, TypesPrimed
  <1>5. ASSUME Save PROVE TypeOK'
    <2>1. CompletedTranscript \in Seq(Turns)
      BY TranscriptToSave
    <2>2. UNCHANGED <<conversationId, messages, requestState, request, known, stored>> /\ unsaved' = FALSE
      BY <1>5 DEF Save, state, api
    <2>3. \/ savedId' = None /\ savedMessages' = <<>>
          \/ savedId' = conversationId /\ conversationId # None /\ savedMessages' = CompletedTranscript
          \/ UNCHANGED <<savedId, savedMessages>>
      BY <1>5 DEF Save, ClearSaved, session
    <2>4. SavedTypes'
      <3>1. <<>> \in Seq(Turns)
        OBVIOUS
      <3>2. CASE savedId' = None /\ savedMessages' = <<>>
        BY <3>1, <3>2
      <3>3. CASE savedId' = conversationId /\ conversationId # None /\ savedMessages' = CompletedTranscript
        BY <1>0, <2>1, <3>3
      <3>4. CASE UNCHANGED <<savedId, savedMessages>>
        BY <1>0, <3>4
      <3>5. QED
        BY <2>3, <3>2, <3>3, <3>4
    <2>5. OtherTypes' /\ ApiTypes' /\ messages' \in Seq(Bubble)
      BY <1>0, <2>2
    <2>6. QED
      BY <2>4, <2>5, TypesPrimed
  <1>6. ASSUME NEW t \in Turns, NotFound(t) PROVE TypeOK'
    <2>1. messages' \in Seq(Bubble)
      <3>1. CASE t \in Shown
        <4>1. Position(t) \in 1 .. Len(messages)
          BY <3>1 DEF Shown, Position
        <4>2. messages[Position(t)] \in Bubble
          BY <1>0, <4>1
        <4>3. QED
          BY <1>6, <3>1, <4>2 DEF NotFound
      <3>2. CASE t \notin Shown
        BY <1>0, <1>6, <3>2 DEF NotFound
      <3>3. QED
        BY <3>1, <3>2
    <2>2. OtherTypes' /\ SavedTypes' /\ ApiTypes'
      BY <1>0, <1>6 DEF NotFound, ClearSaved, api
    <2>3. QED
      BY <2>1, <2>2, TypesPrimed
  <1>7. ASSUME NEW t \in Turns, PostFails(t) \/ StreamFails(t) \/ (StreamEnds(t) /\ TurnFailed(t))
        PROVE TypeOK'
    <2>1. TurnFailed(t) /\ UNCHANGED <<session, api>>
      BY <1>7 DEF PostFails, StreamFails, StreamEnds
    <2>2. messages' \in Seq(Bubble)
      BY <2>1, StatusOfOne DEF TurnFailed, Statuses
    <2>3. OtherTypes' /\ SavedTypes' /\ ApiTypes'
      BY <1>0, <2>1 DEF TurnFailed, Move, session, api
    <2>4. QED
      BY <2>2, <2>3, TypesPrimed
  <1>8. ASSUME NEW t \in Turns, StreamEnds(t), ~TurnFailed(t) PROVE TypeOK'
    <2>1. messages' = messages /\ SavedTypes' /\ ApiTypes'
      BY <1>0, <1>8 DEF StreamEnds, Move, state, session, api
    <2>2. OtherTypes'
      BY <1>0, <1>8 DEF StreamEnds, Move, state
    <2>3. QED
      BY <1>0, <2>1, <2>2, TypesPrimed
  <1>9. ASSUME NEW t \in Turns, MessageStart(t) PROVE TypeOK'
    <2>1. /\ messages' = messages /\ OtherTypes' /\ SavedTypes' /\ ApiTypes'
      BY <1>0, <1>9, WebAssumption DEF MessageStart
    <2>2. QED
      BY <1>0, <2>1, TypesPrimed
  <1>10. ASSUME NEW t \in Turns, Store(t) PROVE TypeOK'
    <2>1. request[t].conversation \in Conversations
      BY <1>0, <1>10 DEF Store, Assigned
    <2>2. messages' = messages /\ OtherTypes' /\ SavedTypes'
      BY <1>0, <1>10 DEF Store, Move, state, session
    <2>3. ApiTypes'
      BY <1>0, <1>10, <2>1 DEF Store, Stores
    <2>4. QED
      BY <1>0, <2>2, <2>3, TypesPrimed
  <1>11. ASSUME NEW t \in Turns, MessageEnd(t) PROVE TypeOK'
    <2>1. messages' \in Seq(Bubble)
      BY <1>11, StatusOfOne DEF MessageEnd, Statuses
    <2>2. OtherTypes' /\ SavedTypes' /\ ApiTypes'
      BY <1>0, <1>11 DEF MessageEnd, Move, session, api
    <2>3. QED
      BY <2>1, <2>2, TypesPrimed
  <1>12. ASSUME NEW c \in Conversations, Expire(c) PROVE TypeOK'
    <2>1. /\ messages' = messages /\ OtherTypes' /\ SavedTypes' /\ ApiTypes'
      BY <1>0, <1>12 DEF Expire, state, session
    <2>2. QED
      BY <1>0, <2>1, TypesPrimed
  <1>13. CASE UNCHANGED vars
    BY <1>13 DEF vars, state, session, api, TypeOK
  <1>14. QED
    BY <1>1, <1>2, <1>3, <1>4, <1>5, <1>6, <1>7, <1>8, <1>9, <1>10, <1>11, <1>12, <1>13
       DEF Next, Answer
LEMMA AssignedStep ==
  ASSUME TypeOK, Assigned, [Next]_vars
  PROVE  Assigned'
  <1>1. request \in [Turns -> [at : Stations, conversation : Conversations \union {None}]]
    BY DEF TypeOK
  <1>2. SUFFICES ASSUME NEW q \in Turns, request'[q].at \in {"streaming", "answered"}
                 PROVE  request'[q].conversation # None
    BY DEF Assigned
  <1> USE DEF Assigned
  <1>3. CASE UNCHANGED request
    BY <1>2, <1>3
  <1>4. CASE NewChat \/ Save \/ UNCHANGED vars
    BY <1>3, <1>4 DEF NewChat, Save, vars
  <1>5. CASE Reload
    BY <1>2, <1>5 DEF Reload
  <1>6. ASSUME NEW c \in Conversations, Expire(c) PROVE request'[q].conversation # None
    BY <1>3, <1>6 DEF Expire
  <1>7. ASSUME NEW t \in Turns, Submit(t) \/ Retry(t) PROVE request'[q].conversation # None
    BY <1>1, <1>2, <1>7 DEF Submit, Retry, Post
  <1>8. ASSUME NEW t \in Turns, NotFound(t) PROVE request'[q].conversation # None
    BY <1>1, <1>2, <1>8 DEF NotFound
  <1>9. ASSUME NEW t \in Turns, MessageStart(t) PROVE request'[q].conversation # None
    BY <1>1, <1>2, <1>9, WebAssumption DEF MessageStart
  <1>10. ASSUME NEW t \in Turns, PostFails(t) \/ StreamFails(t) \/ StreamEnds(t) \/ MessageEnd(t)
         PROVE  request'[q].conversation # None
    <2>1. Move(t, "over") \/ Move(t, "draining")
      BY <1>10 DEF PostFails, StreamFails, StreamEnds, MessageEnd, TurnFailed
    <2>2. QED
      BY <1>1, <1>2, <2>1 DEF Move
  <1>11. ASSUME NEW t \in Turns, Store(t) PROVE request'[q].conversation # None
    BY <1>1, <1>2, <1>11 DEF Store, Move
  <1>12. QED
    BY <1>4, <1>5, <1>6, <1>7, <1>8, <1>9, <1>10, <1>11 DEF Next, Answer

LEMMA AlwaysTyped == Spec => [](TypeOK /\ Assigned)
  BY TypesInit, TypesStep, AssignedStep, PTL DEF Spec

(* The types of the page, its storage and its requests.                    *)
THEOREM WebTypes == Spec => []TypeOK
  BY AlwaysTyped, PTL
------------------------------------------------------------------------------
(* Every message that is shown as pending has a request.                   *)

\* The turn is on the page after a step as it was before.
Kept(i) == \E j \in 1 .. Len(messages) : messages'[i] = messages[j]

LEMMA NotFoundKeeps ==
  ASSUME TypeOK, NEW t \in Turns, NotFound(t), NEW i \in 1 .. Len(messages')
  PROVE  Kept(i)
  <1>1. CASE t \in Shown
    <2>1. Position(t) \in 1 .. Len(messages)
      BY <1>1 DEF Shown, Position
    <2>2. messages' = <<messages[Position(t)]>>
      BY <1>1 DEF NotFound
    <2>3. messages'[i] = messages[Position(t)]
      BY <2>2
    <2>4. QED
      BY <2>1, <2>3 DEF Kept
  <1>2. CASE t \notin Shown
    BY <1>2 DEF NotFound, Kept
  <1>3. QED
    BY <1>1, <1>2

LEMMA PendingStep ==
  ASSUME TypeOK, PendingIsRunning, [Next]_vars
  PROVE  PendingIsRunning'
  <1>0. /\ Len(messages) \in Nat /\ \A i \in 1 .. Len(messages) : messages[i].id \in Turns
        /\ request \in [Turns -> [at : Stations, conversation : Conversations \union {None}]]
    <2>1. messages \in Seq(Bubble)
      BY DEF TypeOK, Bubble, Statuses
    <2>2. \A i \in 1 .. Len(messages) : messages[i] \in Bubble
      BY <2>1
    <2>3. QED
      BY <2>1, <2>2 DEF TypeOK, Bubble
  <1> SUFFICES ASSUME NEW i \in 1 .. Len(messages'), messages'[i].status = "pending"
               PROVE  Running(messages[i].id)'
    BY DEF PendingIsRunning
  <1> USE DEF Running, Open, Waiting
  <1>1. CASE messages' = messages /\ \A q \in Turns : Running(q) => Running(q)'
    BY <1>0, <1>1 DEF PendingIsRunning
  <1>2. CASE Save \/ UNCHANGED vars \/ \E c \in Conversations : Expire(c)
    BY <1>1, <1>2 DEF Save, Expire, vars, state
  <1>3. ASSUME NEW t \in Turns, MessageStart(t) \/ Store(t) \/ (StreamEnds(t) /\ ~TurnFailed(t))
        PROVE  Running(messages[i].id)'
    BY <1>0, <1>1, <1>3 DEF MessageStart, Store, StreamEnds, Move, state
  <1>4. ASSUME NEW t \in Turns, Submit(t) PROVE Running(messages[i].id)'
    <2>1. /\ messages' = Append(messages, [id |-> t, status |-> "pending"])
          /\ request' = [request EXCEPT ![t] = [at |-> "posting", conversation |-> conversationId]]
      BY <1>4 DEF Submit, Post
    <2>2. Running(t)'
      BY <1>0, <2>1
    <2>3. CASE i = Len(messages) + 1
      BY <1>0, <2>1, <2>2, <2>3
    <2>4. CASE i # Len(messages) + 1
      <3>1. i \in 1 .. Len(messages) /\ messages'[i] = messages[i]
        BY <1>0, <2>1, <2>4
      <3>2. Running(messages[i].id)
        BY <3>1 DEF PendingIsRunning
      <3>3. QED
        BY <1>0, <2>1, <3>1, <3>2
    <2>5. QED
      BY <2>3, <2>4
  <1>5. ASSUME NEW t \in Turns, Retry(t) PROVE Running(messages[i].id)'
    <2>1. /\ Len(messages') = Len(messages)
          /\ messages'[i].id = messages[i].id
          /\ messages'[i].status = IF messages[i].id = t THEN "pending" ELSE messages[i].status
      BY <1>5, StatusOfOne DEF Retry, Statuses
    <2>2. request' = [request EXCEPT ![t] = [at |-> "posting", conversation |-> conversationId]]
      BY <1>5 DEF Retry, Post
    <2>3. QED
      BY <1>0, <2>1, <2>2 DEF PendingIsRunning
  <1>6. CASE NewChat
    BY <1>6 DEF NewChat
  <1>7. CASE Reload
    <2>1. \A j \in 1 .. Len(StoredTranscript) : StoredTranscript[j].status = "complete"
      BY TranscriptRestored
    <2>2. messages' = StoredTranscript \/ messages' = <<>>
      BY <1>7 DEF Reload
    <2>3. QED
      BY <2>1, <2>2
  <1>8. ASSUME NEW t \in Turns, NotFound(t) PROVE Running(messages[i].id)'
    <2>1. PICK j \in 1 .. Len(messages) : messages'[i] = messages[j]
      BY <1>8, NotFoundKeeps DEF Kept
    <2>2. request' = [request EXCEPT ![t] = [at |-> "reposting", conversation |-> None]]
      BY <1>8 DEF NotFound
    <2>3. QED
      BY <1>0, <2>1, <2>2 DEF PendingIsRunning
  <1>9. ASSUME NEW t \in Turns, NEW done \in Statuses \ {"pending"}, NEW to,
               messages' = WithStatus(t, done), request' = [request EXCEPT ![t].at = to]
        PROVE  Running(messages[i].id)'
    <2>1. /\ Len(messages') = Len(messages)
          /\ messages'[i].id = messages[i].id
          /\ messages'[i].status = IF messages[i].id = t THEN done ELSE messages[i].status
      BY <1>9, StatusOfOne
    <2>2. messages[i].id # t /\ messages[i].status = "pending"
      BY <2>1
    <2>3. QED
      BY <1>0, <1>9, <2>1, <2>2 DEF PendingIsRunning
  <1>10. ASSUME NEW t \in Turns, TurnFailed(t) PROVE Running(messages[i].id)'
    BY <1>9, <1>10 DEF TurnFailed, Move, Statuses
  <1>11. ASSUME NEW t \in Turns, MessageEnd(t) PROVE Running(messages[i].id)'
    BY <1>9, <1>11 DEF MessageEnd, Move, Statuses
  <1>12. ASSUME NEW t \in Turns, PostFails(t) \/ StreamFails(t) PROVE TurnFailed(t)
    BY <1>12 DEF PostFails, StreamFails
  <1>13. QED
    BY <1>2, <1>3, <1>4, <1>5, <1>6, <1>7, <1>8, <1>10, <1>11, <1>12 DEF Next, Answer

(* A message never says "Thinking" without a request that runs, also if    *)
(* New chat is clicked in between (use-conversation.ts:51-181).            *)
THEOREM WebPendingIsRunning == Spec => []PendingIsRunning
  <1>1. Init => PendingIsRunning
    BY DEF Init, PendingIsRunning
  <1>2. QED
    BY <1>1, PendingStep, AlwaysTyped, PTL DEF Spec
------------------------------------------------------------------------------
(* One request at a time.                                                  *)

\* Who waits for answers, with streams that break only while he waits.
Orderly == Hazards \intersect {"reset", "latebreak"} = {}

OneRunning ==
  /\ \A t, q \in Turns : Running(t) /\ Running(q) => t = q
  /\ requestState = "idle" => \A t \in Turns : ~Running(t)

\* The conversation on the page is the one of the request that runs.
Current ==
  \A t \in Turns : Running(t) =>
    /\ request[t].conversation = conversationId
    /\ request[t].at = "answered" => <<conversationId, t>> \in stored

\* What the visitor waits for is on the page, as pending.
Awaited ==
  \A t \in Turns : Running(t) =>
    /\ t \in Shown
    /\ \A i \in 1 .. Len(messages) : messages[i].id = t => messages[i].status = "pending"

\* A message that was never posted is nowhere.
Fresh ==
  \A t \in Turns : request[t].at = "unused" =>
    /\ \A i \in 1 .. Len(messages) : messages[i].id # t
    /\ \A i \in 1 .. Len(savedMessages) : savedMessages[i] # t

\* TranscriptIsConversation, also while a request runs.
WholePage ==
  \A i \in 1 .. Len(messages) :
    messages[i].status = "complete" => <<conversationId, messages[i].id>> \in stored

WholeSession ==
  /\ SavedIsConversation
  /\ savedMessages # <<>> => savedId = conversationId

\* When the effect has run, a reload finds what the page shows.
Synced ==
  ~unsaved /\ conversationId # None /\ CompletedTranscript # <<>> =>
    savedId = conversationId /\ savedMessages = CompletedTranscript

PageInv ==
  /\ TypeOK /\ Assigned
  /\ OneRunning /\ Current /\ Awaited /\ Fresh
  /\ WholePage /\ WholeSession /\ Synced

RequestType == [at : Stations, conversation : Conversations \union {None}]

LEMMA PageFacts ==
  ASSUME TypeOK
  PROVE  /\ messages \in Seq(Bubble) /\ Len(messages) \in Nat
         /\ \A i \in 1 .. Len(messages) :
              messages[i] \in Bubble /\ messages[i].id \in Turns /\ messages[i].status \in Statuses
         /\ request \in [Turns -> RequestType]
         /\ stored \subseteq Conversations \X Turns
         /\ Len(savedMessages) \in Nat
  <1>1. messages \in Seq(Bubble)
    BY DEF TypeOK, Bubble, Statuses
  <1>2. \A i \in 1 .. Len(messages) : messages[i] \in Bubble
    BY <1>1
  <1>3. QED
    BY <1>1, <1>2 DEF TypeOK, Bubble, RequestType

\* The four ways in which a step ends or begins something on the page.
Begins(t) ==
  /\ \A q \in Turns : ~Running(q)
  /\ requestState' # "idle"
  /\ request' = [request EXCEPT ![t] = [at |-> "posting", conversation |-> conversationId]]
  /\ UNCHANGED <<conversationId, savedId, savedMessages, stored, known>>

LEMMA BeginStep ==
  ASSUME PageInv, NEW t \in Turns, Submit(t) \/ Retry(t)
  PROVE  Begins(t)
  BY DEF PageInv, OneRunning, Running, Open, Submit, Retry, Clickable, Post, Begins, session, api

LEMMA OneRunningStep ==
  ASSUME PageInv, [Next]_vars, Orderly
  PROVE  OneRunning' /\ Current'
  <1>0. request \in [Turns -> RequestType] /\ stored \subseteq Conversations \X Turns
    BY PageFacts DEF PageInv
  <1> USE DEF OneRunning, Current, Running, Open, Waiting
  <1>1. CASE UNCHANGED <<request, requestState, conversationId, stored>>
    BY <1>1 DEF PageInv
  <1>2. CASE Save \/ UNCHANGED vars \/ \E c \in Conversations : Expire(c)
    BY <1>1, <1>2 DEF Save, Expire, vars, state, api
  <1>3. ASSUME NEW t \in Turns, Submit(t) \/ Retry(t) PROVE OneRunning' /\ Current'
    <2>1. Begins(t)
      BY <1>3, BeginStep
    <2>2. QED
      BY <1>0, <2>1 DEF Begins
  <1>4. CASE NewChat
    <2>1. /\ requestState = "idle" /\ requestState' = "idle" /\ UNCHANGED request
      BY <1>4 DEF NewChat, Orderly
    <2>2. QED
      BY <2>1 DEF PageInv
  <1>5. CASE Reload
    <2>1. \A q \in Turns : ~Running(q)'
      BY <1>0, <1>5 DEF Reload, RequestType
    <2>2. QED
      BY <2>1
  <1>6. ASSUME NEW t \in Turns, NotFound(t) PROVE OneRunning' /\ Current'
    <2>1. /\ request' = [request EXCEPT ![t] = [at |-> "reposting", conversation |-> None]]
          /\ conversationId' = None /\ UNCHANGED <<requestState, stored>> /\ request[t].at = "posting"
      BY <1>6 DEF NotFound, api
    <2>2. QED
      BY <1>0, <2>1 DEF PageInv
  <1>7. ASSUME NEW t \in Turns, NEW to \in {"over", "draining"}, requestState' = "idle",
               Running(t) \/ \A q \in Turns : ~Running(q),
               request' = [request EXCEPT ![t].at = to]
        PROVE OneRunning' /\ Current'
    <2>1. \A q \in Turns : ~Running(q)'
      BY <1>0, <1>7 DEF PageInv, RequestType
    <2>2. QED
      BY <1>7, <2>1
  <1>8. ASSUME NEW t \in Turns, PostFails(t) \/ StreamFails(t) \/ MessageEnd(t)
                                 \/ (StreamEnds(t) /\ TurnFailed(t))
        PROVE OneRunning' /\ Current'
    <2>1. (Running(t) \/ \A q \in Turns : ~Running(q)) /\ requestState' = "idle"
      <3>1. CASE PostFails(t) \/ StreamFails(t) \/ MessageEnd(t)
        BY <3>1 DEF PostFails, StreamFails, MessageEnd, TurnFailed
      <3>2. CASE StreamEnds(t) /\ TurnFailed(t)
        <4>1. request'[t].at = "over" /\ request[t].at = "draining"
          BY <1>0, <3>2 DEF StreamEnds, TurnFailed, Move, RequestType
        <4>2. CASE \A q \in Turns : ~Running(q)
          BY <3>2, <4>2 DEF TurnFailed
        <4>3. CASE messages' = messages /\ requestState' = requestState
          BY <3>2, <4>3 DEF TurnFailed, PageInv
        <4>4. QED
          BY <3>2, <4>2, <4>3 DEF StreamEnds, state, Orderly
      <3>3. QED
        BY <1>8, <3>1, <3>2
    <2>2. \E to \in {"over", "draining"} : request' = [request EXCEPT ![t].at = to]
      BY <1>8 DEF PostFails, StreamFails, MessageEnd, StreamEnds, TurnFailed, Move
    <2>3. QED
      BY <1>7, <2>1, <2>2
  <1>9. ASSUME NEW t \in Turns, StreamEnds(t), ~TurnFailed(t) PROVE OneRunning' /\ Current'
    <2>1. /\ request[t].at = "draining" /\ request' = [request EXCEPT ![t].at = "over"]
          /\ UNCHANGED <<requestState, conversationId, stored>>
      BY <1>9 DEF StreamEnds, Move, state, api
    <2>2. QED
      BY <1>0, <2>1 DEF PageInv, RequestType
  <1>10. ASSUME NEW t \in Turns, MessageStart(t) PROVE OneRunning' /\ Current'
    <2>1. PICK c \in Conversations :
            /\ request' = [request EXCEPT ![t] = [at |-> "streaming", conversation |-> c]]
            /\ conversationId' = c /\ request[t].at \in Waiting /\ requestState' = "streaming"
      BY <1>10 DEF MessageStart
    <2>2. QED
      BY <1>0, <2>1 DEF PageInv
  <1>11. ASSUME NEW t \in Turns, Store(t) PROVE OneRunning' /\ Current'
    <2>1. /\ request[t].at = "streaming" /\ request' = [request EXCEPT ![t].at = "answered"]
          /\ UNCHANGED <<requestState, conversationId>>
          /\ stored' = stored \union {<<request[t].conversation, t>>}
      BY <1>11 DEF Store, Stores, Move, state
    <2>2. OneRunning'
      BY <1>0, <2>1 DEF PageInv, RequestType
    <2>3. \A q \in Turns \ {t} : ~Running(q)'
      BY <1>0, <2>1 DEF PageInv, RequestType
    <2>4. request[t].conversation = conversationId /\ request'[t].conversation = conversationId
      BY <1>0, <2>1 DEF PageInv, RequestType
    <2>5. QED
      BY <2>1, <2>2, <2>3, <2>4
  <1>12. QED
    BY <1>2, <1>3, <1>4, <1>5, <1>6, <1>8, <1>9, <1>10, <1>11 DEF Next, Answer

LEMMA AwaitedStep ==
  ASSUME PageInv, OneRunning', [Next]_vars, Orderly
  PROVE  Awaited'
  <1>0. /\ Len(messages) \in Nat /\ request \in [Turns -> RequestType]
        /\ \A i \in 1 .. Len(messages) : messages[i].id \in Turns
    BY PageFacts DEF PageInv
  <1> USE DEF Awaited, Running, Open, Waiting
  <1>1. CASE messages' = messages /\ \A q \in Turns : Running(q)' => Running(q)
    BY <1>1 DEF PageInv, Shown
  <1>2. CASE \A q \in Turns : ~Running(q)'
    BY <1>2
  <1>3. CASE requestState' = "idle"
    BY <1>2, <1>3 DEF OneRunning
  <1>4. CASE Save \/ UNCHANGED vars \/ \E c \in Conversations : Expire(c)
    BY <1>1, <1>4 DEF Save, Expire, vars, state
  <1>5. CASE NewChat \/ Reload
    BY <1>3, <1>5 DEF NewChat, Reload
  <1>6. ASSUME NEW t \in Turns, PostFails(t) \/ StreamFails(t) \/ MessageEnd(t)
                                 \/ (StreamEnds(t) /\ TurnFailed(t))
        PROVE  Awaited'
    BY <1>3, <1>6 DEF PostFails, StreamFails, MessageEnd, StreamEnds, TurnFailed
  <1>7. ASSUME NEW t \in Turns, MessageStart(t) \/ Store(t) \/ (StreamEnds(t) /\ ~TurnFailed(t))
        PROVE  Awaited'
    BY <1>0, <1>1, <1>7 DEF MessageStart, Store, StreamEnds, Move, state, RequestType
  <1>8. ASSUME NEW t \in Turns, NEW i \in 1 .. Len(messages'), messages'[i].id = t, Running(t)',
               \A j \in 1 .. Len(messages') : messages'[j].id = t => messages'[j].status = "pending"
        PROVE  Awaited'
    <2>1. \A q \in Turns : Running(q)' => q = t
      BY <1>8 DEF OneRunning
    <2>2. t \in Shown'
      BY <1>8 DEF Shown
    <2>3. QED
      BY <1>8, <2>1, <2>2
  <1>9. ASSUME NEW t \in Turns, Submit(t) PROVE Awaited'
    <2>1. messages' = Append(messages, [id |-> t, status |-> "pending"]) /\ request[t].at = "unused"
      BY <1>9 DEF Submit
    <2>2. /\ Len(messages') = Len(messages) + 1
          /\ messages'[Len(messages) + 1] = [id |-> t, status |-> "pending"]
          /\ \A j \in 1 .. Len(messages) : messages'[j] = messages[j]
      BY <1>0, <2>1
    <2>3. \A j \in 1 .. Len(messages) : messages[j].id # t
      BY <2>1 DEF PageInv, Fresh
    <2>4. \A j \in 1 .. Len(messages') : j \in 1 .. Len(messages) \/ j = Len(messages) + 1
      BY <1>0, <2>2
    <2>5. Running(t)'
      BY <1>0, <1>9, BeginStep DEF Begins, RequestType
    <2>6. Len(messages) + 1 \in 1 .. Len(messages')
      BY <1>0, <2>2
    <2>7. QED
      BY <1>8, <2>2, <2>3, <2>4, <2>5, <2>6
  <1>10. ASSUME NEW t \in Turns, Retry(t) PROVE Awaited'
    <2>1. /\ Len(messages') = Len(messages)
          /\ \A i \in 1 .. Len(messages) :
               /\ messages'[i].id = messages[i].id
               /\ messages'[i].status = IF messages[i].id = t THEN "pending" ELSE messages[i].status
      BY <1>10, StatusOfOne DEF Retry, Statuses, PageInv
    <2>2. PICK i \in 1 .. Len(messages) : messages[i] = [id |-> t, status |-> "failed"]
      BY <1>10 DEF Retry
    <2>3. Running(t)'
      BY <1>0, <1>10, BeginStep DEF Begins, RequestType
    <2>4. messages'[i].id = t
      BY <2>1, <2>2
    <2>5. QED
      BY <1>8, <2>1, <2>2, <2>3, <2>4
  <1>11. ASSUME NEW t \in Turns, NotFound(t) PROVE Awaited'
    <2>1. t \in Shown /\ \A i \in 1 .. Len(messages) : messages[i].id = t => messages[i].status = "pending"
      BY <1>11 DEF NotFound, PageInv
    <2>2. Position(t) \in 1 .. Len(messages) /\ messages[Position(t)].id = t
      BY <2>1 DEF Shown, Position
    <2>3. messages' = <<messages[Position(t)]>>
      BY <1>11, <2>1 DEF NotFound
    <2>4. Len(messages') = 1 /\ messages'[1].id = t /\ messages'[1].status = "pending"
      BY <2>1, <2>2, <2>3
    <2>5. Running(t)'
      BY <1>0, <1>11 DEF NotFound
    <2>6. 1 \in 1 .. Len(messages') /\ \A j \in 1 .. Len(messages') : j = 1
      BY <2>4
    <2>7. QED
      BY <1>8, <2>4, <2>5, <2>6
  <1>12. QED
    BY <1>4, <1>5, <1>6, <1>7, <1>9, <1>10, <1>11 DEF Next, Answer

\* Requests are not taken back.
LEMMA UnusedBefore ==
  ASSUME TypeOK, [Next]_vars, NEW q \in Turns, request'[q].at = "unused"
  PROVE  request[q].at = "unused"
  <1>1. request \in [Turns -> RequestType]
    BY PageFacts
  <1>2. CASE UNCHANGED request
    BY <1>2
  <1>3. CASE NewChat \/ Save \/ UNCHANGED vars \/ \E c \in Conversations : Expire(c)
    BY <1>2, <1>3 DEF NewChat, Save, Expire, vars
  <1>4. CASE Reload
    BY <1>1, <1>4 DEF Reload, RequestType
  <1>5. ASSUME NEW t \in Turns, Submit(t) \/ Retry(t) \/ NotFound(t) \/ MessageStart(t)
        PROVE  request[q].at = "unused"
    BY <1>1, <1>5 DEF Submit, Retry, NotFound, MessageStart, Post
  <1>6. ASSUME NEW t \in Turns, PostFails(t) \/ StreamFails(t) \/ StreamEnds(t) \/ MessageEnd(t) \/ Store(t)
        PROVE  request[q].at = "unused"
    <2>1. Move(t, "over") \/ Move(t, "draining") \/ Move(t, "answered")
      BY <1>6 DEF PostFails, StreamFails, StreamEnds, MessageEnd, Store, TurnFailed
    <2>2. QED
      BY <1>1, <2>1 DEF Move, RequestType
  <1>7. QED
    BY <1>3, <1>4, <1>5, <1>6 DEF Next, Answer

LEMMA FreshStep ==
  ASSUME PageInv, [Next]_vars
  PROVE  Fresh'
  <1>0. /\ Len(messages) \in Nat /\ Len(savedMessages) \in Nat /\ TypeOK
        /\ request \in [Turns -> RequestType]
    BY PageFacts DEF PageInv
  <1> SUFFICES ASSUME NEW q \in Turns, request'[q].at = "unused"
               PROVE  /\ \A i \in 1 .. Len(messages') : messages'[i].id # q
                      /\ \A i \in 1 .. Len(savedMessages') : savedMessages'[i] # q
    BY DEF Fresh
  <1> DEFINE OffPage == \A i \in 1 .. Len(messages') : messages'[i].id # q
             OffSession == \A i \in 1 .. Len(savedMessages') : savedMessages'[i] # q
  <1>1. request[q].at = "unused"
    BY <1>0, UnusedBefore
  <1>2. /\ \A i \in 1 .. Len(messages) : messages[i].id # q
        /\ \A i \in 1 .. Len(savedMessages) : savedMessages[i] # q
    BY <1>1 DEF PageInv, Fresh
  <1>3. /\ messages' = messages => OffPage
        /\ savedMessages' = savedMessages => OffSession
        /\ messages' = <<>> => OffPage
        /\ savedMessages' = <<>> => OffSession
    BY <1>2
  <1>4. ASSUME NEW t \in Turns, NEW status \in Statuses, messages' = WithStatus(t, status)
        PROVE  OffPage
    BY <1>0, <1>2, <1>4, StatusOfOne
  <1>5. ASSUME NEW t \in Turns, Submit(t) PROVE OffPage /\ OffSession
    <2>1. messages' = Append(messages, [id |-> t, status |-> "pending"]) /\ savedMessages' = savedMessages
      BY <1>5 DEF Submit, session
    <2>2. t # q
      BY <1>0, <1>5 DEF Submit, Post
    <2>3. OffPage
      <3>1. \A i \in 1 .. Len(messages') : i \in 1 .. Len(messages) \/ i = Len(messages) + 1
        BY <1>0, <2>1
      <3>2. messages'[Len(messages) + 1].id = t /\ \A i \in 1 .. Len(messages) : messages'[i] = messages[i]
        BY <1>0, <2>1
      <3>3. QED
        BY <1>2, <2>2, <3>1, <3>2
    <2>4. QED
      BY <1>3, <2>1, <2>3
  <1>6. ASSUME NEW t \in Turns, Retry(t) \/ MessageEnd(t) \/ TurnFailed(t), UNCHANGED session
        PROVE  OffPage /\ OffSession
    BY <1>3, <1>4, <1>6 DEF Retry, MessageEnd, TurnFailed, session, Statuses
  <1>7. ASSUME NEW t \in Turns, Retry(t) \/ MessageEnd(t) \/ PostFails(t) \/ StreamFails(t)
                                 \/ (StreamEnds(t) /\ TurnFailed(t))
        PROVE  OffPage /\ OffSession
    BY <1>6, <1>7 DEF Retry, MessageEnd, PostFails, StreamFails, StreamEnds
  <1>8. ASSUME NEW t \in Turns, MessageStart(t) \/ Store(t) \/ (StreamEnds(t) /\ ~TurnFailed(t))
        PROVE  OffPage /\ OffSession
    BY <1>3, <1>8 DEF MessageStart, Store, StreamEnds, state, session
  <1>9. ASSUME NEW t \in Turns, NotFound(t) PROVE OffPage /\ OffSession
    <2>1. OffSession
      BY <1>3, <1>9 DEF NotFound, ClearSaved
    <2>2. OffPage
      BY <1>0, <1>2, <1>9, NotFoundKeeps DEF Kept
    <2>3. QED
      BY <2>1, <2>2
  <1>10. CASE NewChat
    BY <1>3, <1>10 DEF NewChat, ClearSaved
  <1>11. CASE Reload
    <2>1. \/ messages' = StoredTranscript /\ savedMessages' = savedMessages
          \/ messages' = <<>> /\ savedMessages' = <<>>
      BY <1>11 DEF Reload, ClearSaved, session
    <2>2. \A i \in 1 .. Len(StoredTranscript) : StoredTranscript[i].id # q
      BY <1>0, <1>2, TranscriptRestored
    <2>3. QED
      BY <1>3, <2>1, <2>2
  <1>12. CASE Save
    <2>1. PICK n \in 0 .. Len(messages) :
            CompletedTranscript = [i \in 1 .. n |-> messages[i].id] /\ Len(CompletedTranscript) = n
      BY <1>0, TranscriptToSave
    <2>2. \A i \in 1 .. Len(CompletedTranscript) : CompletedTranscript[i] # q
      BY <1>0, <1>2, <2>1
    <2>3. /\ messages' = messages
          /\ savedMessages' = <<>> \/ savedMessages' = CompletedTranscript \/ savedMessages' = savedMessages
      BY <1>12 DEF Save, ClearSaved, state, session
    <2>4. QED
      BY <1>3, <2>2, <2>3
  <1>13. CASE UNCHANGED vars \/ \E c \in Conversations : Expire(c)
    BY <1>3, <1>13 DEF Expire, vars, state, session
  <1>14. QED
    BY <1>5, <1>7, <1>8, <1>9, <1>10, <1>11, <1>12, <1>13 DEF Next, Answer
------------------------------------------------------------------------------
(* The page and the storage are parts of one conversation.                 *)

\* The API never loses a turn.
LEMMA StoredGrows ==
  ASSUME [Next]_vars
  PROVE  stored \subseteq stored'
  <1>1. CASE UNCHANGED stored
    BY <1>1
  <1>2. CASE NewChat \/ Save \/ UNCHANGED vars \/ \E c \in Conversations : Expire(c)
    BY <1>1, <1>2 DEF NewChat, Save, Expire, vars, api
  <1>3. CASE Reload
    BY <1>3 DEF Reload, Stores
  <1>4. ASSUME NEW t \in Turns, Store(t) PROVE stored \subseteq stored'
    BY <1>4 DEF Store, Stores
  <1>5. ASSUME NEW t \in Turns,
               Submit(t) \/ Retry(t) \/ NotFound(t) \/ PostFails(t) \/ MessageStart(t)
                 \/ MessageEnd(t) \/ StreamFails(t) \/ StreamEnds(t)
        PROVE  stored \subseteq stored'
    BY <1>1, <1>5 DEF Submit, Retry, NotFound, PostFails, MessageStart, MessageEnd, StreamFails,
       StreamEnds, api
  <1>6. QED
    BY <1>2, <1>3, <1>4, <1>5 DEF Next, Answer

\* Without a conversation nothing on the page is answered.
LEMMA NoneIsEmpty ==
  ASSUME PageInv, conversationId = None
  PROVE  /\ \A i \in 1 .. Len(messages) : messages[i].status # "complete"
         /\ savedMessages = <<>>
  <1>1. \A i \in 1 .. Len(messages) : messages[i].status # "complete"
    BY WebAssumption, PageFacts DEF PageInv, WholePage
  <1>2. savedMessages = <<>>
    BY DEF PageInv, TypeOK, WholeSession
  <1>3. QED
    BY <1>1, <1>2

\* message_start changes the page's conversation only if it had none.
LEMMA StartsHere ==
  ASSUME PageInv, NEW t \in Turns, MessageStart(t), conversationId # None
  PROVE  conversationId' = conversationId
  <1>1. request[t].conversation = conversationId
    BY DEF PageInv, Current, Running, Open, MessageStart
  <1>2. QED
    BY <1>1 DEF MessageStart

LEMMA PageStep ==
  ASSUME PageInv, [Next]_vars
  PROVE  WholePage'
  <1>0. TypeOK /\ Len(messages) \in Nat /\ stored \subseteq stored'
    BY PageFacts, StoredGrows DEF PageInv
  <1> USE DEF WholePage
  <1>1. CASE UNCHANGED <<messages, conversationId>>
    BY <1>0, <1>1 DEF PageInv
  <1>2. CASE Save \/ UNCHANGED vars \/ \E c \in Conversations : Expire(c)
    BY <1>1, <1>2 DEF Save, Expire, vars, state
  <1>3. ASSUME NEW t \in Turns, Store(t) \/ (StreamEnds(t) /\ ~TurnFailed(t)) PROVE WholePage'
    BY <1>1, <1>3 DEF Store, StreamEnds, state
  <1>4. ASSUME NEW t \in Turns, Submit(t) PROVE WholePage'
    <2>1. /\ messages' = Append(messages, [id |-> t, status |-> "pending"])
          /\ conversationId' = conversationId
      BY <1>4 DEF Submit
    <2>2. \A i \in 1 .. Len(messages') : i \in 1 .. Len(messages) \/ i = Len(messages) + 1
      BY <1>0, <2>1
    <2>3. messages'[Len(messages) + 1].status = "pending"
          /\ \A i \in 1 .. Len(messages) : messages'[i] = messages[i]
      BY <1>0, <2>1
    <2>4. QED
      BY <1>0, <2>1, <2>2, <2>3 DEF PageInv
  <1>5. ASSUME NEW t \in Turns, NEW status \in Statuses, messages' = WithStatus(t, status),
               conversationId' = conversationId,
               status = "complete" => <<conversationId, t>> \in stored
        PROVE  WholePage'
    <2>1. /\ Len(messages') = Len(messages)
          /\ \A i \in 1 .. Len(messages) :
               /\ messages'[i].id = messages[i].id
               /\ messages'[i].status = IF messages[i].id = t THEN status ELSE messages[i].status
      BY <1>0, <1>5, StatusOfOne
    <2>2. QED
      BY <1>0, <1>5, <2>1 DEF PageInv
  <1>6. ASSUME NEW t \in Turns, Retry(t) \/ PostFails(t) \/ StreamFails(t)
                                 \/ (StreamEnds(t) /\ TurnFailed(t))
        PROVE  WholePage'
    BY <1>5, <1>6 DEF Retry, PostFails, StreamFails, TurnFailed, Statuses
  <1>7. ASSUME NEW t \in Turns, MessageEnd(t) PROVE WholePage'
    <2>1. <<conversationId, t>> \in stored
      BY <1>7 DEF MessageEnd, PageInv, Current, Running, Open
    <2>2. QED
      BY <1>5, <1>7, <2>1 DEF MessageEnd, Statuses
  <1>8. ASSUME NEW t \in Turns, NotFound(t) PROVE WholePage'
    <2>1. t \in Shown /\ \A i \in 1 .. Len(messages) : messages[i].id = t => messages[i].status = "pending"
      BY <1>8 DEF NotFound, PageInv, Awaited, Running, Open, Waiting
    <2>2. Position(t) \in 1 .. Len(messages) /\ messages[Position(t)].id = t
      BY <2>1 DEF Shown, Position
    <2>3. messages' = <<messages[Position(t)]>>
      BY <1>8, <2>1 DEF NotFound
    <2>4. QED
      BY <2>1, <2>2, <2>3
  <1>9. ASSUME NEW t \in Turns, MessageStart(t) PROVE WholePage'
    <2>1. messages' = messages
      BY <1>9 DEF MessageStart
    <2>2. CASE conversationId = None
      BY <2>1, <2>2, NoneIsEmpty
    <2>3. CASE conversationId # None
      BY <1>1, <1>9, <2>1, <2>3, StartsHere
    <2>4. QED
      BY <2>2, <2>3
  <1>10. CASE NewChat
    BY <1>10 DEF NewChat
  <1>11. CASE Reload
    <2>1. \/ messages' = StoredTranscript /\ conversationId' = savedId
          \/ messages' = <<>>
      BY <1>11 DEF Reload
    <2>2. CASE messages' = StoredTranscript /\ conversationId' = savedId
      BY <1>0, <2>2, TranscriptRestored DEF PageInv, WholeSession, SavedIsConversation
    <2>3. CASE messages' = <<>>
      BY <2>3
    <2>4. QED
      BY <2>1, <2>2, <2>3
  <1>12. QED
    BY <1>2, <1>3, <1>4, <1>6, <1>7, <1>8, <1>9, <1>10, <1>11 DEF Next, Answer

LEMMA SessionStep ==
  ASSUME PageInv, [Next]_vars
  PROVE  WholeSession'
  <1>0. TypeOK /\ Len(messages) \in Nat /\ stored \subseteq stored'
    BY PageFacts, StoredGrows DEF PageInv
  <1> USE DEF WholeSession, SavedIsConversation
  <1>1. CASE UNCHANGED <<savedId, savedMessages, conversationId>>
    BY <1>0, <1>1 DEF PageInv
  <1>2. CASE savedMessages' = <<>>
    BY <1>2
  <1>3. CASE UNCHANGED vars \/ \E c \in Conversations : Expire(c)
    BY <1>1, <1>3 DEF Expire, vars, state, session
  <1>4. ASSUME NEW t \in Turns, Submit(t) \/ Retry(t) \/ PostFails(t) \/ StreamFails(t)
                                 \/ MessageEnd(t) \/ Store(t)
        PROVE  WholeSession'
    BY <1>1, <1>4 DEF Submit, Retry, PostFails, StreamFails, MessageEnd, Store, TurnFailed,
       state, session
  <1>5. ASSUME NEW t \in Turns, StreamEnds(t) PROVE WholeSession'
    BY <1>1, <1>5 DEF StreamEnds, TurnFailed, state, session
  <1>6. ASSUME NEW t \in Turns, NotFound(t) PROVE WholeSession'
    BY <1>2, <1>6 DEF NotFound, ClearSaved
  <1>7. ASSUME NEW t \in Turns, MessageStart(t) PROVE WholeSession'
    <2>1. savedMessages' = savedMessages /\ savedId' = conversationId'
      BY <1>7 DEF MessageStart
    <2>2. CASE conversationId = None
      BY <1>2, <2>1, <2>2, NoneIsEmpty
    <2>3. CASE conversationId # None
      <3>1. conversationId' = conversationId
        BY <1>7, <2>3, StartsHere
      <3>2. QED
        BY <1>0, <1>2, <2>1, <3>1 DEF PageInv
    <2>4. QED
      BY <2>2, <2>3
  <1>8. CASE NewChat
    BY <1>2, <1>8 DEF NewChat, ClearSaved
  <1>9. CASE Reload
    <2>1. \/ conversationId' = savedId /\ UNCHANGED <<savedId, savedMessages>>
          \/ savedMessages' = <<>>
      BY <1>9 DEF Reload, ClearSaved, session
    <2>2. QED
      BY <1>0, <1>2, <2>1 DEF PageInv
  <1>10. CASE Save
    <2>1. UNCHANGED <<conversationId, messages>>
      BY <1>10 DEF Save, state
    <2>2. \/ savedMessages' = <<>>
          \/ savedId' = conversationId /\ savedMessages' = CompletedTranscript
          \/ UNCHANGED <<savedId, savedMessages>>
      BY <1>10 DEF Save, ClearSaved, session
    <2>3. ASSUME savedId' = conversationId, savedMessages' = CompletedTranscript PROVE WholeSession'
      <3>1. PICK n \in 0 .. Len(messages) :
              /\ Answered(n) /\ CompletedTranscript = [i \in 1 .. n |-> messages[i].id]
              /\ Len(CompletedTranscript) = n
        BY <1>0, TranscriptToSave
      <3>2. \A i \in 1 .. n : <<conversationId, messages[i].id>> \in stored
        BY <1>0, <3>1 DEF Answered, PageInv, WholePage
      <3>3. QED
        BY <1>0, <2>1, <2>3, <3>1, <3>2
    <2>4. QED
      BY <1>1, <1>2, <2>1, <2>2, <2>3
  <1>11. QED
    BY <1>3, <1>4, <1>5, <1>6, <1>7, <1>8, <1>9, <1>10 DEF Next, Answer

LEMMA SyncedStep ==
  ASSUME PageInv, [Next]_vars
  PROVE  Synced'
  <1>1. CASE unsaved'
    BY <1>1 DEF Synced
  <1>2. CASE UNCHANGED <<unsaved, savedId, savedMessages, conversationId, messages>>
    BY <1>2 DEF PageInv, Synced, CompletedTranscript
  <1>3. CASE UNCHANGED vars \/ \E c \in Conversations : Expire(c)
    BY <1>2, <1>3 DEF Expire, vars, state, session
  <1>4. ASSUME NEW t \in Turns,
               Submit(t) \/ Retry(t) \/ NotFound(t) \/ PostFails(t) \/ StreamFails(t)
                 \/ MessageStart(t) \/ MessageEnd(t) \/ (StreamEnds(t) /\ TurnFailed(t))
        PROVE  Synced'
    BY <1>1, <1>4 DEF Submit, Retry, NotFound, PostFails, StreamFails, MessageStart, MessageEnd,
       TurnFailed
  <1>5. ASSUME NEW t \in Turns, Store(t) \/ (StreamEnds(t) /\ ~TurnFailed(t)) PROVE Synced'
    BY <1>2, <1>5 DEF Store, StreamEnds, state, session
  <1>6. CASE NewChat \/ Reload
    BY <1>1, <1>6 DEF NewChat, Reload
  <1>7. CASE Save
    <2>1. UNCHANGED <<conversationId, messages>>
      BY <1>7 DEF Save, state
    <2>2. CompletedTranscript' = CompletedTranscript
      BY <2>1 DEF CompletedTranscript
    <2>3. conversationId # None /\ CompletedTranscript # <<>> =>
            savedId' = conversationId /\ savedMessages' = CompletedTranscript
      BY <1>7 DEF Save
    <2>4. QED
      BY <2>1, <2>2, <2>3 DEF Synced
  <1>8. QED
    BY <1>3, <1>4, <1>5, <1>6, <1>7 DEF Next, Answer

LEMMA AlwaysPage == Orderly /\ Spec => []PageInv
  <1> SUFFICES ASSUME Orderly PROVE Spec => []PageInv
    OBVIOUS
  <1>1. Init => PageInv
    <2> SUFFICES ASSUME Init PROVE PageInv
      OBVIOUS
    <2>1. TypeOK /\ Assigned
      BY TypesInit
    <2>2. OneRunning /\ Current /\ Awaited /\ Fresh
      BY DEF Init, OneRunning, Current, Awaited, Fresh, Running, Open, Waiting
    <2>3. WholePage /\ WholeSession /\ Synced
      BY DEF Init, WholePage, WholeSession, SavedIsConversation, Synced
    <2>4. QED
      BY <2>1, <2>2, <2>3 DEF PageInv
  <1>2. PageInv /\ [Next]_vars => PageInv'
    <2> SUFFICES ASSUME PageInv, [Next]_vars PROVE PageInv'
      OBVIOUS
    <2>1. TypeOK' /\ Assigned'
      BY TypesStep, AssignedStep DEF PageInv
    <2>2. OneRunning' /\ Current'
      BY OneRunningStep
    <2>3. Awaited' /\ Fresh' /\ WholePage' /\ WholeSession' /\ Synced'
      BY <2>2, AwaitedStep, FreshStep, PageStep, SessionStep, SyncedStep
    <2>4. QED
      BY <2>1, <2>2, <2>3 DEF PageInv
  <1>3. QED
    BY <1>1, <1>2, PTL DEF Spec

(* Who waits for answers before starting a new chat has one request at a   *)
(* time, unless a stream breaks after its message_end behind the next one  *)
(* (use-conversation.ts:129-158, 163-207).                                 *)
THEOREM WebOneRequestAtATime == Orderly /\ Spec => []OneRequestAtATime
  <1> SUFFICES ASSUME Orderly PROVE Spec => []OneRequestAtATime
    OBVIOUS
  <1>1. ASSUME PageInv PROVE OneRequestAtATime
    <2> DEFINE running == {t \in Turns : Running(t)}
    <2>1. \A t, q \in running : t = q
      BY <1>1 DEF PageInv, OneRunning, Running
    <2>2. CASE running = {}
      <3>1. Cardinality(running) = 0
        BY <2>2, FS_EmptySet
      <3>2. QED
        BY <1>1, <3>1 DEF OneRequestAtATime, PageInv, OneRunning
    <2>3. CASE running # {}
      <3>1. PICK t \in running : TRUE
        BY <2>3
      <3>2. running = {t}
        BY <2>1, <3>1
      <3>3. Cardinality(running) = 1
        BY <3>2, FS_Singleton
      <3>4. QED
        BY <1>1, <3>3 DEF OneRequestAtATime, PageInv, OneRunning
    <2>4. QED
      BY <2>2, <2>3
  <1>2. QED
    BY <1>1, AlwaysPage, PTL

(* What such a visitor reads is the conversation that the next message     *)
(* continues, with the same exception (conversation-state.ts:70-167).      *)
THEOREM WebTranscriptIsConversation == Orderly /\ Spec => []TranscriptIsConversation
  <1> SUFFICES ASSUME Orderly PROVE Spec => []TranscriptIsConversation
    OBVIOUS
  <1>1. PageInv => TranscriptIsConversation
    BY DEF PageInv, WholePage, TranscriptIsConversation
  <1>2. QED
    BY <1>1, AlwaysPage, PTL

(* The session storage holds one conversation at every moment, its two     *)
(* keys written by the stream and by the effect                            *)
(* (use-conversation.ts:15-49, 107).                                       *)
THEOREM WebSavedIsConversation == Orderly /\ Spec => []SavedIsConversation
  <1> SUFFICES ASSUME Orderly PROVE Spec => []SavedIsConversation
    OBVIOUS
  <1>1. PageInv => SavedIsConversation
    BY DEF PageInv, WholeSession
  <1>2. QED
    BY <1>1, AlwaysPage, PTL

(* A reload between two turns brings back what was answered, up to the     *)
(* first failed turn (use-conversation.ts:20-49).                          *)
THEOREM WebReloadKeepsAnswers == Orderly /\ Spec => ReloadKeepsAnswers
  <1> SUFFICES ASSUME Orderly PROVE Spec => ReloadKeepsAnswers
    OBVIOUS
  <1>1. ASSUME PageInv, Reload, ~unsaved, NEW n \in 1 .. Len(messages), Answered(n)
        PROVE  conversationId' = conversationId /\ SubSeq(messages', 1, n) = SubSeq(messages, 1, n)
    <2>0. TypeOK /\ Len(messages) \in Nat
          /\ \A i \in 1 .. Len(messages) : messages[i] \in Bubble
      BY <1>1, PageFacts DEF PageInv
    <2>1. PICK m \in 0 .. Len(messages) :
            /\ n <= m
            /\ CompletedTranscript = [i \in 1 .. m |-> messages[i].id]
            /\ Len(CompletedTranscript) = m
      <3>1. n \in 0 .. Len(messages)
        BY <2>0
      <3>2. QED
        BY <1>1, <2>0, <3>1, TranscriptToSave
    <2>2. m >= 1 /\ CompletedTranscript # <<>>
      BY <2>0, <2>1
    <2>3. conversationId # None
      <3>1. messages[1].status = "complete" /\ 1 \in 1 .. Len(messages)
        BY <1>1, <2>0 DEF Answered
      <3>2. QED
        BY <1>1, <3>1, NoneIsEmpty
    <2>4. savedId = conversationId /\ savedMessages = CompletedTranscript
      BY <1>1, <2>2, <2>3 DEF PageInv, Synced
    <2>5. Len(StoredTranscript) = m /\ StoredTranscript \in Seq(Bubble)
          /\ \A i \in 1 .. m : /\ StoredTranscript[i] \in Bubble
                                /\ StoredTranscript[i].id = messages[i].id
                                /\ StoredTranscript[i].status = "complete"
      BY <2>0, <2>1, <2>4, TranscriptRestored
    <2>6. conversationId' = conversationId /\ messages' = StoredTranscript
      BY <1>1, <2>2, <2>3, <2>4, <2>5 DEF Reload
    <2>7. ASSUME NEW i \in 1 .. n PROVE StoredTranscript[i] = messages[i]
      <3>1. i \in 1 .. m /\ i \in 1 .. Len(messages)
        BY <2>0, <2>1
      <3>2. messages[i].status = "complete"
        BY <1>1 DEF Answered
      <3>3. QED
        BY <2>0, <2>5, <3>1, <3>2 DEF Bubble
    <2>8. SubSeq(StoredTranscript, 1, n) = SubSeq(messages, 1, n)
      BY <2>7
    <2>9. QED
      BY <2>6, <2>8
  <1>2. PageInv /\ [Next]_vars =>
          [Reload /\ requestState = "idle" /\ ~unsaved =>
             \A n \in 1 .. Len(messages) :
               Answered(n) => conversationId' = conversationId
                              /\ SubSeq(messages', 1, n) = SubSeq(messages, 1, n)]_vars
    BY <1>1
  <1>3. QED
    BY <1>2, AlwaysPage, PTL DEF Spec, ReloadKeepsAnswers
==============================================================================
