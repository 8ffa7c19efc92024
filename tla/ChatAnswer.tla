------------------------------ MODULE ChatAnswer ------------------------------
(***************************************************************************)
(* What happens between the two model calls of a turn, and while the       *)
(* second one streams: chat/types.py validates the classification,         *)
(* stream_turn retrieves, stream_response of chat/application.py decides   *)
(* what the answer may be generated from, and chat/model.py reads the      *)
(* stream chunk by chunk.  The steps are those of ChatService with one     *)
(* variable more, and the chunks, which ChatService does not see.          *)
(*                                                                         *)
(* The model is external: it classifies in any way, invalid ones included, *)
(* and a chunk may report the usage up to it: only the last one            *)
(* ("include_usage"), others too, as some OpenAI-compatible providers do,  *)
(* or others and not the last, if a provider breaks off.                   *)
(***************************************************************************)
EXTENDS ChatService

CONSTANTS
  Documents,        \* those of the instance's index
  Classifications   \* conversation types that the model gives in this instance

Types == {"evidence_required", "conversation", "irrelevant", "discuss_in_person",
          "inappropriate"}

ASSUME AnswerAssumption == Classifications \subseteq Types

VARIABLE
  generation   \* of each request while its answer is generated

answerVars == <<vars, generation>>

(* The structured answers of the classifying model.                        *)
Answers == [type : Classifications, query : {"null", "blank", "text"}]

(* MessageClassification: a query is not blank, and only questions that    *)
(* require evidence have one.                                              *)
Accepted(answer) ==
  /\ answer.query # "blank"
  /\ answer.type = "evidence_required" <=> answer.query = "text"

(* retrieve, which finds what it finds, is called if there is a query.     *)
Retrievable(answer) == IF answer.query = "null" THEN {{}} ELSE SUBSET Documents

\* Fault: the lack of documents is not noticed.
Policy_NoDowngrade(answer, documents) == answer.type

(* Without documents an answer must not claim to rest on evidence.         *)
Policy(answer, documents) ==
  IF answer.type = "evidence_required" /\ documents = {}
    THEN "discuss_in_person" ELSE answer.type

CurrentMessageOnly == {"irrelevant", "discuss_in_person", "inappropriate"}

NoGeneration == [policy |-> "none", history |-> FALSE, documents |-> {},
                 spent |-> 0, reported |-> 0, final |-> FALSE]
Raised == [NoGeneration EXCEPT !.policy = "raised"]

(* What stream_response gives to the model, or that it raises: documents   *)
(* for a message that is not to have any, or an evidence prompt without a  *)
(* query.                                                                  *)
Prepared(answer, documents) ==
  LET policy == Policy(answer, documents)
  IN  IF \/ answer.type # "evidence_required" /\ documents # {}
         \/ policy = "evidence_required" /\ answer.query = "null"
      THEN Raised
      ELSE [NoGeneration EXCEPT !.policy = policy,
                                !.history = policy \notin CurrentMessageOnly,
                                !.documents = documents]

\* Fault: the first usage that is reported is kept.
WithUsage_First(g) ==
  [g EXCEPT !.reported = IF @ = 0 THEN g.spent ELSE @, !.final = TRUE]

(* The newest chunk carries the usage up to it.                            *)
WithUsage(g) == [g EXCEPT !.reported = g.spent, !.final = TRUE]

------------------------------------------------------------------------------
(* The classification is valid: the answer is prepared and its stream      *)
(* begins.                                                                 *)
Route(r) ==
  /\ Classify(r)
  /\ \E answer \in Answers :
       /\ Accepted(answer)
       /\ \E documents \in Retrievable(answer) :
            generation' = [generation EXCEPT ![r] = Prepared(answer, documents)]

(* A chunk: a unit of tokens more, with or without a report, or a report   *)
(* alone.                                                                  *)
Chunk(r) ==
  /\ pc[r] = "generating"
  /\ generation[r].policy # "raised"
  /\ \/ /\ generation[r].spent < MaxTokens
        /\ LET g == [generation[r] EXCEPT !.spent = @ + 1, !.final = FALSE]
           IN  \E next \in {g, WithUsage(g)} :
                 generation' = [generation EXCEPT ![r] = next]
     \/ /\ generation[r].spent > 0
        /\ generation' = [generation EXCEPT ![r] = WithUsage(@)]
  /\ UNCHANGED vars

(* The stream ends and has reported something: the newest report is what   *)
(* the answer is charged.  A stream without one raises, as TurnFails has it. *)
EndStream(r) ==
  /\ generation[r].reported # 0
  /\ FinishGeneration(r)
  /\ usage'[r] = generation[r].reported
  /\ generation' = [generation EXCEPT ![r] = NoGeneration]

(* Every other step of ChatService; whatever ends a generation, its        *)
(* locals are gone.                                                        *)
Elsewhere ==
  /\ SameDay
  /\ \A r \in Requests : pc'[r] \in {"generating", "appending"} => pc[r] = pc'[r]
  /\ generation' = [r \in Requests |-> IF pc'[r] = "generating" THEN generation[r]
                                       ELSE NoGeneration]

AnswerInit == Init /\ generation = [r \in Requests |-> NoGeneration]

NextDay == Midnight /\ UNCHANGED generation

AnswerNext ==
  \/ \E r \in Requests : Route(r) \/ Chunk(r) \/ EndStream(r)
  \/ Elsewhere
  \/ NextDay

AnswerSpec == AnswerInit /\ [][AnswerNext]_answerVars

(* A stream ends, or its time-out fails it, however many chunks it has.     *)
FairAnswerSpec == AnswerSpec /\ Fairness

------------------------------------------------------------------------------
(***************************************************************************)
(* Whatever the model classifies and retrieval finds, preparing the answer *)
(* does not raise, an evidence prompt has documents and nobody else has,   *)
(* and a refusal sees nothing of the conversation but the message.         *)
(***************************************************************************)
RouteIsSound ==
  \A r \in Requests :
    pc[r] = "generating" =>
      LET g == generation[r]
      IN  /\ g.policy \in Types
          /\ g.documents # {} <=> g.policy = "evidence_required"
          /\ g.history <=> g.policy \in {"evidence_required", "conversation"}

(***************************************************************************)
(* No answer is accepted uncharged, none is charged for more than it used, *)
(* and if its last chunk reports the usage, it is charged for all of it,   *)
(* whatever the provider has reported along the way.                       *)
(***************************************************************************)
FinalUsageCharged ==
  [][\A r \in Requests :
       pc[r] = "generating" /\ pc'[r] = "appending" =>
         /\ cost'[r] \in 1 .. generation[r].spent
         /\ generation[r].final => cost'[r] = generation[r].spent]_answerVars
==============================================================================
