----------------------------- MODULE ChatService -----------------------------
(***************************************************************************)
(* One API process serving POST /api/v1/chat: api.py's handler and event   *)
(* stream, ChatWorkflow.stream_turn, Chat.stream_response, the usage       *)
(* limits, the usage ledger and the conversation store, for many requests  *)
(* at once on one event loop.                                              *)
(*                                                                         *)
(* Each request runs the same pipeline and suspends at every await of a    *)
(* service; one action is the code between two suspensions, named for the  *)
(* service call whose result it consumes:                                  *)
(*                                                                         *)
(*   opening    create or look up the conversation                         *)
(*   context    read the history, check the turn limit                     *)
(*   budget     read the ledger, check the daily budget                    *)
(*   classifying, generating   the two hosted-model calls                  *)
(*   appending  persist the turn (its usage waits in _usage_by_message)    *)
(*   recording  commit the popped usage to the ledger                      *)
(*   delivering send message_end, or return the JSON response              *)
(*   completing message_end is sent, the stream has not ended yet          *)
(*   salvaging  stream_turn's finally commits the usage of a failed turn   *)
(*   closing    the answer is settled, the lease is still held             *)
(*                                                                         *)
(* The gate is its specification, Admission; the rate limiter may refuse   *)
(* any request.  A client of an event stream may disconnect, which cancels *)
(* the request where it waits; requests for JSON are never cancelled.      *)
(*                                                                         *)
(* Durable selects the PostgreSQL store and ledger.  There a transaction   *)
(* whose caller fails, is cancelled or dies may have committed, or is left *)
(* adrift: it commits at any later time, or never.  The process may        *)
(* restart over the surviving tables, and conversations expire.  The       *)
(* in-memory store and ledger never suspend, so they cannot fail and a     *)
(* cancellation cannot reach a request inside them.                        *)
(***************************************************************************)
EXTENDS Integers, Sequences, FiniteSets

CONSTANTS
  Requests,        \* chat requests; a request is also the id of its message
  Conversations,   \* conversation ids the store can hand out
  NoConversation,  \* a request without conversation_id
  MaxActive, MaxQueued,
  MaxTurns,        \* MAAS_MAX_TURNS_PER_CONVERSATION
  Budget,          \* MAAS_DAILY_TOKEN_BUDGET
  MaxTokens,       \* most tokens one generation can use (prompt and output caps)
  LastDay,         \* bound on the calendar: days 0 .. LastDay
  Durable,         \* MAAS_CONVERSATION_STORE = postgres
  Faults           \* what the environment may do, see AllFaults

AllFaults == {"model", "store", "ledger", "disconnect", "restart", "expiry"}

ASSUME ServiceAssumption ==
  /\ IsFiniteSet(Requests)
  /\ NoConversation \notin Conversations
  /\ MaxActive \in Nat \ {0}
  /\ MaxQueued \in Nat
  /\ MaxTurns \in Nat \ {0}
  /\ Budget \in Nat \ {0}
  /\ MaxTokens \in Nat \ {0}
  /\ LastDay \in Nat
  /\ Durable \in BOOLEAN
  /\ Faults \subseteq IF Durable THEN AllFaults ELSE {"model", "disconnect"}

VARIABLES
  \* requests
  pc,        \* where the request is
  mode,      \* "json", or "stream" for application/x-ndjson
  target,    \* its conversation, once known
  boundary,  \* the UTC day whose start bounds the budget query
  bill,      \* usage popped for the ledger and not committed (yet)
  \* the process
  leases,    \* requests that hold a slot of the gate
  usage,     \* _usage_by_message, 0 for no entry
  \* the store and the ledger
  status,    \* of each conversation row
  history,   \* completed turns of each conversation, by message id
  spent,     \* spent[d]: tokens recorded on day d or later
  lateTurn,  \* of each request: its append has outlived its caller
  lateBill,  \* of each request: its record has outlived its caller
  today,     \* the UTC date
  \* what an observer sees
  reply,     \* what the client was told
  observed,  \* outcomes counted for the request by TrafficMonitor
  cost,      \* tokens reported for the request's finished generation, or 0
  billed     \* tokens the ledger has recorded for the request

requestVars == <<pc, mode, target, boundary, bill>>
storeVars   == <<status, history>>
ledgerVars  == <<spent, billed>>
lateVars    == <<lateTurn, lateBill>>
vars == <<pc, mode, target, boundary, bill, leases, usage, status, history,
          spent, lateTurn, lateBill, today, reply, observed, cost, billed>>

Days  == 0 .. LastDay
NoBill == [tokens |-> 0, day |-> 0]

(* The slots taken.  Every position between opening and closing has one.   *)
Working   == {"opening", "context", "budget", "classifying", "generating",
              "appending", "recording", "delivering", "completing", "salvaging",
              "closing"}
Positions == Working \union {"idle", "queued", "done"}
Outcomes  == {"cancelled", "completed", "failed", "queue_saturated",
              "rate_limited", "usage_limited"}
Fates     == {"none", "adrift", "landed"}
Replies   == {"none", "complete", "error", "limited", "busy", "not_found"}

Queued    == {r \in Requests : pc[r] = "queued"}
SlotFree  == Cardinality(leases) < MaxActive
QueueRoom == Cardinality(Queued) < MaxQueued

Known == {c \in Conversations : status[c] # "unused"}

\* A disconnection is all that tells the two response formats apart.
Modes == IF "disconnect" \in Faults THEN {"json", "stream"} ELSE {"json"}

\* Bound of the model: ids are left for the requests that will create one.
FreshIdLeft ==
  Cardinality({r \in Requests : pc[r] \in {"queued", "opening"} /\ target[r] = NoConversation})
    < Cardinality(Conversations \ Known)

Init ==
  /\ pc = [r \in Requests |-> "idle"]
  /\ mode = [r \in Requests |-> "json"]
  /\ target = [r \in Requests |-> NoConversation]
  /\ boundary = [r \in Requests |-> 0]
  /\ bill = [r \in Requests |-> NoBill]
  /\ leases = {}
  /\ usage = [r \in Requests |-> 0]
  /\ status = [c \in Conversations |-> "unused"]
  /\ history = [c \in Conversations |-> <<>>]
  /\ spent = [d \in 0 .. LastDay + 1 |-> 0]
  /\ lateTurn = [r \in Requests |-> "none"]
  /\ lateBill = [r \in Requests |-> "none"]
  /\ today = 0
  /\ reply = [r \in Requests |-> "none"]
  /\ observed = [r \in Requests |-> <<>>]
  /\ cost = [r \in Requests |-> 0]
  /\ billed = [r \in Requests |-> 0]

------------------------------------------------------------------------------
(* Building blocks of the steps.                                           *)

Goto(r, p)    == pc' = [pc EXCEPT ![r] = p]
Observe(r, o) == observed' = [observed EXCEPT ![r] = Append(@, o)]
Tell(r, what) == reply' = [reply EXCEPT ![r] = what]

\* The handler's answer is settled; the lease goes in a step of its own.
Settle(r, o, what) == Goto(r, "closing") /\ Observe(r, o) /\ Tell(r, what)

\* A failure inside the turn, as both response formats report it.
Failed(r) == Settle(r, "failed", "error")

\* The transaction of append_turn: the pair of messages goes to the end of
\* the history and the expiry moves, whether or not it had passed already.
StoreTurn(r) ==
  /\ history' = [history EXCEPT ![target[r]] = Append(@, r)]
  /\ status' = [status EXCEPT ![target[r]] = "live"]

\* The transaction of UsageLedger.record: the tokens are added to the row of
\* the stamped day, and so to every sum that starts on or before that day.
RecordBill(r) ==
  /\ spent' = [d \in DOMAIN spent |->
                 IF d <= bill[r].day THEN spent[d] + bill[r].tokens ELSE spent[d]]
  /\ billed' = [billed EXCEPT ![r] = @ + bill[r].tokens]

\* pop_usage, and the date that is stamped on the record.
PopUsage(r) ==
  /\ bill' = [bill EXCEPT ![r] = [tokens |-> usage[r], day |-> today]]
  /\ usage' = [usage EXCEPT ![r] = 0]

\* The popped pair is a local of _record_usage, gone when it returns or raises.
DropBill(r) == bill' = [bill EXCEPT ![r] = NoBill]

(* A transaction whose caller hears nothing definite of it: it has         *)
(* committed, or it is adrift.  One that never lands was rolled back.      *)
AppendUndecided(r) ==
  \/ StoreTurn(r) /\ UNCHANGED lateTurn
  \/ lateTurn' = [lateTurn EXCEPT ![r] = "adrift"] /\ UNCHANGED storeVars

RecordUndecided(r) ==
  \/ RecordBill(r) /\ DropBill(r) /\ UNCHANGED lateBill
  \/ /\ lateBill' = [lateBill EXCEPT ![r] = "adrift"]
     /\ UNCHANGED <<bill, ledgerVars>>

------------------------------------------------------------------------------
(* Arrival and admission.                                                  *)

(* The IP or the conversation's rate limiter refuses the request.          *)
RateLimit(r) ==
  /\ pc[r] = "idle"
  /\ Goto(r, "done") /\ Observe(r, "rate_limited") /\ Tell(r, "busy")
  /\ UNCHANGED <<mode, target, boundary, bill, leases, usage, storeVars,
                 ledgerVars, lateVars, today, cost>>

(* A request comes in, for a conversation some client knows or for a new   *)
(* one, and meets the gate: it gets a slot, queues, or is rejected.        *)
Arrive(r) ==
  /\ pc[r] = "idle"
  /\ \E m \in Modes : mode' = [mode EXCEPT ![r] = m]
  /\ \E c \in Known \union {NoConversation} :
       /\ c = NoConversation => FreshIdLeft
       /\ target' = [target EXCEPT ![r] = c]
  /\ \/ /\ SlotFree
        /\ Goto(r, "opening")
        /\ leases' = leases \union {r}
        /\ UNCHANGED <<observed, reply>>
     \/ /\ ~SlotFree /\ QueueRoom
        /\ Goto(r, "queued")
        /\ UNCHANGED <<leases, observed, reply>>
     \/ /\ ~SlotFree /\ ~QueueRoom
        /\ Goto(r, "done") /\ Observe(r, "queue_saturated") /\ Tell(r, "busy")
        /\ UNCHANGED leases
  /\ UNCHANGED <<boundary, bill, usage, storeVars, ledgerVars, lateVars, today, cost>>

(* The gate hands a slot to a waiting request.                             *)
Admit(r) ==
  /\ pc[r] = "queued"
  /\ SlotFree
  /\ Goto(r, "opening")
  /\ leases' = leases \union {r}
  /\ UNCHANGED <<mode, target, boundary, bill, usage, storeVars, ledgerVars,
                 lateVars, today, reply, observed, cost>>

\* Fault: the wait for a slot has no time limit.
QueueTimeout_Never(r) == FALSE

(* A waiting request reaches the queue timeout.                            *)
QueueTimeout(r) ==
  /\ pc[r] = "queued"
  /\ Goto(r, "done") /\ Observe(r, "queue_saturated") /\ Tell(r, "busy")
  /\ UNCHANGED <<mode, target, boundary, bill, leases, usage, storeVars,
                 ledgerVars, lateVars, today, cost>>

------------------------------------------------------------------------------
(* The turn.                                                               *)

(* create_conversation returns: a fresh row, valid from now on.            *)
CreateConversation(r) ==
  /\ pc[r] = "opening" /\ target[r] = NoConversation
  /\ \E c \in Conversations \ Known :
       /\ status' = [status EXCEPT ![c] = "live"]
       /\ target' = [target EXCEPT ![r] = c]
  /\ Goto(r, "context")
  /\ UNCHANGED <<mode, boundary, bill, leases, usage, history, ledgerVars,
                 lateVars, today, reply, observed, cost>>

(* conversation_exists returns true; an expired row does not count.        *)
FindConversation(r) ==
  /\ pc[r] = "opening" /\ target[r] # NoConversation
  /\ status[target[r]] = "live"
  /\ Goto(r, "context")
  /\ UNCHANGED <<mode, target, boundary, bill, leases, usage, storeVars,
                 ledgerVars, lateVars, today, reply, observed, cost>>

\* Fault: the not-found answer leaves the handler without its finally.
MissConversation_KeepsLease(r) ==
  /\ pc[r] = "opening" /\ target[r] # NoConversation
  /\ status[target[r]] # "live"
  /\ Goto(r, "done") /\ Tell(r, "not_found")
  /\ UNCHANGED <<mode, target, boundary, bill, leases, usage, storeVars,
                 ledgerVars, lateVars, today, observed, cost>>

(* conversation_exists returns false: 404, and no outcome is counted.      *)
MissConversation(r) ==
  /\ pc[r] = "opening" /\ target[r] # NoConversation
  /\ status[target[r]] # "live"
  /\ Goto(r, "closing") /\ Tell(r, "not_found")
  /\ UNCHANGED <<mode, target, boundary, bill, leases, usage, storeVars,
                 ledgerVars, lateVars, today, observed, cost>>

(* The store fails while the conversation is opened: status 500, and no    *)
(* outcome is counted either.  A row may have been created.                *)
OpeningFails(r) ==
  /\ pc[r] = "opening" /\ "store" \in Faults
  /\ Goto(r, "closing") /\ Tell(r, "error")
  /\ \/ UNCHANGED status
     \/ /\ target[r] = NoConversation
        /\ \E c \in Conversations \ Known : status' = [status EXCEPT ![c] = "live"]
  /\ UNCHANGED <<mode, target, boundary, bill, leases, usage, history,
                 ledgerVars, lateVars, today, observed, cost>>

\* What ConversationStore.history returns counts as this many turns.
TurnsRead(c) == IF status[c] = "live" THEN Len(history[c]) ELSE 0

\* Fault: the turn limit is compared with > instead of >=.
ReadHistory_OneMore(r) ==
  /\ pc[r] = "context"
  /\ IF TurnsRead(target[r]) > MaxTurns
       THEN /\ Settle(r, "usage_limited", "limited")
            /\ UNCHANGED boundary
       ELSE /\ Goto(r, "budget")
            /\ boundary' = [boundary EXCEPT ![r] = today]
            /\ UNCHANGED <<reply, observed>>
  /\ UNCHANGED <<mode, target, bill, leases, usage, storeVars, ledgerVars,
                 lateVars, today, cost>>

(* history returns: the context is assembled and the turn limit checked,   *)
(* and the day of the budget query is fixed, without a suspension.         *)
ReadHistory(r) ==
  /\ pc[r] = "context"
  /\ IF TurnsRead(target[r]) >= MaxTurns
       THEN /\ Settle(r, "usage_limited", "limited")
            /\ UNCHANGED boundary
       ELSE /\ Goto(r, "budget")
            /\ boundary' = [boundary EXCEPT ![r] = today]
            /\ UNCHANGED <<reply, observed>>
  /\ UNCHANGED <<mode, target, bill, leases, usage, storeVars, ledgerVars,
                 lateVars, today, cost>>

\* What the ledger has on that day and later ones.
TokensSince(d) == spent[d]

\* Fault: the budget is compared with > instead of >=.
CheckBudget_OneMore(r) ==
  /\ pc[r] = "budget"
  /\ IF TokensSince(boundary[r]) > Budget
       THEN Settle(r, "usage_limited", "limited")
       ELSE Goto(r, "classifying") /\ UNCHANGED <<reply, observed>>
  /\ UNCHANGED <<mode, target, boundary, bill, leases, usage, storeVars,
                 ledgerVars, lateVars, today, cost>>

(* tokens_since returns: the turn is admitted while the sum is below the   *)
(* budget, however many admitted turns have not been recorded yet.         *)
CheckBudget(r) ==
  /\ pc[r] = "budget"
  /\ IF TokensSince(boundary[r]) >= Budget
       THEN Settle(r, "usage_limited", "limited")
       ELSE Goto(r, "classifying") /\ UNCHANGED <<reply, observed>>
  /\ UNCHANGED <<mode, target, boundary, bill, leases, usage, storeVars,
                 ledgerVars, lateVars, today, cost>>

(* The routing decision arrives; retrieval and prompts need no suspension. *)
(* Its tokens are not counted anywhere.                                    *)
Classify(r) ==
  /\ pc[r] = "classifying"
  /\ Goto(r, "generating")
  /\ UNCHANGED <<mode, target, boundary, bill, leases, usage, storeVars,
                 ledgerVars, lateVars, today, reply, observed, cost>>

(* The model's stream ends with its usage, which is kept for the message   *)
(* before the turn is persisted.                                           *)
FinishGeneration(r) ==
  /\ pc[r] = "generating"
  /\ \E n \in 1 .. MaxTokens :
       /\ usage' = [usage EXCEPT ![r] = n]
       /\ cost' = [cost EXCEPT ![r] = n]
  /\ Goto(r, "appending")
  /\ UNCHANGED <<mode, target, boundary, bill, leases, storeVars, ledgerVars,
                 lateVars, today, reply, observed>>

\* Fault: message_end overtakes the accounting.
AppendTurn_AnswersFirst(r) ==
  /\ pc[r] = "appending"
  /\ StoreTurn(r)
  /\ PopUsage(r)
  /\ Goto(r, "recording")
  /\ Tell(r, "complete")
  /\ UNCHANGED <<mode, target, boundary, leases, ledgerVars, lateVars, today, observed, cost>>

(* append_turn returns; message_end reaches stream_turn, which pops the    *)
(* usage before it lets the event through.                                 *)
AppendTurn(r) ==
  /\ pc[r] = "appending"
  /\ StoreTurn(r)
  /\ PopUsage(r)
  /\ Goto(r, "recording")
  /\ UNCHANGED <<mode, target, boundary, leases, ledgerVars, lateVars, today, reply,
                 observed, cost>>

\* Fault: the recorded pair stays around for the finally.
RecordUsage_Twice(r) ==
  /\ pc[r] = "recording"
  /\ RecordBill(r)
  /\ UNCHANGED bill
  /\ Goto(r, "delivering")
  /\ UNCHANGED <<mode, target, boundary, leases, usage, storeVars, lateVars, today,
                 reply, observed, cost>>

(* record returns.                                                         *)
RecordUsage(r) ==
  /\ pc[r] = "recording"
  /\ RecordBill(r)
  /\ DropBill(r)
  /\ Goto(r, "delivering")
  /\ UNCHANGED <<mode, target, boundary, leases, usage, storeVars, lateVars, today,
                 reply, observed, cost>>

(* The client gets the JSON body of a turn that is counted as completed,   *)
(* or message_end of one that is still to be counted.                      *)
Deliver(r) ==
  /\ pc[r] = "delivering"
  /\ Tell(r, "complete")
  /\ \/ /\ mode[r] = "json"
        /\ Goto(r, "closing") /\ Observe(r, "completed")
     \/ /\ mode[r] = "stream"
        /\ Goto(r, "completing")
        /\ UNCHANGED observed
  /\ UNCHANGED <<mode, target, boundary, bill, leases, usage, storeVars,
                 ledgerVars, lateVars, today, cost>>

(* The client has read message_end, the generators below have run to their *)
(* ends and the trace is closed: the stream has completed.                 *)
Complete(r) ==
  /\ pc[r] = "completing"
  /\ Goto(r, "closing") /\ Observe(r, "completed")
  /\ UNCHANGED <<mode, target, boundary, bill, leases, usage, storeVars,
                 ledgerVars, lateVars, today, reply, cost>>

(* The lease is released: the handler's finally, or the end of the event   *)
(* stream's async with.                                                    *)
Close(r) ==
  /\ pc[r] = "closing"
  /\ Goto(r, "done")
  /\ leases' = leases \ {r}
  /\ UNCHANGED <<mode, target, boundary, bill, usage, storeVars, ledgerVars,
                 lateVars, today, reply, observed, cost>>

------------------------------------------------------------------------------
(* Failures inside the turn.                                               *)

(* A read of the store or the ledger fails, or a model call does: nothing  *)
(* is persisted and there is no usage to record.                           *)
TurnFails(r) ==
  /\ \/ pc[r] = "context" /\ "store" \in Faults
     \/ pc[r] = "budget" /\ "ledger" \in Faults
     \/ pc[r] \in {"classifying", "generating"} /\ "model" \in Faults
  /\ Failed(r)
  /\ UNCHANGED <<mode, target, boundary, bill, leases, usage, storeVars,
                 ledgerVars, lateVars, today, cost>>

\* Fault: no finally, the usage of an unstored turn stays in the map.
AppendFails_NoFinally(r) ==
  /\ pc[r] = "appending" /\ "store" \in Faults
  /\ AppendUndecided(r)
  /\ Failed(r)
  /\ UNCHANGED <<mode, target, boundary, bill, leases, usage, ledgerVars,
                 lateBill, today, cost>>

\* Fault: the finally pops the usage and does not record it.
AppendFails_Unrecorded(r) ==
  /\ pc[r] = "appending" /\ "store" \in Faults
  /\ AppendUndecided(r)
  /\ usage' = [usage EXCEPT ![r] = 0]
  /\ Failed(r)
  /\ UNCHANGED <<mode, target, boundary, bill, leases, ledgerVars, lateBill, today, cost>>

(* append_turn raises; stream_turn's finally pops the usage and starts to  *)
(* record it.                                                              *)
AppendFails(r) ==
  /\ pc[r] = "appending" /\ "store" \in Faults
  /\ AppendUndecided(r)
  /\ PopUsage(r)
  /\ Goto(r, "salvaging")
  /\ UNCHANGED <<mode, target, boundary, leases, ledgerVars, lateBill, today, reply,
                 observed, cost>>

(* The finally's record returns and the error goes on to the client.       *)
Salvage(r) ==
  /\ pc[r] = "salvaging"
  /\ RecordBill(r)
  /\ DropBill(r)
  /\ Failed(r)
  /\ UNCHANGED <<mode, target, boundary, leases, usage, storeVars, lateVars, today, cost>>

(* record raises, for message_end or in the finally: the usage is already  *)
(* popped, so the finally finds nothing to record again.                   *)
RecordFails(r) ==
  /\ pc[r] \in {"recording", "salvaging"} /\ "ledger" \in Faults
  /\ RecordUndecided(r)
  /\ Failed(r)
  /\ UNCHANGED <<mode, target, boundary, leases, usage, storeVars, lateTurn, today, cost>>

------------------------------------------------------------------------------
(* Disconnection.  The cancellation is raised at the await that is pending *)
(* and again at every later one, so a record begun by the finally after it *)
(* never reaches the database.                                             *)

Cancelled(r) == Goto(r, "closing") /\ Observe(r, "cancelled") /\ UNCHANGED reply

CanCancel(r) == mode[r] = "stream" /\ "disconnect" \in Faults

\* Fault: the error event is sent inside the try that counts cancellations.
CancelQuietly_CountsAgain(r) ==
  /\ CanCancel(r)
  /\ pc[r] \in {"classifying", "generating", "delivering", "completing", "closing"}
                 \union (IF Durable THEN {"context", "budget"} ELSE {})
  /\ Cancelled(r)
  /\ UNCHANGED <<mode, target, boundary, bill, leases, usage, storeVars,
                 ledgerVars, lateVars, today, cost>>

(* ... before there is any usage, or after everything was recorded: also   *)
(* behind message_end, when the client has its answer.                     *)
CancelQuietly(r) ==
  /\ CanCancel(r)
  /\ pc[r] \in {"classifying", "generating", "delivering", "completing"}
                 \union (IF Durable THEN {"context", "budget"} ELSE {})
  /\ Cancelled(r)
  /\ UNCHANGED <<mode, target, boundary, bill, leases, usage, storeVars,
                 ledgerVars, lateVars, today, cost>>

(* ... while the turn is being persisted: its usage is popped and lost.    *)
CancelAppend(r) ==
  /\ CanCancel(r) /\ Durable
  /\ pc[r] = "appending"
  /\ AppendUndecided(r)
  /\ usage' = [usage EXCEPT ![r] = 0]
  /\ Cancelled(r)
  /\ UNCHANGED <<mode, target, boundary, bill, leases, ledgerVars, lateBill, today, cost>>

(* ... while the usage is being recorded.                                  *)
CancelRecord(r) ==
  /\ CanCancel(r) /\ Durable
  /\ pc[r] \in {"recording", "salvaging"}
  /\ RecordUndecided(r)
  /\ Cancelled(r)
  /\ UNCHANGED <<mode, target, boundary, leases, usage, storeVars, lateTurn, today, cost>>

------------------------------------------------------------------------------
(* The environment.                                                        *)

\* Fault: the messages table has no ON DELETE CASCADE.
Restart_KeepsMessages ==
  /\ "restart" \in Faults
  /\ pc' = [r \in Requests |-> IF pc[r] = "idle" THEN "idle" ELSE "done"]
  /\ leases' = {}
  /\ usage' = [r \in Requests |-> 0]
  /\ status' = [c \in Conversations |-> IF status[c] = "expired" THEN "deleted" ELSE status[c]]
  /\ UNCHANGED <<mode, target, boundary, bill, history, ledgerVars, lateVars, today,
                 reply, observed, cost>>

\* A transaction that has not ended holds the row of its conversation.
Held(c) == \E r \in Requests :
             target[r] = c /\ (pc[r] = "appending" \/ lateTurn[r] = "adrift")

(* The process dies and starts again: its requests, leases and usage map   *)
(* are gone, its transactions are adrift, and initialize deletes the       *)
(* conversations that have expired, but for those rows that are locked.    *)
Restart ==
  /\ "restart" \in Faults
  /\ pc' = [r \in Requests |-> IF pc[r] = "idle" THEN "idle" ELSE "done"]
  /\ leases' = {}
  /\ usage' = [r \in Requests |-> 0]
  /\ lateTurn' = [r \in Requests |-> IF pc[r] = "appending" THEN "adrift" ELSE lateTurn[r]]
  /\ lateBill' = [r \in Requests |->
                    IF pc[r] \in {"recording", "salvaging"} THEN "adrift" ELSE lateBill[r]]
  /\ LET gone == {c \in Conversations : status[c] = "expired" /\ ~Held(c)}
     IN  /\ status' = [c \in Conversations |-> IF c \in gone THEN "deleted" ELSE status[c]]
         /\ history' = [c \in Conversations |-> IF c \in gone THEN <<>> ELSE history[c]]
  /\ UNCHANGED <<mode, target, boundary, bill, ledgerVars, today, reply, observed, cost>>

(* The COMMIT of a transaction takes effect that was on its way when its   *)
(* caller was told of an error, was cancelled or died.                     *)
LandTurn(r) ==
  /\ lateTurn[r] = "adrift"
  /\ StoreTurn(r)
  /\ lateTurn' = [lateTurn EXCEPT ![r] = "landed"]
  /\ UNCHANGED <<requestVars, leases, usage, ledgerVars, lateBill, today, reply,
                 observed, cost>>

LandBill(r) ==
  /\ lateBill[r] = "adrift"
  /\ RecordBill(r) /\ DropBill(r)
  /\ lateBill' = [lateBill EXCEPT ![r] = "landed"]
  /\ UNCHANGED <<pc, mode, target, boundary, leases, usage, storeVars, lateTurn,
                 today, reply, observed, cost>>

(* The retention period of an idle conversation passes.                    *)
Expire(c) ==
  /\ "expiry" \in Faults
  /\ status[c] = "live"
  /\ status' = [status EXCEPT ![c] = "expired"]
  /\ UNCHANGED <<requestVars, leases, usage, history, ledgerVars, lateVars, today, reply,
                 observed, cost>>

Midnight ==
  /\ today < LastDay
  /\ today' = today + 1
  /\ UNCHANGED <<requestVars, leases, usage, storeVars, ledgerVars, lateVars, reply,
                 observed, cost>>

------------------------------------------------------------------------------
Turn(r) ==
  \/ CreateConversation(r) \/ FindConversation(r) \/ MissConversation(r)
  \/ ReadHistory(r) \/ CheckBudget(r) \/ Classify(r) \/ FinishGeneration(r)
  \/ AppendTurn(r) \/ RecordUsage(r) \/ Deliver(r) \/ Complete(r) \/ Close(r)
  \/ Salvage(r)

Failure(r) ==
  \/ OpeningFails(r) \/ TurnFails(r) \/ AppendFails(r) \/ RecordFails(r)

Cancel(r) == CancelQuietly(r) \/ CancelAppend(r) \/ CancelRecord(r)

SameDay ==
  \/ \E r \in Requests :
       \/ RateLimit(r) \/ Arrive(r) \/ Admit(r) \/ QueueTimeout(r)
       \/ Turn(r) \/ Failure(r) \/ Cancel(r) \/ LandTurn(r) \/ LandBill(r)
  \/ \E c \in Conversations : Expire(c)
  \/ Restart

Next == SameDay \/ Midnight

(***************************************************************************)
(* The event loop runs what is ready and the queue timer fires; the model  *)
(* client and the database driver answer or raise, having time-outs of     *)
(* their own.                                                              *)
(***************************************************************************)
Fairness ==
  \A r \in Requests :
    /\ WF_vars(QueueTimeout(r))
    /\ WF_vars(Turn(r) \/ Failure(r))

Spec     == Init /\ [][Next]_vars
FairSpec == Spec /\ Fairness

------------------------------------------------------------------------------
(* Types of the variables.                                                 *)
TypeOK ==
  /\ pc \in [Requests -> Positions]
  /\ mode \in [Requests -> {"json", "stream"}]
  /\ target \in [Requests -> Conversations \union {NoConversation}]
  /\ boundary \in [Requests -> Days]
  /\ bill \in [Requests -> [tokens : Nat, day : Days]]
  /\ leases \in SUBSET Requests
  /\ usage \in [Requests -> Nat]
  /\ status \in [Conversations -> {"unused", "live", "expired", "deleted"}]
  /\ history \in [Conversations -> Seq(Requests)]
  /\ spent \in [0 .. LastDay + 1 -> Nat]
  /\ lateTurn \in [Requests -> Fates]
  /\ lateBill \in [Requests -> Fates]
  /\ today \in Days
  /\ reply \in [Requests -> Replies]
  /\ observed \in [Requests -> Seq(Outcomes)]
  /\ cost \in [Requests -> Nat]
  /\ billed \in [Requests -> Nat]

(***************************************************************************)
(* A lease lives exactly as long as its turn: whichever of the answers,    *)
(* failures and cancellations ends a turn, the slot comes back, and it     *)
(* does not come back while the turn still works.                          *)
(***************************************************************************)
LeaseFollowsTurn == leases = {r \in Requests : pc[r] \in Working}

(***************************************************************************)
(* _usage_by_message holds an entry only while its turn is being appended: *)
(* no path leaves one behind, or the map would grow for ever.              *)
(***************************************************************************)
NoUsageResidue == \A r \in Requests : usage[r] # 0 => pc[r] = "appending"

(***************************************************************************)
(* The tokens of a finished generation are in one place: the usage map,    *)
(* the call in flight or the ledger.  No interleaving of message_end with  *)
(* the two finally blocks records them twice, under any fault; and unless  *)
(* the ledger fails, the process dies or a disconnection reaches a         *)
(* database call, none is lost, not even when the turn cannot be stored.   *)
(***************************************************************************)
Lossy == \/ Faults \intersect {"ledger", "restart"} # {}
         \/ Durable /\ "disconnect" \in Faults

TokensTracked(r) == usage[r] + bill[r].tokens + billed[r]

UsageNeverDuplicated == \A r \in Requests : TokensTracked(r) <= cost[r]
UsageConserved == ~Lossy => \A r \in Requests : TokensTracked(r) = cost[r]

(***************************************************************************)
(* A client that is told its turn completed has a turn that is stored in   *)
(* its conversation and charged in full, at that moment.                   *)
(***************************************************************************)
Stored(r) == \E i \in 1 .. Len(history[target[r]]) : history[target[r]][i] = r

CompletedIsStoredAndBilled ==
  [][\A r \in Requests :
       reply[r] # "complete" /\ reply'[r] = "complete"
         => Stored(r) /\ cost[r] > 0 /\ billed[r] = cost[r]]_vars

(***************************************************************************)
(* Each request counts at most once in maas_chat_outcomes_total, although  *)
(* the stream yields, and so may be cancelled, inside its own handlers. A  *)
(* request that counts as completed has told its client so; and one that   *)
(* has told its client so counts as completed in the end, unless its       *)
(* stream is cancelled behind message_end or the process dies.             *)
(***************************************************************************)
OutcomesOfCompleted(r) ==
  {<<"completed">>}
    \union (IF CanCancel(r) THEN {<<"cancelled">>} ELSE {})
    \union (IF "restart" \in Faults THEN {<<>>} ELSE {})

OneOutcome ==
  \A r \in Requests :
    /\ Len(observed[r]) <= 1
    /\ observed[r] = <<"completed">> => reply[r] = "complete"
    /\ reply[r] = "complete" /\ pc[r] \in {"closing", "done"}
         => observed[r] \in OutcomesOfCompleted(r)

(***************************************************************************)
(* The budget is checked before a turn and recorded after it, so turns in  *)
(* flight can exceed it, but only by what the slots allow: a day's record  *)
(* stays below the budget plus one generation per slot and one for each    *)
(* record that has outlived its caller, across midnights, failures,        *)
(* cancellations and restarts.                                             *)
(***************************************************************************)
RecordedOn(d) == spent[d] - spent[d + 1]
LandedBills   == {r \in Requests : lateBill[r] = "landed"}

BudgetOvershootBounded ==
  \A d \in Days :
    RecordedOn(d) < Budget + (MaxActive + Cardinality(LandedBills)) * MaxTokens

(***************************************************************************)
(* Likewise the turn limit, read before a turn and consumed at its end: a  *)
(* conversation exceeds it by fewer turns than there are slots, and one    *)
(* for each append that has outlived its caller, as long as conversations  *)
(* do not expire under the turns that extend them.                         *)
(***************************************************************************)
LandedTurns(c) == {r \in Requests : lateTurn[r] = "landed" /\ target[r] = c}

TurnOvershootBounded ==
  "expiry" \notin Faults =>
    \A c \in Conversations :
      Len(history[c]) < MaxTurns + MaxActive + Cardinality(LandedTurns(c))

(***************************************************************************)
(* src/README.md, line 160: MAAS_MAX_TURNS_PER_CONVERSATION is the         *)
(* "Maximum accepted turns in one conversation."                           *)
(***************************************************************************)
TurnsWithinMaximum == \A c \in Conversations : Len(history[c]) <= MaxTurns

(***************************************************************************)
(* Every request that arrives ends, with its slot released.                *)
(***************************************************************************)
EveryTurnEnds ==
  \A r \in Requests : pc[r] # "idle" ~> pc[r] = "done" /\ r \notin leases

(***************************************************************************)
(* Refinement: the life cycle of the leases keeps what Admission promises. *)
(***************************************************************************)
StageOf(r) ==
  IF r \in leases THEN "active" ELSE IF pc[r] = "queued" THEN "queued" ELSE "idle"

Promise == INSTANCE Admission WITH stage <- [r \in Requests |-> StageOf(r)]

PromiseKept == Promise!Spec

(***************************************************************************)
(* Refinement: the store's calls, made by turns that fail, are cancelled   *)
(* and restarted around them, keep what ConversationLog promises: a turn   *)
(* is appended once, to a conversation that exists.                        *)
(***************************************************************************)
Log == INSTANCE ConversationLog
         WITH Turns <- Requests, log <- history,
              rows <- {c \in Conversations : status[c] \in {"live", "expired"}}

LogKept == Log!Spec
==============================================================================
