-------------------------- MODULE ConversationStore --------------------------
(***************************************************************************)
(* PostgresConversationStore of chat/storage.py, statement by statement.   *)
(* Every append_turn has a connection and a transaction of its own:        *)
(*                                                                         *)
(*   locking     SELECT ... FOR UPDATE of the conversation's row           *)
(*   reading     SELECT COALESCE(MAX(ordinal), -1)                         *)
(*   inserting   INSERT of the user's and the assistant's message          *)
(*   updating    UPDATE of expires_at                                      *)
(*   committing  the COMMIT at the end of the async with                   *)
(*                                                                         *)
(* The isolation level is PostgreSQL's default, READ COMMITTED: every      *)
(* statement sees what was committed when it started.                      *)
(*                                                                         *)
(* The process may die at any moment.  Its transactions then end only when *)
(* the server notices: most roll back, one whose COMMIT was sent may still *)
(* commit, and until then they keep their row locks.  initialize runs once *)
(* when the process starts again, before it serves requests.               *)
(***************************************************************************)
EXTENDS Integers, Sequences, FiniteSets, FiniteSetsExt

CONSTANTS
  Conversations,
  Turns,         \* calls of append_turn, each for a turn of its own
  Nobody         \* the owner of a row that is not locked

ASSUME StoreAssumption == Nobody \notin Turns

VARIABLES
  serving,    \* the process is up and initialized
  row,        \* row[c]: the conversation's row and whether it has expired
  messages,   \* messages[c][o]: the committed message with ordinal o
  owner,      \* owner[c]: the transaction that holds the row's lock
  at,         \* where the transaction of a turn is
  target,     \* the turn's conversation
  next,       \* next_ordinal
  draft,      \* rows the transaction has inserted and not committed
  answer      \* what append_turn's caller got: "ok", "error", or nothing yet

callVars == <<target, next, draft>>
vars == <<serving, row, messages, owner, at, target, next, draft, answer>>

InTransaction == {"locking", "reading", "inserting", "updating", "committing"}
Orphaned      == {"abandoned", "detached"}   \* its process died, see Crash
Positions     == InTransaction \union Orphaned \union {"idle", "ended"}

RowStates == {"unused", "live", "expired", "deleted"}
Rows      == {c \in Conversations : row[c] \in {"live", "expired"}}

Ordinals(c) == DOMAIN messages[c]
Nothing == [o \in {} |-> {}]   \* no rows

Init ==
  /\ serving = TRUE
  /\ row = [c \in Conversations |-> "unused"]
  /\ messages = [c \in Conversations |-> Nothing]
  /\ owner = [c \in Conversations |-> Nobody]
  /\ at = [t \in Turns |-> "idle"]
  /\ target \in [Turns -> Conversations]
  /\ next = [t \in Turns |-> 0]
  /\ draft = [t \in Turns |-> Nothing]
  /\ answer = [t \in Turns |-> "none"]

------------------------------------------------------------------------------
Goto(t, p) == at' = [at EXCEPT ![t] = p]

\* Nobody listens for the answer of a dead process's transaction.
Reply(t, what) ==
  answer' = [answer EXCEPT ![t] = IF at[t] \in InTransaction THEN what ELSE @]

\* The end of a transaction gives its row lock back.
Unlock(t) == owner' = [c \in Conversations |-> IF owner[c] = t THEN Nobody ELSE owner[c]]

Merge(f, g) == [o \in DOMAIN f \union DOMAIN g |-> IF o \in DOMAIN g THEN g[o] ELSE f[o]]

(* create.                                                                 *)
Create(c) ==
  /\ serving
  /\ row[c] = "unused"
  /\ row' = [row EXCEPT ![c] = "live"]
  /\ UNCHANGED <<serving, messages, owner, at, callVars, answer>>

(* A turn of a conversation that was found to exist ends with append_turn. *)
CallAppend(t) ==
  /\ serving
  /\ at[t] = "idle" /\ row[target[t]] = "live"
  /\ Goto(t, "locking")
  /\ UNCHANGED <<serving, row, messages, owner, callVars, answer>>

\* Fault: SELECT without FOR UPDATE.
Lock_Unlocked(t) ==
  /\ at[t] = "locking"
  /\ Goto(t, "reading")
  /\ UNCHANGED <<serving, row, messages, owner, callVars, answer>>

(* SELECT id ... FOR UPDATE waits for the row's lock.                      *)
Lock(t) ==
  /\ at[t] = "locking"
  /\ owner[target[t]] = Nobody
  /\ owner' = [owner EXCEPT ![target[t]] = t]
  /\ Goto(t, "reading")
  /\ UNCHANGED <<serving, row, messages, callVars, answer>>

ReadMax(t) ==
  /\ at[t] = "reading"
  /\ next' = [next EXCEPT ![t] = IF Ordinals(target[t]) = {} THEN 0
                                 ELSE Max(Ordinals(target[t])) + 1]
  /\ Goto(t, "inserting")
  /\ UNCHANGED <<serving, row, messages, owner, target, draft, answer>>

Pair(t) ==
  [o \in {next[t], next[t] + 1} |->
     [turn |-> t, role |-> IF o = next[t] THEN "user" ELSE "assistant"]]

Conflict(t) == DOMAIN Pair(t) \intersect Ordinals(target[t]) # {}

(* Both INSERTs; a primary key that is taken makes Fail the only way on.   *)
Insert(t) ==
  /\ at[t] = "inserting" /\ ~Conflict(t)
  /\ draft' = [draft EXCEPT ![t] = Pair(t)]
  /\ Goto(t, "updating")
  /\ UNCHANGED <<serving, row, messages, owner, target, next, answer>>

\* Fault: the answer does not wait for the commit.
Update_Answers(t) ==
  /\ at[t] = "updating"
  /\ Goto(t, "committing") /\ Reply(t, "ok")
  /\ UNCHANGED <<serving, row, messages, owner, callVars>>

(* UPDATE ... SET expires_at, visible to others with the commit.           *)
Update(t) ==
  /\ at[t] = "updating"
  /\ Goto(t, "committing")
  /\ UNCHANGED <<serving, row, messages, owner, callVars, answer>>

(* The commit; its caller, if it is still there, may be told or not.       *)
Commit(t) ==
  /\ at[t] \in {"committing", "detached"}
  /\ messages' = [messages EXCEPT ![target[t]] = Merge(@, draft[t])]
  /\ row' = [row EXCEPT ![target[t]] = "live"]
  /\ draft' = [draft EXCEPT ![t] = Nothing]
  /\ Unlock(t) /\ Goto(t, "ended")
  /\ Reply(t, "ok") \/ Reply(t, "error")
  /\ UNCHANGED <<serving, target, next>>

\* Fault: a failed transaction is tried again, without a limit.
Rollback_Retries(t) ==
  /\ at[t] \in InTransaction \union Orphaned
  /\ draft' = [draft EXCEPT ![t] = Nothing]
  /\ Unlock(t)
  /\ IF at[t] \in InTransaction THEN Goto(t, "locking") ELSE Goto(t, "ended")
  /\ UNCHANGED <<serving, row, messages, target, next, answer>>

(* A statement fails, the caller is cancelled, or the server notices that  *)
(* the client is gone.                                                     *)
Rollback(t) ==
  /\ at[t] \in InTransaction \union Orphaned
  /\ draft' = [draft EXCEPT ![t] = Nothing]
  /\ Unlock(t) /\ Goto(t, "ended") /\ Reply(t, "error")
  /\ UNCHANGED <<serving, row, messages, target, next>>

------------------------------------------------------------------------------
(* The process dies.  A COMMIT that was sent may still be carried out.     *)
Crash ==
  /\ serving
  /\ serving' = FALSE
  /\ at' = [t \in Turns |-> IF at[t] = "committing" THEN "detached"
                            ELSE IF at[t] \in InTransaction THEN "abandoned"
                            ELSE at[t]]
  /\ UNCHANGED <<row, messages, owner, callVars, answer>>

\* Fault: the messages table has no ON DELETE CASCADE.
Initialize_KeepsMessages ==
  /\ ~serving
  /\ LET gone == {c \in Rows : row[c] = "expired"}
     IN  /\ \A c \in gone : owner[c] = Nobody
         /\ row' = [c \in Conversations |-> IF c \in gone THEN "deleted" ELSE row[c]]
  /\ serving' = TRUE
  /\ UNCHANGED <<messages, owner, at, callVars, answer>>

(* DELETE FROM conversations WHERE expires_at <= now(), which waits for    *)
(* the locks the dead process left on those rows and then looks at the     *)
(* rows again; the messages go by ON DELETE CASCADE.                       *)
Initialize ==
  /\ ~serving
  /\ LET gone == {c \in Rows : row[c] = "expired"}
     IN  /\ \A c \in gone : owner[c] = Nobody
         /\ row' = [c \in Conversations |-> IF c \in gone THEN "deleted" ELSE row[c]]
         /\ messages' = [c \in Conversations |-> IF c \in gone THEN Nothing ELSE messages[c]]
  /\ serving' = TRUE
  /\ UNCHANGED <<owner, at, callVars, answer>>

(* The retention period of a conversation passes.                          *)
Expire(c) ==
  /\ row[c] = "live"
  /\ row' = [row EXCEPT ![c] = "expired"]
  /\ UNCHANGED <<serving, messages, owner, at, callVars, answer>>

------------------------------------------------------------------------------
\* The statements of a transaction, run by the server one after the other.
Statement(t) == Lock(t) \/ ReadMax(t) \/ Insert(t) \/ Update(t) \/ Commit(t)

Next ==
  \/ \E t \in Turns : CallAppend(t) \/ Statement(t) \/ Rollback(t)
  \/ \E c \in Conversations : Create(c) \/ Expire(c)
  \/ Crash
  \/ Initialize

(***************************************************************************)
(* The server carries out what it was sent, and the connection of a dead   *)
(* client is closed in the end; the process is restarted by its container. *)
(***************************************************************************)
Fairness ==
  /\ \A t \in Turns : WF_vars(Statement(t) \/ (at[t] = "inserting" /\ Rollback(t)))
  /\ \A t \in Turns : WF_vars(at[t] = "abandoned" /\ Rollback(t))
  /\ WF_vars(Initialize)

Spec     == Init /\ [][Next]_vars
FairSpec == Spec /\ Fairness

------------------------------------------------------------------------------
(* Types of the variables.                                                 *)
Message == [turn : Turns, role : {"user", "assistant"}]

Drafts(t) == {Nothing, Pair(t)}

TypeOK ==
  /\ serving \in BOOLEAN
  /\ row \in [Conversations -> RowStates]
  /\ DOMAIN messages = Conversations
  /\ \A c \in Conversations :
       /\ Ordinals(c) \subseteq Nat
       /\ \A o \in Ordinals(c) : messages[c][o] \in Message
  /\ owner \in [Conversations -> Turns \union {Nobody}]
  /\ at \in [Turns -> Positions]
  /\ target \in [Turns -> Conversations]
  /\ next \in [Turns -> Nat]
  /\ \A t \in Turns : draft[t] \in Drafts(t)
  /\ answer \in [Turns -> {"none", "ok", "error"}]

(***************************************************************************)
(* No turn fails because of another: when a transaction has its ordinal,   *)
(* nobody takes it before the insert.  Also when a transaction of the dead *)
(* process commits under the new one.                                      *)
(***************************************************************************)
NoOrdinalConflict == \A t \in Turns : at[t] = "inserting" => ~Conflict(t)

\* The turns of a conversation, its messages taken in twos.
TurnsIn(c) == Cardinality(Ordinals(c)) \div 2

TurnAt(c, i) == messages[c][2 * i - 2].turn

(***************************************************************************)
(* Once append_turn has returned, the turn is in its conversation for as   *)
(* long as the conversation exists, whoever crashes and however the        *)
(* expiry and the clean-up race with it.                                   *)
(***************************************************************************)
AnsweredIsStored ==
  \A t \in Turns :
    answer[t] = "ok" /\ row[target[t]] # "deleted"
      => \E i \in 1 .. TurnsIn(target[t]) : TurnAt(target[t], i) = t

(***************************************************************************)
(* Every call of append_turn comes to an end, also behind the locks of a   *)
(* process that died.                                                      *)
(***************************************************************************)
EveryAppendEnds == \A t \in Turns : at[t] # "idle" ~> at[t] = "ended"

(***************************************************************************)
(* Refinement: statements, locks and roll-backs amount to a log of turns.  *)
(***************************************************************************)
History(c) == [i \in 1 .. TurnsIn(c) |-> TurnAt(c, i)]

Log == INSTANCE ConversationLog
         WITH rows <- Rows, log <- [c \in Conversations |-> History(c)]

LogKept == Log!Spec
==============================================================================
