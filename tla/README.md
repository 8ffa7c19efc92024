# Formal verification of Me-as-a-Service

TLA+ models of this repository, the TLC runs that check them on small
instances, and theorems about them that TLAPS checks for every value of the
constants. `PROJECT.json` is the index: it maps every definition to the source
lines it models, lists the runs, the mutations that show each property can
fail, the hazards the properties are for, and the theorems.

Paths below are relative to the repository; `API/` stands for
`apps/api/src/me_as_a_service/`.

## 1. Inventory

| Part | State | Operations | What makes it correct |
| ---- | ----- | ---------- | --------------------- |
| Concurrency gate, `API/operations/traffic.py` | `_active`, `_queued`, an `asyncio.Condition` | `acquire`, `release`, `snapshot`; the lease's `release` | bounded counters that agree with who holds and who waits; a freed slot reaches a waiter; waiters are answered |
| Chat turn, `API/api.py`, `API/chat_workflow.py`, `API/chat/application.py` | requests in flight, leases, `_usage_by_message` | `chat`, `_ndjson_events`, `stream_turn`, `complete_turn`, `stream_response`, `pop_usage` | lease ends with the turn; usage recorded once; a completed answer is stored and billed; one outcome per request |
| Usage limits, `API/operations/usage_limits.py` | none | `check` | turns and tokens stay near their limits under concurrency and late commits |
| Conversation store, `API/chat/storage.py` | rows with an expiry, ordered messages | `initialize`, `create`, `exists`, `history`, `append_turn` | turns are appended whole, in order, once |
| Usage ledger, `API/operations/token_usage.py` | tokens per UTC day | `tokens_since`, `record` | sums lose no update |
| Rate limiter, `API/operations/traffic.py` | request times per key | `check`, `clear` | at most `limit` requests in any window; `Retry-After` is honest; keys are forgotten |
| Traffic metrics, `API/operations/traffic.py` | counters, gauges, the day's visitor keys | `observe_*`, `render_prometheus`, the ASGI middleware | gauges return to zero; the visitor set belongs to one day |
| Bounded context, `API/chat/memory.py` | none | `assemble_context` | the newest whole turns within both limits |
| Classification and routing, `API/chat/types.py`, `API/chat/application.py` | none | `classify_and_rewrite_message`, prompt selection | no evidence prompt without documents; no history for the current-message-only types |
| Model client, `API/chat/model.py` | locals of a stream | `classify_and_rewrite_message`, `stream_response` | the usage that is charged is that of the whole answer, if the provider reports it |
| Retrieval and instance, `API/knowledge.py`, `API/instance.py` | an immutable index | loading, `retrieve` | what the tools leave can be loaded; a deterministic ranking |
| Prompts, tracing, `API/chat/` | none that decisions depend on | rendering, copies to LangSmith | not modelled |
| Web client, `apps/web/src/app/chat/` | messages, request status, session storage | submit, retry, new chat, stream events | a reloaded transcript is a conversation; an old stream does not write into a new one |
| Web routes, `apps/web/src/app/api/` | none | forward one request | status and headers pass through |
| Knowledge command line, `tools/knowledge-cli/` | manifest, resume files, `index/records.json` | `init`, `import-resume`, `replace-index`, `upsert-index`, `remove-records` | the live index always satisfies its contract; nothing that is there is lost unasked |
| Backup, `deploy/backup/` | snapshots, status metrics | dump, upload, prune, report, restore | success is reported only for a restorable snapshot; a missing backup raises an alert; nothing the policy keeps is pruned |
| Host scripts, infrastructure, monitoring, evaluations | configuration | one-shot scripts | not modelled: no behaviour of their own to check |

### Interactions

One API process runs one event loop. A `POST /api/v1/chat` passes the two rate
limiters, takes a slot of the gate, opens its conversation, reads the history,
checks the limits against the history and the ledger, asks the model to
classify, retrieves, asks the model to answer, puts the usage into
`_usage_by_message`, appends the turn, pops and records the usage, and only
then lets `message_end` through. Every one of these calls may suspend, and any
number of requests is somewhere along this line. Memory is shared through the
event loop (gate, usage map, metrics) and through the database (store, ledger).
The web client talks to the API through its own proxy route; the knowledge
tools and the backup meet the API only in files and in the database.

### Which behaviours are hard

* Every `await` is a place where other requests run: the gate's counters, the
  limits that are read before a turn and used up after it, `_usage_by_message`.
* A client that leaves cancels its request at whatever await it is in, also
  inside `except` and `finally` clauses; a time-out races the notification it
  waits for.
* PostgreSQL may fail at any statement, an answer to COMMIT may be lost, and the
  transactions of a process that died, or of a caller that was cancelled, may hold
  locks or commit after it.
* The browser's page, its session storage and the API each have an idea of what
  the conversation is, and change it at different times.
* The knowledge tools and the backup write several files in a row and may be
  interrupted between them.

## 2. Plan

Built, in this order; each module can be read with those above it.

| Module | Of | Role |
| ------ | -- | ---- |
| `Admission` | gate | abstract specification: leases that are granted, queued, refused, returned |
| `ConcurrencyGate` | gate | `ConcurrencyGate` with the future queue of `asyncio.Condition`; implements `Admission` |
| `ChatService` | chat turn | the whole turn for many requests, composed with `Admission` (its gate) and `ConversationLog` (its store) |
| `ChatAnswer` | routing, model client | extends `ChatService` with what lies between and inside its two model calls |
| `RateLimiter` | rate limiter | `SlidingWindowRateLimiter` over a clock |
| `TrafficMonitor` | traffic metrics | extends `RateLimiter`: the day's visitors, noted as `chat` notes them |
| `ConversationLog` | store | abstract specification: whole turns appended atomically to a log per conversation |
| `ConversationStore` | store | `PostgresConversationStore`, statement by statement; implements `ConversationLog` |
| `ChatMemory` | bounded context | `assemble_context` over whatever `ConversationStore` has committed |
| `WebConversation` | web client | the page of one visitor, its session storage and its requests |
| `KnowledgeIndex` | knowledge tools | the commands of `tools/knowledge-cli` over the files of an instance |
| `Knowledge` | retrieval, instance | extends `KnowledgeIndex`: the API loads what the tools leave, and ranks its documents |
| `Backup` | backup | runs of `backup.sh`, the restic repository, the status file and the alerts |

`MC…` modules give TLC what it needs (symmetry sets); `…Proofs` modules hold the
theorems.

`ChatAnswer`, `TrafficMonitor` and `Knowledge` are written on top of finished
modules, whose actions they take whole and add to; what is proved of the lower
module is carried over by a theorem (`AnswerImplementsService`, `MonitorLimits`)
or holds because the upper one adds no state (`Knowledge`).

## 3. How the models correspond to the code

**ConcurrencyGate.** `active` and `queued` are `_active` and `_queued`;
`waiters` are the futures inside the condition that are not done, oldest first.
`pc` says where each caller is. `acquire` is split where it suspends: `AcquireFree` and
`AcquireQueued` run to the return or to the wait, `WakeGranted` and `WakeBeaten`
are the loop around `wait` after a notification, `ExpirePending` and
`ExpireNotified` are `wait_for`'s timer before and after the notification,
`Reject` is the `except`. No critical section suspends while it holds the
condition's lock, so the lock needs no state. `NotifyPassedOn` tells apart what
`asyncio.Condition.wait` does with the notification of a waiter that is
cancelled: up to CPython 3.12, which `apps/api/Dockerfile` deploys, it is
dropped; from 3.13 on it goes to the next waiter.

`StageOf` maps the gate's positions to those of `Admission`.

**ChatService.** One action is the code between two awaits of a service; `pc`
names the service call that is outstanding. `leases` are the gate's leases,
`usage` is `_usage_by_message`, `bill` is the value `pop_usage` has taken out and
`record` has not committed, `status` and `history` are the two tables,
`spent[d]` is what `tokens_since(d)` returns. `reply`, `observed`, `cost` and
`billed` are history variables: what the client was told, which outcomes were
counted, what a generation cost and how much of it the ledger got. Failures
take the way of the `except` and `finally` clauses: `TurnFails`, `AppendFails`,
`Salvage`, `RecordFails`, `Close`. The end of a stream is two steps: `Deliver`
yields `message_end`, which suspends, and `Complete` counts the outcome once the
generators and the trace below have run to their ends. A disconnection cancels a
stream where it waits, also between those two (`CancelQuietly`, `CancelAppend`, `CancelRecord`); Uvicorn does not cancel
a JSON request. anyio cancels again at the next await, so the record in
`stream_turn`'s `finally` cannot finish after a cancellation, except in memory,
where nothing is awaited.

A transaction whose caller fails, is cancelled or dies has committed, or is left
adrift (`lateTurn`, `lateBill`): its COMMIT may take effect at any later time
(`LandTurn`, `LandBill`), between the checks and the commits of other turns and
after a restart, or never, which is a roll-back. While it is adrift it holds the
row of its conversation against the clean-up of a restart (`Held`). The model
lets other appends overtake it, which the row lock would not: more orders than
PostgreSQL allows, none fewer.

**ChatAnswer** is a superposition on `ChatService`: `Route` is `Classify` with
its outcome, `EndStream` is `FinishGeneration` with the number it reports,
`Elsewhere` and `NextDay` are the other steps, and `Chunk` is a step that `ChatService` does not
see. `generation[r]` holds the locals of `stream_response` while it runs.
`Accepted` is the validator of `MessageClassification`, `Retrievable` the call of
`retrieve`, `Policy` the downgrade without documents, `Prepared` the checks of
`stream_response` with the choice of prompt, history and documents. The model
gives any answer, and any chunk may report the usage up to it or not (`spent` is
what the stream has used, `reported` what it has said, `final` whether that was
all of it when it said so). A stream that breaks, or ends without any report, is
`TurnFails`; one that ends after some report is accepted, like the code does.

**RateLimiter.** `requests` is the dictionary of deques, restricted to the keys
it holds; `now` advances in ticks of `1/Second` seconds. `check` has no await and
is one action; `Refuse` and `Accept` are its two ends and both begin with
`Cleanup`. `accepted` remembers every accepted request, which the code forgets.

**TrafficMonitor.** `Post` is the beginning of `chat`: `observe_chat_client` and
then `check`, with no suspension between them, so one step. The monitor reads
the calendar (`Midnights` are ticks of the limiter's clock), the limiter a
monotonic clock. A visitor whom the limiter refuses has been counted. The gauge
is set by a message only: from midnight to the first message it still shows the
day before, and `VisitorsCounted` says just that. The limiter here is the one by
address; the one by conversation is another instance of the same class, and
`chat` asks it second, so that a request it refuses has used up a place in the
first.

**ConversationStore.** A turn walks through the statements of `append_turn`:
`Lock` (`SELECT … FOR UPDATE`), `ReadMax`, two `Insert`s,
`Update`, `Commit`; `messages` are committed rows and `Merge` shows the
transaction its own. Isolation is READ COMMITTED; `owner` is the row lock.
`Rollback` may strike at any statement. `Crash` leaves transactions that the
server will roll back (abandoned) or that had sent COMMIT (detached).
`Initialize` is the schema script and the delete of expired rows, which waits
for locks like any statement.

**WebConversation.** A turn is represented by its assistant message; the user's
message is always the one before. `request[t]` is one call of `requestTurn` with
the conversation id it captured. `Save` is the second `useEffect`; React may run
it any time after the dispatch, but before a click is handled (`Clickable`). The
page is idle from `message_end` on, while the request still reads its stream
("draining"): a message may be sent, retried or dropped then, and `StreamEnds`
lets the old stream end, or break and report a failure, under whatever runs by
that time. Effects that are
due together are one `Save` with the newest state. `Reload` cuts all requests
off and runs the first `useEffect`. `Position` is the `findIndex` with which a
failed request for a lost conversation finds the messages it keeps. The API is
external: `Store` and `Expire` are what it does, and what it answers follows
`ChatService`.

**ChatMemory** extends `ConversationStore`. `StoredHistory` is the query of
`history`; `PriorTurns`, `Candidates`, `Keep` and `AssembleContext` are the lines
of `assemble_context`, which runs without a suspension once it has its rows. A
message is only its length. `Keep` is one round of the loop over the turns and
`full` its `break`: after the first turn that is too long no older one is looked
at. The loop (`Selected`) and its `sum` (`Total`) are recursive functions of the
round, so that they can be reasoned about. The property compares the result, in every state
that statements of other turns can produce, with the longest run of newest turns
that satisfies both limits.

**KnowledgeIndex.** A shell runs one command at a time, and each command is a
process: it reads, decides, and writes one file after the other, each write by
`atomic_write` and so one step. `job[s].next` is what it has decided to write.
Texts are left out; `Casefold` and `NormalUrl` say which spellings of subjects
and URLs are the same, and a `stable_id` is the casefolded subject it hashes.
A body is a text or blank, and `Filled` is the check of `RetrievalRecord` after
stripping. `alone` records whether a command had the directory to itself, `torn`
whether an import was cut off between its writes. The owner's edits of
`instance.yaml` are `Curate`; they write values that the schema accepts, so a
blank one can only be there from the beginning, and `ReadManifest` fails on it.
A proposal may name any id, also one that is no longer, or never was, in the
index.

**Knowledge** adds operators and no state. `Servable` is what the API asks of the
two files, which it reads once, one after the other, at any moment: a manifest
with a display name (`ManifestLoads`), and records that have their fields and no
others, no blank text and ids of their own (`DocumentsLoad`).
`Retrieve` is `retrieve` after the engine has answered: the engine, tantivy, is
external and finds any documents with any of the `Scores`, in any order, and is
asked for up to `TopK` of them. `Ranked` is the sort. The order of the file is any order of the index (`SetToSeqs`), and documents are compared by
score and place, as the sort key does.

**Backup.** `job[r].at` is the command of the script that runs next. `Fail` is a
command that fails under `set -e`, which leads through the trap to
`write_result 0`; `Kill` ends a run without it. The temporary status file is
shared. `OpenResult` empties or creates it, and each of its two lines is a write
of its own (`WriteSuccess`, `WriteTime`; comments go with their line), through a
descriptor that stays with its file: `job[r].writes` says whether that is the
temporary file, the published one after another run's `mv`, or one that is gone.
Lines have fixed places, so what two runs write into one file is, line by line,
of the one or of the other, or a hole (`Unwritten`, `Never`). `MoveResult` is
`mv`, which fails if another run was faster; `ResultFails` is a file that cannot
be opened or written. `Forget` is restic's policy. The
status of a pipe is that of its right end, so `Dump` uploads whole dumps and, if
`DumpFails`, fragments. `taken` and `lastSuccess` are observers, and so is the
`upload` in a status. `Alarm` holds the two backup alerts of
`deploy/prometheus/alerts.yml`.

## 4. The runs

| Run | What it asks | Bounds |
| --- | ------------ | ------ |
| `gate` | the counters and futures of the gate, that no slot is forgotten, `Admission`, and that whoever queues is answered | 6 callers, 2 slots, queue of 3: one caller is refused at once, and time-outs, hand-overs and newcomers can meet |
| `gate_forgotten_slot` | violation on CPython 3.12 | 3 callers, 1 slot |
| `service_store` | tokens, budget, turn limit, routes, the usage that is charged, and that every request ends | `ChatAnswer`; 3 requests, 2 slots, two days, failing models and store, limits of one turn and one token, a document that is found or not, two classifications (the downgrade gives a third), streams of up to two units and any reports |
| `service_turn_limit` | violation: more turns than the maximum, side by side | 2 requests, 2 slots, no fault |
| `service_postgres` | leases, usage map, outcomes, honest completion, the budget with late records, `ConversationLog` | `ChatService`; 3 requests, 2 slots, 1 conversation, every fault; one day (`OneDaySpec`): midnight is in `service_store` |
| `rate_limiter` | windows, memory, `Retry-After`, the day's visitors | 2 keys, limit 2, more than two windows in half-second ticks, a midnight in the middle |
| `store` | ordinals, the context of the next turn, durability, `ConversationLog`, no endless wait | 3 turns of different lengths in 2 conversations, every fault; limits of 0 to 3 turns, and characters that just fit or just do not |
| `web_session` | page, storage and API agree; one request at a time; what a reload restores; no eternal "pending", no locked composer | 3 turns, 2 conversations, expiry and reload, streams that drain under the next request |
| `web_new_chat` | violation: an old stream writes into a new chat | 2 turns |
| `knowledge` | the live index stays valid and loadable; undisturbed commands keep what is there and tell the truth; retrieval ranks | 2 shells, 2 resumes, 3 spellings of 2 subjects and a blank one, blank bodies, a page with and without tracking parameters, proposals of one record; scores with and without a tie, the best one and the best two |
| `backup` | a reported success is there, silence raises an alert, pruning keeps what the policy keeps | 2 runners, 3 runs in 5 days, weeks of two days, retention of one day and two weeks |
| `backup_broken_pipe` | violation: a fragment is reported as a success | 1 runner, 2 runs |

The type invariants of the gate, the service, the limiter, the store, the web
client and the knowledge tools are theorems (`GateTypes`, `ServiceTypes`, ...) and
so in no run.

Two slots are the least with which turns race, three requests the least with
which somebody also waits. All turns in these systems are alike, so a third
actor plays every role that a fourth could. Where the bound itself matters (the
overshoot of the budget and of the turn limit, the counters of the gate, the
windows of the rate limiter), a theorem covers every value.

Service runs end when their requests are done, the page of `web_new_chat` when
its messages are, and the backup when its days and runs are used up; only there
deadlock is not checked. The gate, the limiter, the store, the page of
`web_session` and the knowledge tools are checked for deadlock: their
specifications repeat for ever.

Symmetry is used where a run checks safety only. `service_store` checks liveness
too, which does not go together with it; there `ArrivalsInOrder` has the requests
arrive in the order of their numbers, which leaves out only behaviours that are
others with their requests renamed.

The pass run of `Backup` leaves `DumpFails` out: none of its properties looks
into a snapshot, and what does, fails (`backup_broken_pipe`).

### What the passing runs show

The turn pipeline is sound in what it promises a client and the books: a
completed answer is stored and billed, nothing is billed twice, a slot is
returned exactly once, and nothing stays behind in `_usage_by_message`. Tokens
are lost only when a cancellation, a failing ledger or a restart reaches a record
in flight. A client that has read `message_end` may still count as cancelled, if
it leaves before its stream has ended; nobody counts as completed who was not
told so. Without expiry a conversation exceeds its turn limit, and a day its
budget, by no more than the concurrency allows and one for each transaction that
outlives its caller. Every valid classification leads to an answer: the
preconditions that `stream_response` raises for are never broken by its callers.
What is charged is the usage of the whole stream if its last chunk reports it,
whatever was reported along the way, and never more.

The PostgreSQL store needs its row lock (without it ordinals collide) and no
more: it amounts to an atomic log, through crashes and lost commits. That is
what `assemble_context` relies on when it takes messages in twos.

However many knowledge commands overlap, the live index satisfies its contract,
because each of them writes a whole valid file. What one of two overlapping
commands wrote may be lost; the tools take no lock and promise nothing there. An instance
that the API could load once it can load for ever, at any moment of the tools'
work (`ServableForGood`).

In the browser, as long as no stream breaks behind its `message_end` under a
later request, requests do not overlap and the page, its storage and the API
agree on the conversation; `PendingIsRunning` is proved for every hazard, New
chat and late breaks included. A reload restores the answers up to the first turn that failed:
`completedTranscript` stops there, so an answer that came after a failed one is
gone from the page, though not from the conversation. `ReloadKeepsAnswers` states
this limit as the code has it.

Backup runs that overlap can publish each other's status, and mix their lines in
one file, but a success always
stands for a snapshot that was uploaded and not lost, and an old one is noticed.

### Findings

1. **A forgotten slot** (`gate_forgotten_slot`). On the deployed interpreter a
   waiter may be told that the service is busy beside a free slot. The counters
   stay right, and the next release or arrival uses the slot. `GateForgetsNoSlot`
   proves that CPython 3.13 mends it.
2. **New chat does not end the old one** (`web_new_chat`). Events of a running
   request go to the chat that replaced it, and put the old conversation's id
   under its transcript.
3. **A broken dump is a successful backup** (`backup_broken_pipe`). `backup.sh`
   does not set `pipefail`, so nobody looks at the status of `pg_dump`.
4. **The maximum of turns is none** (`service_turn_limit`). Concurrent turns of a
   conversation pass the check together; by how far they exceed the documented
   maximum is what `ServiceTurnLimit` proves. No overlap is needed if the
   conversation expires during a turn: its history is read as empty and the
   append revives it with all its turns (`Durable`, and `"expiry"` among the
   `Faults`).

Four things no run shows, where code and documents disagree or a reader may be
surprised:

* A stream whose last report is missing is accepted if any chunk had one, and
  charged the partial report, although `chat/model.py:83-84` calls missing final
  usage an error. `FinalUsageCharged` bounds the charge and says when it is
  exact.
* The failure of a stream that breaks behind its `message_end` unlocks the
  composer while the next request runs, so that requests overlap and may mix two
  conversations on the page: finding 2 by another way (`"latebreak"` among the
  `Hazards`).
* A record keeps the hash of its first subject as its id when it is renamed by
  that id. A new record with the old subject then takes its place
  (`service.py:233` and `125`), although `cli-contract.md:108-109` has it that
  "otherwise a changed subject creates a new record".
* Of two knowledge commands that overlap, what one wrote may be lost.

## 5. Fairness

* `ConcurrencyGate`: weak fairness of wake-ups, timers and rejections. The event
  loop runs every ready callback, and `wait_for` arms a timer for every waiter.
  Nothing is assumed about arrivals and releases: the timer answers.
* `ChatService`: every outstanding service call of a request returns or fails.
  The OpenAI client and psycopg time out, and the queue has a timer; a stream may
  have any number of chunks in between (`FairAnswerSpec`). Nothing is
  assumed about clients, faults or midnight.
* `ConversationStore`: a statement that can run does, the server ends the
  transactions of dead clients, and a crashed process is restarted (compose's
  restart policy). A statement that waits for a lock runs when it is free; turns
  are finitely many, so nobody is overtaken for ever.
* `WebConversation`: a request is answered, fails or times out, and React runs
  pending effects. Nothing is assumed about the visitor.

## 6. What is proved

Assumptions are those of the modules: finite sets of callers and requests,
positive limits, and null values that are no members of the sets they stand for.
What only some theorems assume (`NotifyPassedOn`, `Orderly`, `AbsenceShows`) stands in their statements.

* `ConcurrencyGateProofs`. `GateInv` is the type invariant and `Bookkeeping`: the
  futures on the condition are exactly those of the pending waiters, once each,
  the counters are the cardinalities of who holds and who is parked, and both
  are within their limits. `NoForgottenSlot` is inductive relative to it if `NotifyPassedOn`: it
  counts the callers that have been woken, since "somebody is woken" alone would
  not survive two slots that are freed at once. `GateImplementsAdmission` maps
  parked callers, woken ones included, to the queue. A waiter whose timer fires
  beside a slot that has just been freed is rejected on either interpreter, so
  nothing is claimed about who is turned away.
* `ChatServiceProofs`. `AllInPlace` says for every position of a turn what its
  bill, its entry in the usage map, its lease, reply and outcomes are; it is what
  makes the properties inductive, which each speak of one of these.
  `ServiceCompletesHonestly` needs `AppendedIsStored` beside it: past the append
  the turn is in the history it was appended to. `ServiceOneOutcome` needs that a
  request not yet settled has no outcome (`Counted`) and that a step either is
  silent about a request (`Quiet`), tells its client of the end (`TellsAll`) or
  settles it (`Settles`).
  `ServiceImplementsLog` needs that an open turn's conversation has a row and that
  a turn before its append is in no history (`LogInv`).
* `ChatAnswerProofs`. First the limits of the service. `BudgetInv` bounds, for
  each day, what is recorded plus the most that the turns in flight may still
  record; a turn joins the sum only under the budget and holds a slot while it is
  in it. A transaction that goes adrift leaves that sum with its caller's slot and
  joins the ones that outlive their callers, each of which is worth one
  generation when it lands. `TurnInv` does the same for the turns of a
  conversation. Then the answer.
  `AnswerImplementsService`: each step of `AnswerNext` is a step of `ChatService`
  or a stutter, so every safety theorem of the service holds with routing and
  chunks; `AnswerKeepsLimits` spells this out for the conservation of tokens and
  the two overshoots. `AnswerRouteIsSound` and `AnswerChargesFinalReport` follow
  from an invariant on the locals of the streams that run: no more is reported
  than was used, and a report that is final is all that was used.
* `RateLimiterProofs`. `WindowInv` relates the deques to everything that was ever
  accepted: what is kept is a suffix of what was accepted (`Faithful`), and what
  was dropped is older than a window (`Recent`). The visitors are counted by
  `MonitorCountsVisitors`: the set is that of the keys that asked on its day.
* `ConversationStoreProofs`. `StoreInv`: committed messages are whole pairs with
  ordinals 0, 1, 2, ... and no gap, and while a turn holds the row lock the
  ordinal it has read stays the next one. From this follow `StoreHasNoConflict`,
  `StoreKeepsAnswered` and `StoreImplementsLog`, where the commit is the append and
  all else is invisible. `StoreContextIsNewestTurns` needs one thing more of the
  store, that a question is stored with its answer, one after the other
  (`Dialogues`); the rest is about `assemble_context`. Its invariant, over the
  rounds of the loop: after round i the newest k turns have been kept, where k is
  i unless a turn before that did not fit. Since lengths are not negative, the
  characters of the newest k turns grow with k, so the k at which the loop stops
  is the greatest that fits.
* `WebConversationProofs`. `PageInv` relates page, storage, requests and the API's
  conversation: requests do not overlap (`OneRunning`), run for the conversation of the
  page (`Current`) and for a turn that is pending (`Awaited`); the answers on the
  page and in the storage are turns of the conversation (`WholePage`,
  `WholeSession`); the storage follows the page until the next effect (`Synced`).
  The theorems that rest on it assume that the page is `Orderly`: that while a
  request runs New chat is not clicked, and no older stream breaks behind its
  `message_end`, which is what finding 2 is about.
  `WebTypes` and `WebPendingIsRunning` need no such assumption.
* `KnowledgeIndexProofs`. `KnowledgeInv` says that whatever a command holds ready
  to be written is valid by itself, which is why no order of writes can spoil
  the index. `AloneInv` and `HonestInv` say what an undisturbed command can rely
  on from one of its reads to the next. `ImportHonest` is about imports after one that ran through: after one that was
  cut off between its writes, importing the former resume again returns early
  over mixed files, and nothing is claimed. `KnowledgeServableForGood` needs that
  every record the tools write passes the API's checks, and that whoever is about to report a success has left both files behind (`LoadedInv`).
  It assumes that no content of a file is the null value (`AbsenceShows`), which
  TLC cannot evaluate for its model values and so stands in the theorem.
  `KnowledgeRetrievalRanked` needs that an index is finite, however many commands
  have written to it (`FiniteInv`): only then is there an order of its hits by
  score and place (`Sortable`), and the documents that are returned are the
  beginning of it.
* `BackupProofs`. `BackupInv`: the newest snapshot is never pruned, so the
  one a status speaks of is there or a newer one is (`NewestKept`); runs and
  statuses speak, line by line, of snapshots that were uploaded, and none has
  completed after the newest run without a failure (`RunsHonest`, `StatusesHonest`). This gives
  `BackupSuccessIsUploaded` and `BackupSilenceRaisesAlarm`. `BackupRetentionKept`
  rests on a lemma about the policy, `NewestOfFewer`: a snapshot that is kept of
  all that were ever taken is kept of any of them. Pruning again and again, also
  by runs that overlap, therefore loses nothing that one pruning would keep.
  `BackupOnlyThePipe` shows that the pipe is all that is wrong in finding 3: if
  `pg_dump` does not fail, every reported success can be restored.

Every safety invariant and action property of the passing runs is a theorem.
That the service's leases implement `Admission` (`ServiceImplementsAdmission`) is
proved and in no run.
Only model-checked is liveness (`EveryTurnEnds`, `QueuedIsAnswered`,
`EveryAppendEnds`, `ComposerUnlocks`), which is out of the prover's reach.

The induction theorems of the library take operators as arguments, which the
provers here cannot instantiate. The proof about `assemble_context` does without
them: it speaks of the set of the rounds for which a statement holds, and a set
that has 0 and with every round the next has all of them (`EveryRound`, from the
well-foundedness of the numbers). That a sorting of the hits exists needs no
induction: each hit goes to the place that is its rank.

## 7. What is not modelled

* Texts: prompts, questions, answers, documents. A turn is its id, usage a number.
* The search engine and the model. Both are external and return anything; the
  checks on what they return are modelled.
* Tokens that are never charged: those of classifications, and of streams that
  break. Nothing in the code or its documents counts them, so no property does.
* Prompts are rendered from constants, tracing copies what happened to LangSmith
  and decides nothing.
* Loading of an instance beyond what `Servable` asks for: the JSON and YAML types
  of the fields, the environment, the evaluation questions.
* The request middleware and the gauges of the gate: increments and settings
  without a condition. The address of a visitor is a key of the limiter, however
  it is resolved.
* `restore.sh` only reads the repository.
* Health and metrics endpoints only read; the web's proxy routes forward one
  request and keep nothing. `clear` methods are for tests.
* The response head: `chat` hands the lease to the stream before Starlette sends
  the head; a client that leaves just then could keep a slot. The window is
  inside Starlette and anyio, and the hazard is listed without a property.
* Several API processes: `doc/PRODUCTION_DEPLOYMENT.md` excludes them.
* Retries that repeat a question. The page may retry a turn that the API has
  stored; the conversation then has the question twice. The API knows no identity
  of a message and nothing says that it should, so the hazard is listed without a
  property.
* Deployment, monitoring, host scripts and evaluations: configuration and one-shot
  commands.
