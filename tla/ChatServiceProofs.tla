-------------------------- MODULE ChatServiceProofs --------------------------
(***************************************************************************)
(* What ChatService guarantees for any number of requests, conversations,  *)
(* slots and days, and any choice of faults.                               *)
(***************************************************************************)
EXTENDS ChatService, FiniteSetTheorems, SequenceTheorems, TLAPS

(***************************************************************************)
(* Each request's position fixes where the tokens of its generation are:   *)
(* this is what makes the two places that pop the usage exclude each other.*)
(***************************************************************************)
NotGenerated == {"idle", "queued", "opening", "context", "budget", "classifying", "generating"}
Opened == {"context", "budget", "classifying", "generating", "appending",
           "recording", "delivering", "completing", "salvaging"}
Settled == {"closing", "done"}

Accounted(r) ==
  /\ pc[r] \in NotGenerated =>
       cost[r] = 0 /\ usage[r] = 0 /\ bill[r].tokens = 0 /\ billed[r] = 0
  /\ pc[r] = "appending" =>
       /\ cost[r] \in 1 .. MaxTokens
       /\ usage[r] = cost[r] /\ bill[r].tokens = 0 /\ billed[r] = 0
  /\ pc[r] \in {"recording", "salvaging"} =>
       /\ cost[r] \in 1 .. MaxTokens
       /\ usage[r] = 0 /\ bill[r].tokens = cost[r] /\ billed[r] = 0
       /\ boundary[r] <= bill[r].day
  /\ pc[r] \in {"delivering", "completing"} =>
       /\ cost[r] \in 1 .. MaxTokens
       /\ usage[r] = 0 /\ bill[r].tokens = 0 /\ billed[r] = cost[r]
  /\ pc[r] \in Settled =>
       /\ usage[r] = 0
       /\ \/ /\ lateBill[r] = "adrift" /\ Lossy
             /\ cost[r] \in 1 .. MaxTokens
             /\ bill[r].tokens = cost[r] /\ billed[r] = 0
             /\ boundary[r] <= bill[r].day
          \/ /\ lateBill[r] # "adrift"
             /\ bill[r].tokens = 0 /\ billed[r] <= cost[r]
             /\ ~Lossy => billed[r] = cost[r]
  /\ pc[r] \notin Settled => lateBill[r] = "none"
  /\ lateTurn[r] # "none" => /\ pc[r] \in Settled \union {"salvaging"}
                             /\ target[r] \in Conversations
  /\ pc[r] \in Opened => target[r] \in Conversations
  /\ boundary[r] <= today

(* A slot is held from the opening of the conversation to the end of the turn. *)
Leased(r) == r \in leases <=> pc[r] \in Working

InPlace(r) == Accounted(r) /\ Leased(r)

AllInPlace == TypeOK /\ \A r \in Requests : InPlace(r)

------------------------------------------------------------------------------
(* Types.                                                                  *)

LEMMA TypesInit == Init => TypeOK
  BY ServiceAssumption DEF Init, TypeOK, Positions, Working, NoBill, Days, Replies, Outcomes, Fates

(* The building blocks keep the types of what they assign.                 *)
LEMMA GotoType ==
  ASSUME TypeOK, NEW r \in Requests, NEW p \in Positions, Goto(r, p)
  PROVE  pc' \in [Requests -> Positions]
  BY DEF TypeOK, Goto

LEMMA ObserveType ==
  ASSUME TypeOK, NEW r \in Requests, NEW o \in Outcomes, Observe(r, o)
  PROVE  observed' \in [Requests -> Seq(Outcomes)]
  <1>1. Append(observed[r], o) \in Seq(Outcomes)
    BY AppendProperties DEF TypeOK
  <1>2. QED
    BY <1>1 DEF TypeOK, Observe

LEMMA TellType ==
  ASSUME TypeOK, NEW r \in Requests, NEW what \in Replies, Tell(r, what)
  PROVE  reply' \in [Requests -> Replies]
  BY DEF TypeOK, Tell

LEMMA SettleType ==
  ASSUME TypeOK, NEW r \in Requests, NEW o \in Outcomes, NEW what \in Replies,
         Settle(r, o, what)
  PROVE  /\ pc' \in [Requests -> Positions]
         /\ observed' \in [Requests -> Seq(Outcomes)]
         /\ reply' \in [Requests -> Replies]
  <1>1. "closing" \in Positions
    BY DEF Positions, Working
  <1>2. QED
    BY <1>1, GotoType, ObserveType, TellType DEF Settle

LEMMA FailedType ==
  ASSUME TypeOK, NEW r \in Requests, Failed(r)
  PROVE  /\ pc' \in [Requests -> Positions]
         /\ observed' \in [Requests -> Seq(Outcomes)]
         /\ reply' \in [Requests -> Replies]
  BY SettleType DEF Failed, Outcomes, Replies

LEMMA CancelledType ==
  ASSUME TypeOK, NEW r \in Requests, Cancelled(r)
  PROVE  /\ pc' \in [Requests -> Positions]
         /\ observed' \in [Requests -> Seq(Outcomes)]
         /\ reply' \in [Requests -> Replies]
  <1>1. "closing" \in Positions /\ "cancelled" \in Outcomes
    BY DEF Positions, Working, Outcomes
  <1>2. QED
    BY <1>1, GotoType, ObserveType DEF Cancelled, TypeOK

LEMMA TransactionTypes ==
  ASSUME TypeOK, NEW r \in Requests
  PROVE  /\ StoreTurn(r) =>
              /\ history' \in [Conversations -> Seq(Requests)]
              /\ status' \in [Conversations -> {"unused", "live", "expired", "deleted"}]
         /\ RecordBill(r) =>
              /\ spent' \in [0 .. LastDay + 1 -> Nat]
              /\ billed' \in [Requests -> Nat]
         /\ PopUsage(r) =>
              /\ bill' \in [Requests -> [tokens : Nat, day : Days]]
              /\ usage' \in [Requests -> Nat]
         /\ DropBill(r) => bill' \in [Requests -> [tokens : Nat, day : Days]]
         /\ AppendUndecided(r) =>
              /\ history' \in [Conversations -> Seq(Requests)]
              /\ status' \in [Conversations -> {"unused", "live", "expired", "deleted"}]
              /\ lateTurn' \in [Requests -> Fates]
         /\ RecordUndecided(r) =>
              /\ spent' \in [0 .. LastDay + 1 -> Nat]
              /\ billed' \in [Requests -> Nat]
              /\ bill' \in [Requests -> [tokens : Nat, day : Days]]
              /\ lateBill' \in [Requests -> Fates]
  <1>1. ASSUME StoreTurn(r)
        PROVE  /\ history' \in [Conversations -> Seq(Requests)]
               /\ status' \in [Conversations -> {"unused", "live", "expired", "deleted"}]
    <2>1. ASSUME target[r] \in Conversations
          PROVE  Append(history[target[r]], r) \in Seq(Requests)
      BY <2>1, AppendProperties DEF TypeOK
    <2>2. history' \in [Conversations -> Seq(Requests)]
      BY <1>1, <2>1 DEF StoreTurn, TypeOK
    <2>3. status' \in [Conversations -> {"unused", "live", "expired", "deleted"}]
      BY <1>1 DEF StoreTurn, TypeOK
    <2>4. QED
      BY <2>2, <2>3
  <1>2. ASSUME RecordBill(r)
        PROVE  spent' \in [0 .. LastDay + 1 -> Nat] /\ billed' \in [Requests -> Nat]
    BY <1>2 DEF RecordBill, TypeOK
  <1>3. ASSUME PopUsage(r)
        PROVE  /\ bill' \in [Requests -> [tokens : Nat, day : Days]]
               /\ usage' \in [Requests -> Nat]
    BY <1>3 DEF PopUsage, TypeOK
  <1>4. ASSUME DropBill(r)
        PROVE  bill' \in [Requests -> [tokens : Nat, day : Days]]
    BY <1>4, ServiceAssumption DEF DropBill, NoBill, Days, TypeOK
  <1>5. ASSUME AppendUndecided(r)
        PROVE  /\ history' \in [Conversations -> Seq(Requests)]
               /\ status' \in [Conversations -> {"unused", "live", "expired", "deleted"}]
               /\ lateTurn' \in [Requests -> Fates]
    BY <1>1, <1>5 DEF AppendUndecided, Fates, storeVars, TypeOK
  <1>6. ASSUME RecordUndecided(r)
        PROVE  /\ spent' \in [0 .. LastDay + 1 -> Nat]
               /\ billed' \in [Requests -> Nat]
               /\ bill' \in [Requests -> [tokens : Nat, day : Days]]
               /\ lateBill' \in [Requests -> Fates]
    BY <1>2, <1>4, <1>6 DEF RecordUndecided, Fates, ledgerVars, TypeOK
  <1>7. QED
    BY <1>1, <1>2, <1>3, <1>4, <1>5, <1>6

LEMMA TypesStep == TypeOK /\ [Next]_vars => TypeOK'
  <1> SUFFICES ASSUME TypeOK, [Next]_vars PROVE TypeOK'
    OBVIOUS
  <1> USE DEF storeVars, ledgerVars, requestVars, lateVars
  <1>p. Working \subseteq Positions /\ {"idle", "queued", "done"} \subseteq Positions
    BY DEF Positions
  <1>1. ASSUME NEW r \in Requests, RateLimit(r) PROVE TypeOK'
    BY <1>1, <1>p, GotoType, ObserveType, TellType DEF RateLimit, Outcomes, Replies, TypeOK
  <1>2. ASSUME NEW r \in Requests, Arrive(r) PROVE TypeOK'
    <2>1. pc' \in [Requests -> Positions]
      BY <1>2, <1>p, GotoType DEF Arrive, Working
    <2>2. observed' \in [Requests -> Seq(Outcomes)] /\ reply' \in [Requests -> Replies]
      BY <1>2, ObserveType, TellType DEF Arrive, Outcomes, Replies, TypeOK
    <2>3. /\ mode' \in [Requests -> {"json", "stream"}]
          /\ target' \in [Requests -> Conversations \union {NoConversation}]
          /\ leases' \in SUBSET Requests
      BY <1>2 DEF Arrive, Modes, Known, TypeOK
    <2>4. QED
      BY <1>2, <2>1, <2>2, <2>3 DEF Arrive, TypeOK
  <1>3. ASSUME NEW r \in Requests, Admit(r) PROVE TypeOK'
    BY <1>3, <1>p, GotoType DEF Admit, Working, TypeOK
  <1>4. ASSUME NEW r \in Requests, QueueTimeout(r) PROVE TypeOK'
    BY <1>4, <1>p, GotoType, ObserveType, TellType DEF QueueTimeout, Outcomes, Replies, TypeOK
  <1>5. ASSUME NEW r \in Requests, CreateConversation(r) PROVE TypeOK'
    <2>1. PICK c \in Conversations :
            /\ status' = [status EXCEPT ![c] = "live"]
            /\ target' = [target EXCEPT ![r] = c]
      BY <1>5 DEF CreateConversation
    <2>2. /\ status' \in [Conversations -> {"unused", "live", "expired", "deleted"}]
          /\ target' \in [Requests -> Conversations \union {NoConversation}]
      BY <2>1 DEF TypeOK
    <2>3. pc' \in [Requests -> Positions]
      BY <1>5, <1>p, GotoType DEF CreateConversation, Working
    <2>4. QED
      BY <1>5, <2>2, <2>3 DEF CreateConversation, TypeOK
  <1>6. ASSUME NEW r \in Requests, FindConversation(r) PROVE TypeOK'
    BY <1>6, <1>p, GotoType DEF FindConversation, Working, TypeOK
  <1>7. ASSUME NEW r \in Requests, MissConversation(r) PROVE TypeOK'
    BY <1>7, <1>p, GotoType, TellType DEF MissConversation, Working, Replies, TypeOK
  <1>8. ASSUME NEW r \in Requests, ReadHistory(r) PROVE TypeOK'
    BY <1>8, <1>p, GotoType, SettleType DEF ReadHistory, Working, Outcomes, Replies, TypeOK
  <1>9. ASSUME NEW r \in Requests, CheckBudget(r) PROVE TypeOK'
    BY <1>9, <1>p, GotoType, SettleType DEF CheckBudget, Working, Outcomes, Replies, TypeOK
  <1>10. ASSUME NEW r \in Requests, Classify(r) PROVE TypeOK'
    BY <1>10, <1>p, GotoType DEF Classify, Working, TypeOK
  <1>11. ASSUME NEW r \in Requests, FinishGeneration(r) PROVE TypeOK'
    <2>1. PICK n \in 1 .. MaxTokens : /\ usage' = [usage EXCEPT ![r] = n]
                                      /\ cost' = [cost EXCEPT ![r] = n]
      BY <1>11 DEF FinishGeneration
    <2>2. n \in Nat
      BY ServiceAssumption
    <2>3. usage' \in [Requests -> Nat] /\ cost' \in [Requests -> Nat]
      BY <2>1, <2>2 DEF TypeOK
    <2>4. pc' \in [Requests -> Positions]
      BY <1>11, <1>p, GotoType DEF FinishGeneration, Working
    <2>5. QED
      BY <1>11, <2>3, <2>4 DEF FinishGeneration, TypeOK
  <1>13. ASSUME NEW r \in Requests, AppendTurn(r) PROVE TypeOK'
    BY <1>13, <1>p, GotoType, TransactionTypes DEF AppendTurn, Working, TypeOK
  <1>14. ASSUME NEW r \in Requests, RecordUsage(r) PROVE TypeOK'
    BY <1>14, <1>p, GotoType, TransactionTypes DEF RecordUsage, Working, TypeOK
  <1>15. ASSUME NEW r \in Requests, Deliver(r) PROVE TypeOK'
    <2>1. pc' \in [Requests -> Positions]
      BY <1>15, <1>p, GotoType DEF Deliver, Working
    <2>2. observed' \in [Requests -> Seq(Outcomes)] /\ reply' \in [Requests -> Replies]
      BY <1>15, ObserveType, TellType DEF Deliver, Outcomes, Replies, TypeOK
    <2>3. QED
      BY <1>15, <2>1, <2>2 DEF Deliver, TypeOK
  <1>12. ASSUME NEW r \in Requests, Complete(r) PROVE TypeOK'
    BY <1>12, <1>p, GotoType, ObserveType DEF Complete, Working, Outcomes, TypeOK
  <1>16. ASSUME NEW r \in Requests, Close(r) PROVE TypeOK'
    BY <1>16, <1>p, GotoType DEF Close, TypeOK
  <1>17. ASSUME NEW r \in Requests, Salvage(r) PROVE TypeOK'
    BY <1>17, <1>p, FailedType, TransactionTypes DEF Salvage, TypeOK
  <1>18. ASSUME NEW r \in Requests, OpeningFails(r) PROVE TypeOK'
    BY <1>18, <1>p, GotoType, TellType DEF OpeningFails, Working, Replies, TypeOK
  <1>19. ASSUME NEW r \in Requests, TurnFails(r) PROVE TypeOK'
    BY <1>19, <1>p, FailedType DEF TurnFails, TypeOK
  <1>20. ASSUME NEW r \in Requests, AppendFails(r) PROVE TypeOK'
    BY <1>20, <1>p, GotoType, TransactionTypes DEF AppendFails, Working, TypeOK
  <1>21. ASSUME NEW r \in Requests, RecordFails(r) PROVE TypeOK'
    BY <1>21, <1>p, FailedType, TransactionTypes DEF RecordFails, TypeOK
  <1>22. ASSUME NEW r \in Requests, CancelQuietly(r) PROVE TypeOK'
    BY <1>22, <1>p, CancelledType DEF CancelQuietly, TypeOK
  <1>23. ASSUME NEW r \in Requests, CancelAppend(r) PROVE TypeOK'
    BY <1>23, <1>p, CancelledType, TransactionTypes DEF CancelAppend, TypeOK
  <1>24. ASSUME NEW r \in Requests, CancelRecord(r) PROVE TypeOK'
    BY <1>24, <1>p, CancelledType, TransactionTypes DEF CancelRecord, LandTurn, LandBill, AppendUndecided, TypeOK
  <1>25. ASSUME Restart PROVE TypeOK'
    BY <1>25, <1>p DEF Restart, Fates, TypeOK
  <1>26. ASSUME NEW c \in Conversations, Expire(c) PROVE TypeOK'
    BY <1>26 DEF Expire, TypeOK
  <1>27. ASSUME Midnight PROVE TypeOK'
    <2>1. today' \in Days
      BY <1>27, ServiceAssumption DEF Midnight, Days, TypeOK
    <2>2. UNCHANGED <<requestVars, leases, usage, storeVars, ledgerVars, lateVars, reply,
                      observed, cost>>
      BY <1>27 DEF Midnight
    <2>3. QED
      BY <2>1, <2>2 DEF TypeOK
  <1>28. ASSUME UNCHANGED vars PROVE TypeOK'
    BY <1>28 DEF vars, TypeOK
  <1>29. ASSUME NEW r \in Requests, LandTurn(r) PROVE TypeOK'
    BY <1>29, TransactionTypes DEF LandTurn, Fates, TypeOK
  <1>30. ASSUME NEW r \in Requests, LandBill(r) PROVE TypeOK'
    BY <1>30, TransactionTypes DEF LandBill, Fates, TypeOK
  <1>31. QED
    BY <1>1, <1>2, <1>3, <1>4, <1>5, <1>6, <1>7, <1>8, <1>9, <1>10, <1>11, <1>12, <1>13,
       <1>14, <1>15, <1>16, <1>17, <1>18, <1>19, <1>20, <1>21, <1>22, <1>23, <1>24,
       <1>25, <1>26, <1>27, <1>28, <1>29, <1>30
       DEF Next, SameDay, Turn, Failure, Cancel

(* Every variable keeps its type, whatever fails.                          *)
THEOREM ServiceTypes == Spec => []TypeOK
  BY TypesInit, TypesStep, PTL DEF Spec

------------------------------------------------------------------------------
(* One step of one request, as opposed to a step of the environment.       *)
RequestStep(r) ==
  \/ RateLimit(r) \/ Arrive(r) \/ Admit(r) \/ QueueTimeout(r)
  \/ Turn(r) \/ Failure(r) \/ Cancel(r) \/ LandTurn(r) \/ LandBill(r)

(* What the accounting and the leases read of request q.                   *)
Untouched(q) ==
  /\ pc'[q] = pc[q] /\ target'[q] = target[q] /\ boundary'[q] = boundary[q]
  /\ usage'[q] = usage[q] /\ bill'[q] = bill[q]
  /\ billed'[q] = billed[q] /\ cost'[q] = cost[q]
  /\ lateTurn'[q] = lateTurn[q] /\ lateBill'[q] = lateBill[q]
  /\ q \in leases' <=> q \in leases

(* A request's step leaves the others alone.                               *)
LEMMA OthersUntouched ==
  ASSUME TypeOK, NEW r \in Requests, RequestStep(r), NEW q \in Requests, q # r
  PROVE  Untouched(q)
  <1> USE DEF TypeOK, Untouched, Goto, storeVars, ledgerVars, requestVars, lateVars
  <1>1. CASE RateLimit(r) BY <1>1 DEF RateLimit
  <1>2. CASE Arrive(r)
    <2>1. pc'[q] = pc[q] /\ target'[q] = target[q] /\ (q \in leases' <=> q \in leases)
      BY <1>2 DEF Arrive
    <2>2. QED
      BY <1>2, <2>1 DEF Arrive
  <1>3. CASE Admit(r) BY <1>3 DEF Admit
  <1>4. CASE QueueTimeout(r) BY <1>4 DEF QueueTimeout
  <1>5. CASE CreateConversation(r) BY <1>5 DEF CreateConversation
  <1>6. CASE FindConversation(r) BY <1>6 DEF FindConversation
  <1>7. CASE MissConversation(r) BY <1>7 DEF MissConversation
  <1>8. CASE ReadHistory(r) BY <1>8 DEF ReadHistory, Settle
  <1>9. CASE CheckBudget(r) BY <1>9 DEF CheckBudget, Settle
  <1>10. CASE Classify(r) BY <1>10 DEF Classify
  <1>11. CASE FinishGeneration(r) BY <1>11 DEF FinishGeneration
  <1>12. CASE AppendTurn(r) BY <1>12 DEF AppendTurn, PopUsage
  <1>13. CASE RecordUsage(r) BY <1>13 DEF RecordUsage, RecordBill, DropBill
  <1>14. CASE Deliver(r) \/ Complete(r) BY <1>14 DEF Deliver, Complete
  <1>15. CASE Close(r) BY <1>15 DEF Close
  <1>16. CASE Salvage(r) BY <1>16 DEF Salvage, RecordBill, DropBill, Failed, Settle
  <1>17. CASE OpeningFails(r) BY <1>17 DEF OpeningFails
  <1>18. CASE TurnFails(r) BY <1>18 DEF TurnFails, Failed, Settle
  <1>19. CASE AppendFails(r) BY <1>19 DEF AppendFails, AppendUndecided, PopUsage
  <1>20. CASE RecordFails(r)
    BY <1>20 DEF RecordFails, RecordUndecided, RecordBill, DropBill, Failed, Settle
  <1>21. CASE CancelQuietly(r) BY <1>21 DEF CancelQuietly, Cancelled
  <1>22. CASE CancelAppend(r) BY <1>22 DEF CancelAppend, AppendUndecided, Cancelled
  <1>23. CASE CancelRecord(r)
    BY <1>23 DEF CancelRecord, Cancelled, RecordUndecided, RecordBill, DropBill
  <1>24. CASE LandTurn(r) BY <1>24 DEF LandTurn
  <1>25. CASE LandBill(r) BY <1>25 DEF LandBill, RecordBill, DropBill
  <1>26. QED
    BY <1>1, <1>2, <1>3, <1>4, <1>5, <1>6, <1>7, <1>8, <1>9, <1>10, <1>11, <1>12,
       <1>13, <1>14, <1>15, <1>16, <1>17, <1>18, <1>19, <1>20, <1>21, <1>22, <1>23,
       <1>24, <1>25
       DEF RequestStep, Turn, Failure, Cancel

(* What a request that is left alone keeps.                                *)
LEMMA InPlaceFrame ==
  ASSUME NEW q \in Requests, InPlace(q), Untouched(q),
         today \in Nat, today' \in Nat, boundary[q] \in Nat, today <= today'
  PROVE  InPlace(q)'
  BY DEF InPlace, Accounted, Leased, Untouched, Lossy

(* The types, of one request.                                              *)
LEMMA PointTypes ==
  ASSUME TypeOK, NEW r \in Requests
  PROVE  /\ pc[r] \in Positions
         /\ boundary[r] \in Nat /\ today \in Nat
         /\ bill[r] \in [tokens : Nat, day : Nat]
         /\ usage[r] \in Nat /\ cost[r] \in Nat /\ billed[r] \in Nat
         /\ lateTurn[r] \in Fates /\ lateBill[r] \in Fates
  BY DEF TypeOK, Days

(* Each step of a request moves the tokens of its generation along.        *)
LEMMA StepInPlace ==
  ASSUME TypeOK, NEW r \in Requests, RequestStep(r), InPlace(r)
  PROVE  InPlace(r)'
  <1> DEFINE Place == <<cost, usage, bill, billed, target, boundary, today, lateTurn, lateBill>>
  <1>t. /\ pc[r] \in Positions
        /\ boundary[r] \in Nat /\ today \in Nat
        /\ bill[r] \in [tokens : Nat, day : Nat]
        /\ usage[r] \in Nat /\ cost[r] \in Nat /\ billed[r] \in Nat
        /\ lateTurn[r] \in Fates /\ lateBill[r] \in Fates
    BY PointTypes
  <1>i. Accounted(r) /\ Leased(r)
    BY DEF InPlace
  <1> USE DEF InPlace, Accounted, Leased, Working, NotGenerated, Opened, Settled, storeVars,
         ledgerVars, lateVars
  \* A step that only moves the request, and perhaps its lease.
  <1>m. ASSUME UNCHANGED Place,
               \/ pc[r] = "idle" /\ pc'[r] \in {"opening", "queued", "done"}
               \/ pc[r] = "queued" /\ pc'[r] \in {"opening", "done"}
               \/ pc[r] = "opening" /\ pc'[r] = "context" /\ target[r] \in Conversations
               \/ pc[r] = "budget" /\ pc'[r] = "classifying"
               \/ pc[r] = "classifying" /\ pc'[r] = "generating"
               \/ pc[r] = "delivering" /\ pc'[r] = "completing"
               \/ pc[r] \in NotGenerated \union {"delivering", "completing"} /\ pc'[r] = "closing"
               \/ pc[r] = "closing" /\ pc'[r] = "done",
               r \in leases' <=> pc'[r] \in Working
        PROVE  InPlace(r)'
    BY <1>t, <1>i, <1>m DEF Lossy
  <1>1. CASE RateLimit(r)
    <2>1. pc[r] = "idle" /\ pc'[r] = "done" /\ UNCHANGED <<Place, leases>>
      BY <1>1 DEF RateLimit, Goto, TypeOK
    <2>2. QED
      BY <1>i, <1>m, <2>1
  <1>2. CASE Arrive(r)
    <2>1. /\ pc[r] = "idle" /\ pc'[r] \in {"opening", "queued", "done"}
          /\ r \in leases' <=> r \in leases \/ pc'[r] = "opening"
          /\ UNCHANGED <<cost, usage, bill, billed, boundary, today, lateVars>>
      BY <1>2 DEF Arrive, Goto, TypeOK
    <2>2. QED
      BY <1>t, <1>i, <2>1
  <1>3. CASE Admit(r)
    <2>1. pc[r] = "queued" /\ pc'[r] = "opening" /\ r \in leases' /\ UNCHANGED Place
      BY <1>3 DEF Admit, Goto, TypeOK
    <2>2. QED
      BY <1>m, <2>1
  <1>4. CASE QueueTimeout(r)
    <2>1. pc[r] = "queued" /\ pc'[r] = "done" /\ UNCHANGED <<Place, leases>>
      BY <1>4 DEF QueueTimeout, Goto, TypeOK
    <2>2. QED
      BY <1>i, <1>m, <2>1
  <1>5. CASE CreateConversation(r)
    <2>1. /\ pc[r] = "opening" /\ pc'[r] = "context" /\ target'[r] \in Conversations
          /\ UNCHANGED <<cost, usage, bill, billed, boundary, today, lateVars, leases>>
      BY <1>5 DEF CreateConversation, Goto, TypeOK
    <2>2. QED
      BY <1>t, <1>i, <2>1
  <1>6. CASE FindConversation(r)
    <2>1. /\ pc[r] = "opening" /\ pc'[r] = "context" /\ target[r] \in Conversations
          /\ UNCHANGED <<Place, leases>>
      BY <1>6 DEF FindConversation, Goto, TypeOK
    <2>2. QED
      BY <1>i, <1>m, <2>1
  <1>7. CASE MissConversation(r) \/ OpeningFails(r)
    <2>1. pc[r] = "opening" /\ pc'[r] = "closing" /\ UNCHANGED <<Place, leases>>
      BY <1>7 DEF MissConversation, OpeningFails, Goto, TypeOK
    <2>2. QED
      BY <1>i, <1>m, <2>1
  <1>8. CASE ReadHistory(r)
    <2>1. /\ pc[r] = "context" /\ pc'[r] \in {"closing", "budget"}
          /\ boundary'[r] \in {boundary[r], today}
          /\ UNCHANGED <<cost, usage, bill, billed, target, today, lateVars, leases>>
      BY <1>8 DEF ReadHistory, Settle, Goto, TypeOK
    <2>2. QED
      BY <1>t, <1>i, <2>1
  <1>9. CASE CheckBudget(r)
    <2>1. /\ pc[r] = "budget" /\ pc'[r] \in {"closing", "classifying"}
          /\ UNCHANGED <<Place, leases>>
      BY <1>9 DEF CheckBudget, Settle, Goto, TypeOK
    <2>2. QED
      BY <1>i, <1>m, <2>1
  <1>10. CASE Classify(r)
    <2>1. pc[r] = "classifying" /\ pc'[r] = "generating" /\ UNCHANGED <<Place, leases>>
      BY <1>10 DEF Classify, Goto, TypeOK
    <2>2. QED
      BY <1>i, <1>m, <2>1
  <1>11. CASE FinishGeneration(r)
    <2>1. /\ pc[r] = "generating" /\ pc'[r] = "appending"
          /\ cost'[r] \in 1 .. MaxTokens /\ usage'[r] = cost'[r]
          /\ UNCHANGED <<bill, billed, target, boundary, today, lateVars, leases>>
      BY <1>11 DEF FinishGeneration, Goto, TypeOK
    <2>2. QED
      BY <1>t, <1>i, <2>1
  <1>12. CASE AppendTurn(r) \/ AppendFails(r)
    <2>1. /\ pc[r] = "appending"
          /\ \/ pc'[r] = "recording" /\ lateTurn' = lateTurn
             \/ pc'[r] = "salvaging" /\ lateTurn'[r] \in {lateTurn[r], "adrift"}
          /\ bill'[r] = [tokens |-> usage[r], day |-> today] /\ usage'[r] = 0
          /\ UNCHANGED <<cost, billed, target, boundary, today, lateBill, leases>>
      BY <1>12 DEF AppendTurn, AppendFails, AppendUndecided, PopUsage, Goto, TypeOK
    <2>2. QED
      BY <1>t, <1>i, <2>1
  <1>13. CASE RecordUsage(r) \/ Salvage(r)
    <2>1. \/ pc[r] = "recording" /\ pc'[r] = "delivering"
          \/ pc[r] = "salvaging" /\ pc'[r] = "closing"
      <3>1. RecordUsage(r) => pc[r] = "recording" /\ pc'[r] = "delivering"
        BY DEF RecordUsage, Goto, TypeOK
      <3>2. Salvage(r) => pc[r] = "salvaging" /\ pc'[r] = "closing"
        BY DEF Salvage, Failed, Settle, Goto, TypeOK
      <3>3. QED
        BY <1>13, <3>1, <3>2
    <2>2. /\ billed'[r] = billed[r] + bill[r].tokens /\ bill'[r].tokens = 0
          /\ UNCHANGED <<cost, usage, target, boundary, today, lateVars, leases>>
      BY <1>13 DEF RecordUsage, Salvage, RecordBill, DropBill, NoBill, TypeOK
    <2>3. QED
      BY <1>t, <1>i, <2>1, <2>2
  <1>14. CASE Deliver(r)
    <2>1. /\ pc[r] = "delivering" /\ pc'[r] \in {"closing", "completing"}
          /\ UNCHANGED <<Place, leases>>
      BY <1>14 DEF Deliver, Goto, TypeOK
    <2>2. QED
      BY <1>i, <1>m, <2>1
  <1>15. CASE Close(r)
    <2>1. pc[r] = "closing" /\ pc'[r] = "done" /\ r \notin leases' /\ UNCHANGED Place
      BY <1>15 DEF Close, Goto, TypeOK
    <2>2. QED
      BY <1>m, <2>1
  <1>16. CASE Complete(r) \/ TurnFails(r) \/ CancelQuietly(r)
    <2>1. /\ pc[r] \in NotGenerated \union {"delivering", "completing"}
          /\ pc[r] \in Working
          /\ pc'[r] = "closing" /\ UNCHANGED <<Place, leases>>
      BY <1>16 DEF Complete, TurnFails, CancelQuietly, Cancelled, Failed, Settle, Goto, TypeOK
    <2>2. QED
      BY <1>i, <1>m, <2>1
  <1>17. CASE RecordFails(r) \/ CancelRecord(r)
    <2>1. pc[r] \in {"recording", "salvaging"} /\ pc'[r] = "closing" /\ Lossy
      BY <1>17 DEF RecordFails, CancelRecord, CanCancel, Cancelled, Failed, Settle, Goto,
           TypeOK, Lossy
    <2>2. /\ \/ /\ billed'[r] = billed[r] + bill[r].tokens /\ bill'[r].tokens = 0
                /\ lateBill' = lateBill
             \/ lateBill'[r] = "adrift" /\ UNCHANGED <<bill, billed>>
          /\ UNCHANGED <<cost, usage, target, boundary, today, lateTurn, leases>>
      BY <1>17 DEF RecordFails, CancelRecord, RecordUndecided, RecordBill, DropBill, NoBill,
         TypeOK
    <2>3. QED
      BY <1>t, <1>i, <2>1, <2>2 DEF Lossy
  <1>18. CASE CancelAppend(r)
    <2>1. /\ pc[r] = "appending" /\ pc'[r] = "closing" /\ Lossy /\ usage'[r] = 0
          /\ lateTurn'[r] \in {lateTurn[r], "adrift"}
          /\ UNCHANGED <<cost, bill, billed, target, boundary, today, lateBill, leases>>
      BY <1>18 DEF CancelAppend, AppendUndecided, CanCancel, Cancelled, Goto, TypeOK, Lossy
    <2>2. QED
      BY <1>t, <1>i, <2>1 DEF Lossy
  <1>19. CASE LandTurn(r)
    <2>1. /\ lateTurn[r] = "adrift" /\ lateTurn'[r] = "landed"
          /\ UNCHANGED <<pc, cost, usage, bill, billed, target, boundary, today, lateBill, leases>>
      BY <1>19 DEF LandTurn, requestVars, TypeOK
    <2>2. QED
      BY <1>t, <1>i, <2>1 DEF Lossy
  <1>20. CASE LandBill(r)
    <2>1. /\ lateBill[r] = "adrift" /\ lateBill'[r] = "landed"
          /\ billed'[r] = billed[r] + bill[r].tokens /\ bill'[r].tokens = 0
          /\ UNCHANGED <<pc, cost, usage, target, boundary, today, lateTurn, leases>>
      BY <1>20 DEF LandBill, RecordBill, DropBill, NoBill, TypeOK
    <2>2. QED
      BY <1>t, <1>i, <2>1 DEF Lossy
  <1>21. QED
    BY <1>1, <1>2, <1>3, <1>4, <1>5, <1>6, <1>7, <1>8, <1>9, <1>10, <1>11, <1>12,
       <1>13, <1>14, <1>15, <1>16, <1>17, <1>18, <1>19, <1>20
       DEF RequestStep, Turn, Failure, Cancel

LEMMA InPlaceInit == Init => AllInPlace
  <1> SUFFICES ASSUME Init PROVE \A r \in Requests : InPlace(r)
    BY TypesInit DEF AllInPlace
  <1>1. QED
    BY DEF Init, InPlace, Accounted, Leased, Working, NotGenerated, Opened, Settled, NoBill

LEMMA InPlaceStep == AllInPlace /\ [Next]_vars => AllInPlace'
  <1> SUFFICES ASSUME AllInPlace, [Next]_vars PROVE AllInPlace'
    OBVIOUS
  <1>1. TypeOK /\ TypeOK'
    BY TypesStep DEF AllInPlace
  <1>2. today \in Nat /\ today' \in Nat /\ \A q \in Requests : boundary[q] \in Nat
    BY <1>1 DEF TypeOK, Days
  <1>3. ASSUME today <= today', NEW q \in Requests, Untouched(q) PROVE InPlace(q)'
    BY <1>2, <1>3, InPlaceFrame DEF AllInPlace
  <1>4. ASSUME NEW r \in Requests, RequestStep(r) PROVE \A q \in Requests : InPlace(q)'
    <2>1. today' = today
      BY <1>4 DEF RequestStep, Turn, Failure, Cancel, RateLimit, Arrive, Admit, QueueTimeout,
           CreateConversation, FindConversation, MissConversation, ReadHistory, CheckBudget,
           Classify, FinishGeneration, AppendTurn, RecordUsage, Deliver, Complete, Close, Salvage,
           OpeningFails, TurnFails, AppendFails, RecordFails, CancelQuietly, CancelAppend,
           CancelRecord, LandTurn, LandBill
    <2>2. InPlace(r)'
      BY <1>1, <1>4, StepInPlace DEF AllInPlace
    <2>3. ASSUME NEW q \in Requests, q # r PROVE InPlace(q)'
      BY <1>1, <1>2, <1>3, <1>4, <2>1, <2>3, OthersUntouched
    <2>4. QED
      BY <2>2, <2>3
  <1>5. ASSUME Restart PROVE \A q \in Requests : InPlace(q)'
    <2> TAKE q \in Requests
    <2>1. /\ pc'[q] = IF pc[q] = "idle" THEN "idle" ELSE "done"
          /\ q \notin leases' /\ usage'[q] = 0
          /\ lateTurn'[q] = IF pc[q] = "appending" THEN "adrift" ELSE lateTurn[q]
          /\ lateBill'[q] = IF pc[q] \in {"recording", "salvaging"} THEN "adrift" ELSE lateBill[q]
          /\ "restart" \in Faults
          /\ UNCHANGED <<cost, bill, billed, target, boundary, today>>
      BY <1>1, <1>5 DEF Restart, TypeOK, ledgerVars
    <2>2. Accounted(q)
      BY DEF AllInPlace, InPlace
    <2>3. /\ pc[q] \in Positions /\ cost[q] \in Nat /\ billed[q] \in Nat
          /\ bill[q] \in [tokens : Nat, day : Nat] /\ boundary[q] \in Nat /\ today \in Nat
          /\ lateTurn[q] \in Fates /\ lateBill[q] \in Fates
      BY <1>1, PointTypes
    <2>4. Lossy
      BY <2>1 DEF Lossy
    <2>5. Leased(q)'
      BY <2>1 DEF Leased, Working
    <2>6. CASE pc[q] = "idle"
      BY <2>1, <2>2, <2>3, <2>5, <2>6 DEF InPlace, Accounted, NotGenerated, Opened, Settled
    <2>7. CASE pc[q] \in {"recording", "salvaging"}
      BY <2>1, <2>2, <2>3, <2>4, <2>5, <2>7
         DEF InPlace, Accounted, NotGenerated, Opened, Settled, Lossy
    <2>8. CASE pc[q] \in Settled
      BY <2>1, <2>2, <2>3, <2>4, <2>5, <2>8
         DEF InPlace, Accounted, NotGenerated, Opened, Settled, Lossy
    <2>9. CASE pc[q] \notin Settled \union {"idle", "recording", "salvaging"}
      BY <2>1, <2>2, <2>3, <2>4, <2>5, <2>9
         DEF InPlace, Accounted, NotGenerated, Opened, Settled, Positions, Working, Lossy
    <2>10. QED
      BY <2>6, <2>7, <2>8, <2>9
  <1>6. ASSUME NEW c \in Conversations, Expire(c) PROVE \A q \in Requests : InPlace(q)'
    BY <1>2, <1>3, <1>6 DEF Expire, Untouched, requestVars, ledgerVars, lateVars
  <1>7. ASSUME Midnight PROVE \A q \in Requests : InPlace(q)'
    BY <1>2, <1>3, <1>7 DEF Midnight, Untouched, requestVars, ledgerVars, lateVars
  <1>8. ASSUME UNCHANGED vars PROVE \A q \in Requests : InPlace(q)'
    BY <1>2, <1>3, <1>8 DEF vars, Untouched
  <1>9. QED
    BY <1>1, <1>4, <1>5, <1>6, <1>7, <1>8 DEF Next, SameDay, RequestStep, AllInPlace

LEMMA AlwaysInPlace == Spec => []AllInPlace
  BY InPlaceInit, InPlaceStep, PTL DEF Spec

(* The lease lives as long as the turn, whatever ends it.                  *)
THEOREM ServiceLeases == Spec => []LeaseFollowsTurn
  <1>1. AllInPlace => LeaseFollowsTurn
    BY DEF AllInPlace, InPlace, Leased, LeaseFollowsTurn, TypeOK
  <1>2. QED
    BY <1>1, AlwaysInPlace, PTL

(* So the tokens of a generation are in one place, or lost for a reason.   *)
LEMMA Tracked ==
  ASSUME AllInPlace, NEW r \in Requests
  PROVE  /\ usage[r] # 0 => pc[r] = "appending"
         /\ TokensTracked(r) <= cost[r]
         /\ ~Lossy => TokensTracked(r) = cost[r]
  <1>1. Accounted(r) /\ TypeOK
    BY DEF AllInPlace, InPlace
  <1>2. /\ pc[r] \in Positions /\ bill[r] \in [tokens : Nat, day : Nat]
        /\ usage[r] \in Nat /\ cost[r] \in Nat /\ billed[r] \in Nat
    BY <1>1, PointTypes
  <1>3. CASE pc[r] \in NotGenerated
    BY <1>1, <1>2, <1>3 DEF Accounted, NotGenerated, TokensTracked
  <1>4. CASE pc[r] = "appending"
    BY <1>1, <1>2, <1>4 DEF Accounted, TokensTracked
  <1>5. CASE pc[r] \in {"recording", "salvaging"}
    BY <1>1, <1>2, <1>5 DEF Accounted, TokensTracked
  <1>6. CASE pc[r] \in {"delivering", "completing"}
    BY <1>1, <1>2, <1>6 DEF Accounted, TokensTracked
  <1>7. CASE pc[r] \in Settled
    BY <1>1, <1>2, <1>7 DEF Accounted, Settled, TokensTracked
  <1>8. QED
    BY <1>2, <1>3, <1>4, <1>5, <1>6, <1>7 DEF NotGenerated, Settled, Positions, Working

(* The usage map holds nothing but the turns that are being appended.      *)
THEOREM ServiceLeavesNoUsage == Spec => []NoUsageResidue
  <1>1. AllInPlace => NoUsageResidue
    BY Tracked DEF NoUsageResidue
  <1>2. QED
    BY <1>1, AlwaysInPlace, PTL

(* No token is recorded twice, under any fault.                            *)
THEOREM ServiceNeverDuplicates == Spec => []UsageNeverDuplicated
  <1>1. AllInPlace => UsageNeverDuplicated
    BY Tracked DEF UsageNeverDuplicated
  <1>2. QED
    BY <1>1, AlwaysInPlace, PTL

(* No token is lost unless the ledger fails, the process dies or a         *)
(* disconnection reaches the database.                                     *)
THEOREM ServiceConservesUsage == Spec => []UsageConserved
  <1>1. AllInPlace => UsageConserved
    BY Tracked DEF UsageConserved
  <1>2. QED
    BY <1>1, AlwaysInPlace, PTL

------------------------------------------------------------------------------
(* A turn whose append returned stays stored until it is answered.         *)
AppendedIsStored ==
  \A r \in Requests : pc[r] \in {"recording", "delivering"} => Stored(r)

AppendTo(r) == history' = [history EXCEPT ![target[r]] = Append(@, r)]

\* Its append may take effect now.
Storing(r) == pc[r] = "appending" \/ lateTurn[r] = "adrift"

(* The only change a request makes to the histories is its own append.     *)
LEMMA HistoryEffect ==
  ASSUME NEW r \in Requests, RequestStep(r)
  PROVE  history' = history \/ (Storing(r) /\ AppendTo(r))
  BY DEF RequestStep, Turn, Failure, Cancel, RateLimit, Arrive, Admit, QueueTimeout,
     CreateConversation, FindConversation, MissConversation, ReadHistory, CheckBudget,
     Classify, FinishGeneration, AppendTurn, RecordUsage, Deliver, Complete, Close, Salvage,
     OpeningFails, TurnFails, AppendFails, RecordFails, CancelQuietly, CancelAppend,
     CancelRecord, LandTurn, LandBill, StoreTurn, AppendUndecided, AppendTo,
     Storing, storeVars

LEMMA StoredStays ==
  ASSUME AllInPlace, NEW r \in Requests, AppendTo(r), Storing(r),
         NEW q \in Requests, target'[q] = target[q], target[q] \in Conversations
  PROVE  (Stored(q) => Stored(q)') /\ (q = r => Stored(q)')
  <1>1. /\ target[r] \in Conversations
        /\ history \in [Conversations -> Seq(Requests)]
    BY DEF AllInPlace, InPlace, Accounted, Opened, Storing, TypeOK
  <1> DEFINE h == history[target[r]]
  <1>2. h \in Seq(Requests)
    BY <1>1
  <1>3. /\ Len(Append(h, r)) = Len(h) + 1
        /\ Append(h, r)[Len(h) + 1] = r
        /\ \A i \in 1 .. Len(h) : Append(h, r)[i] = h[i]
        /\ Len(h) \in Nat
    BY <1>2, AppendProperties, LenProperties
  <1>4. history'[target[q]] = IF target[q] = target[r] THEN Append(h, r) ELSE history[target[q]]
    BY <1>1 DEF AppendTo
  <1>5. ASSUME Stored(q) PROVE Stored(q)'
    <2>1. PICK i \in 1 .. Len(history[target[q]]) : history[target[q]][i] = q
      BY <1>5 DEF Stored
    <2>2. i \in 1 .. Len(history'[target[q]]) /\ history'[target[q]][i] = q
      BY <1>3, <1>4, <2>1
    <2>3. QED
      BY <2>2 DEF Stored
  <1>6. ASSUME q = r PROVE Stored(q)'
    <2>1. Len(h) + 1 \in 1 .. Len(history'[target[q]]) /\ history'[target[q]][Len(h) + 1] = q
      BY <1>3, <1>4, <1>6
    <2>2. QED
      BY <2>1 DEF Stored
  <1>7. QED
    BY <1>5, <1>6

LEMMA AppendedIsStoredStep ==
  AllInPlace /\ AppendedIsStored /\ [Next]_vars => AppendedIsStored'
  <1> SUFFICES ASSUME AllInPlace, AppendedIsStored, [Next]_vars,
                      NEW q \in Requests, pc'[q] \in {"recording", "delivering"}
               PROVE  Stored(q)'
    BY DEF AppendedIsStored
  <1>t. TypeOK
    BY DEF AllInPlace
  <1>1. ASSUME UNCHANGED <<history, pc, target>> PROVE Stored(q)'
    BY <1>1 DEF Stored, AppendedIsStored
  <1>2. ASSUME NEW r \in Requests, RequestStep(r) PROVE Stored(q)'
    <2>1. CASE q # r
      <3>1. pc[q] \in {"recording", "delivering"} /\ target'[q] = target[q]
        BY <1>t, <1>2, <2>1, OthersUntouched DEF Untouched
      <3>2. Stored(q) /\ target[q] \in Conversations
        BY <3>1 DEF AppendedIsStored, AllInPlace, InPlace, Accounted, Opened
      <3>3. CASE history' = history
        BY <3>1, <3>2, <3>3 DEF Stored
      <3>4. CASE AppendTo(r) /\ Storing(r)
        BY <3>1, <3>2, <3>4, StoredStays
      <3>5. QED
        BY <1>2, <3>3, <3>4, HistoryEffect
    <2>2. CASE q = r /\ AppendTurn(r)
      <3>1. AppendTo(r) /\ pc[r] = "appending" /\ Storing(r) /\ target' = target
        BY <2>2 DEF AppendTurn, StoreTurn, AppendTo, Storing
      <3>2. target[q] \in Conversations
        BY <2>2, <3>1 DEF AllInPlace, InPlace, Accounted, Opened
      <3>3. QED
        BY <2>2, <3>1, <3>2, StoredStays
    <2>3. CASE q = r /\ RecordUsage(r)
      <3>1. pc[q] = "recording" /\ UNCHANGED <<history, target>>
        BY <2>3 DEF RecordUsage, storeVars
      <3>2. QED
        BY <3>1 DEF Stored, AppendedIsStored
    <2>4. CASE q = r /\ ~AppendTurn(r) /\ ~RecordUsage(r)
      <3>1. CASE LandTurn(r) \/ LandBill(r)
        BY <2>4, <3>1 DEF LandTurn, LandBill, requestVars, AllInPlace, InPlace, Accounted, Settled
      <3>2. CASE ~LandTurn(r) /\ ~LandBill(r)
       <4>1. pc'[r] \notin {"recording", "delivering"}
        BY <1>t, <1>2, <2>4, <3>2
           DEF RequestStep, Turn, Failure, Cancel, RateLimit, Arrive, Admit, QueueTimeout,
           CreateConversation, FindConversation, MissConversation, ReadHistory, CheckBudget,
           Classify, FinishGeneration, Deliver, Complete, Close, Salvage, OpeningFails, TurnFails,
           AppendFails, RecordFails, CancelQuietly, CancelAppend, CancelRecord, Failed,
           Cancelled, Settle, Goto, TypeOK
       <4>2. QED
        BY <2>4, <4>1
      <3>3. QED
        BY <3>1, <3>2
    <2>5. QED
      BY <2>1, <2>2, <2>3, <2>4
  <1>3. ASSUME Restart PROVE FALSE
    BY <1>3 DEF Restart
  <1>4. ASSUME NEW c \in Conversations, Expire(c) PROVE Stored(q)'
    BY <1>1, <1>4 DEF Expire, requestVars
  <1>5. ASSUME Midnight PROVE Stored(q)'
    BY <1>1, <1>5 DEF Midnight, requestVars, storeVars
  <1>6. ASSUME UNCHANGED vars PROVE Stored(q)'
    BY <1>1, <1>6 DEF vars
  <1>7. QED
    BY <1>2, <1>3, <1>4, <1>5, <1>6 DEF Next, SameDay, RequestStep

(* A client that is told its turn completed has a stored, charged turn.    *)
THEOREM ServiceCompletesHonestly == Spec => CompletedIsStoredAndBilled
  <1>1. Init => AppendedIsStored
    BY DEF Init, AppendedIsStored
  <1>2. ASSUME AllInPlace, AppendedIsStored, [Next]_vars, NEW r \in Requests,
               reply[r] # "complete", reply'[r] = "complete"
        PROVE  Stored(r) /\ cost[r] > 0 /\ billed[r] = cost[r]
    <2>t. TypeOK
      BY <1>2 DEF AllInPlace
    <2>1. Deliver(r)
      <3>1. ASSUME NEW q \in Requests, RequestStep(q), ~Deliver(q) PROVE FALSE
        BY <1>2, <2>t, <3>1
           DEF RequestStep, Turn, Failure, Cancel, RateLimit, Arrive, Admit, QueueTimeout,
           CreateConversation, FindConversation, MissConversation, ReadHistory, CheckBudget,
           Classify, FinishGeneration, AppendTurn, RecordUsage, Complete, Close, Salvage, OpeningFails,
           TurnFails, AppendFails, RecordFails, CancelQuietly, CancelAppend, CancelRecord, LandTurn, LandBill,
           Failed, Cancelled, Settle, Tell, TypeOK
      <3>2. ASSUME NEW q \in Requests, Deliver(q), q # r PROVE FALSE
        BY <1>2, <2>t, <3>2 DEF Deliver, Tell, TypeOK
      <3>3. ASSUME Restart \/ Midnight \/ (\E c \in Conversations : Expire(c)) \/ UNCHANGED vars
            PROVE  FALSE
        BY <1>2, <3>3 DEF Restart, Midnight, Expire, vars
      <3>4. QED
        BY <1>2, <3>1, <3>2, <3>3 DEF Next, SameDay, RequestStep
    <2>2. pc[r] = "delivering"
      BY <2>1 DEF Deliver
    <2>3. QED
      BY <1>2, <2>2 DEF AppendedIsStored, AllInPlace, InPlace, Accounted
  <1>3. AllInPlace /\ AppendedIsStored /\ [Next]_vars
          => [\A r \in Requests :
                reply[r] # "complete" /\ reply'[r] = "complete"
                  => Stored(r) /\ cost[r] > 0 /\ billed[r] = cost[r]]_vars
    BY <1>2
  <1>4. QED
    BY <1>1, <1>3, AppendedIsStoredStep, AlwaysInPlace, PTL
       DEF Spec, CompletedIsStoredAndBilled

------------------------------------------------------------------------------
(* The life cycle of the leases implements Admission.                      *)

LEMMA SameCardinality ==
  ASSUME NEW S PROVE Promise!Cardinality(S) = Cardinality(S)
  BY DEF Promise!Cardinality, Cardinality

(* The three stages, before a step and after it.                           *)
LEMMA StageCases ==
  ASSUME NEW r
  PROVE  /\ r \in leases => StageOf(r) = "active"
         /\ r \notin leases /\ pc[r] = "queued" => StageOf(r) = "queued"
         /\ r \notin leases /\ pc[r] # "queued" => StageOf(r) = "idle"
         /\ r \in leases' => StageOf(r)' = "active"
         /\ r \notin leases' /\ pc'[r] = "queued" => StageOf(r)' = "queued"
         /\ r \notin leases' /\ pc'[r] # "queued" => StageOf(r)' = "idle"
  BY DEF StageOf

LEMMA StagesOfLeases ==
  ASSUME AllInPlace
  PROVE  /\ Promise!SlotFree <=> SlotFree
         /\ Promise!QueueRoom <=> QueueRoom
         /\ \A r \in Requests : pc[r] \in {"idle", "queued", "done"} => r \notin leases
  <1>1. leases \subseteq Requests
    BY DEF AllInPlace, TypeOK
  <1>2. \A r \in Requests : pc[r] \in {"idle", "queued", "done"} => r \notin leases
    BY DEF AllInPlace, InPlace, Leased, Working
  <1>3. Promise!Active = leases
    <2>1. \A r \in Requests : StageOf(r) = "active" <=> r \in leases
      BY StageCases
    <2>2. QED
      BY <1>1, <2>1 DEF Promise!Active
  <1>4. Promise!Queued = Queued
    BY <1>2 DEF Promise!Queued, StageOf, Queued
  <1>5. QED
    BY <1>2, <1>3, <1>4, SameCardinality
       DEF Promise!SlotFree, Promise!QueueRoom, SlotFree, QueueRoom

(* A request's step changes its own stage only.                            *)
LEMMA StageChange ==
  ASSUME TypeOK, NEW r \in Requests, RequestStep(r)
  PROVE  [q \in Requests |-> StageOf(q)]'
           = [[q \in Requests |-> StageOf(q)] EXCEPT ![r] = StageOf(r)']
  <1>1. ASSUME NEW q \in Requests, q # r PROVE StageOf(q)' = StageOf(q)
    BY <1>1, OthersUntouched DEF Untouched, StageOf
  <1>2. QED
    BY <1>1

LEMMA StepSeen ==
  ASSUME AllInPlace, AllInPlace', NEW r \in Requests, RequestStep(r)
  PROVE  Promise!Next \/ UNCHANGED [q \in Requests |-> StageOf(q)]
  <1> DEFINE stage == [q \in Requests |-> StageOf(q)]
  <1>t. TypeOK
    BY DEF AllInPlace
  <1>s. stage' = [stage EXCEPT ![r] = StageOf(r)'] /\ stage[r] = StageOf(r)
    BY <1>t, StageChange
  <1>1. CASE Arrive(r)
    <2>1. /\ pc[r] = "idle" /\ StageOf(r) = "idle"
          /\ \A q \in Requests : pc'[q] \in {"idle", "queued", "done"} => q \notin leases'
      BY <1>1, StagesOfLeases DEF Arrive, StageOf, AllInPlace, InPlace, Leased, Working
    <2>2. CASE SlotFree /\ Goto(r, "opening") /\ leases' = leases \union {r}
      <3>1. StageOf(r)' = "active"
        BY <2>2, StageCases
      <3>2. Promise!Admit(r)
        BY <1>s, <2>1, <2>2, <3>1, StagesOfLeases DEF Promise!Admit, Promise!Move
      <3>3. QED
        BY <3>2 DEF Promise!Next
    <2>3. CASE ~SlotFree /\ QueueRoom /\ Goto(r, "queued")
      <3>1. pc'[r] = "queued"
        BY <1>t, <2>3 DEF Goto, TypeOK
      <3>2. StageOf(r)' = "queued"
        BY <2>1, <3>1 DEF StageOf
      <3>3. Promise!Enqueue(r)
        BY <1>s, <2>1, <2>3, <3>2, StagesOfLeases DEF Promise!Enqueue, Promise!Move
      <3>4. QED
        BY <3>3 DEF Promise!Next
    <2>4. CASE Goto(r, "done")
      <3>1. pc'[r] = "done"
        BY <1>t, <2>4 DEF Goto, TypeOK
      <3>2. StageOf(r)' = "idle"
        BY <2>1, <3>1 DEF StageOf
      <3>3. QED
        BY <1>s, <2>1, <3>2
    <2>5. QED
      BY <1>1, <2>2, <2>3, <2>4 DEF Arrive
  <1>2. CASE Admit(r)
    <2>1. StageOf(r) = "queued" /\ StageOf(r)' = "active" /\ SlotFree
      BY <1>2, StagesOfLeases, StageCases DEF Admit
    <2>2. Promise!Grant(r)
      BY <1>s, <2>1, StagesOfLeases DEF Promise!Grant, Promise!Move
    <2>3. QED
      BY <2>2 DEF Promise!Next
  <1>3. CASE QueueTimeout(r)
    <2>1. pc[r] = "queued" /\ pc'[r] = "done" /\ r \notin leases /\ leases' = leases
      BY <1>3, <1>t, StagesOfLeases DEF QueueTimeout, Goto, TypeOK
    <2>2. StageOf(r) = "queued" /\ StageOf(r)' = "idle"
      BY <2>1 DEF StageOf
    <2>3. Promise!TurnAway(r)
      BY <1>s, <2>2 DEF Promise!TurnAway, Promise!Move
    <2>4. QED
      BY <2>3 DEF Promise!Next
  <1>4. CASE Close(r)
    <2>1. pc[r] = "closing" /\ pc'[r] = "done" /\ r \in leases /\ r \notin leases'
      BY <1>4, <1>t DEF Close, Goto, TypeOK, AllInPlace, InPlace, Leased, Working
    <2>2. StageOf(r) = "active" /\ StageOf(r)' = "idle"
      BY <2>1 DEF StageOf
    <2>3. Promise!Finish(r)
      BY <1>s, <2>2 DEF Promise!Finish, Promise!Move
    <2>4. QED
      BY <2>3 DEF Promise!Next
  <1>5. CASE RateLimit(r)
    <2>1. pc[r] = "idle" /\ pc'[r] = "done" /\ r \notin leases /\ leases' = leases
      BY <1>5, <1>t, StagesOfLeases DEF RateLimit, Goto, TypeOK
    <2>2. StageOf(r)' = StageOf(r)
      BY <2>1 DEF StageOf
    <2>3. QED
      BY <1>s, <2>2
  <1>7. CASE LandTurn(r) \/ LandBill(r)
    <2>1. UNCHANGED <<pc, leases>>
      BY <1>7 DEF LandTurn, LandBill, requestVars
    <2>2. QED
      BY <2>1 DEF StageOf
  <1>6. CASE /\ ~(Arrive(r) \/ Admit(r) \/ QueueTimeout(r) \/ Close(r) \/ RateLimit(r))
             /\ ~LandTurn(r) /\ ~LandBill(r)
    <2>1. pc[r] \in Working /\ leases' = leases
      BY <1>6 DEF RequestStep, Turn, Failure, Cancel, CreateConversation, FindConversation,
         MissConversation, ReadHistory, CheckBudget, Classify, FinishGeneration, AppendTurn,
         RecordUsage, Deliver, Complete, Salvage, OpeningFails, TurnFails, AppendFails, RecordFails,
         CancelQuietly, CancelAppend, CancelRecord, Working
    <2>2. r \in leases
      BY <2>1 DEF AllInPlace, InPlace, Leased
    <2>3. StageOf(r)' = StageOf(r)
      BY <2>1, <2>2 DEF StageOf
    <2>4. QED
      BY <1>s, <2>3
  <1>8. QED
    BY <1>1, <1>2, <1>3, <1>4, <1>5, <1>6, <1>7

(* A request works while, and only while, it holds a slot of the gate.     *)
THEOREM ServiceImplementsAdmission == Spec => PromiseKept
  <1>1. Init => Promise!Init
    BY DEF Init, Promise!Init, StageOf
  <1>2. AllInPlace /\ AllInPlace' /\ [Next]_vars
          => [Promise!Next]_([r \in Requests |-> StageOf(r)])
    <2> SUFFICES ASSUME AllInPlace, AllInPlace', [Next]_vars
                 PROVE  Promise!Next \/ UNCHANGED [r \in Requests |-> StageOf(r)]
      OBVIOUS
    <2>1. ASSUME NEW r \in Requests, RequestStep(r)
          PROVE  Promise!Next \/ UNCHANGED [q \in Requests |-> StageOf(q)]
      BY <2>1, StepSeen
    <2>2. CASE Restart
      <3>1. \A q \in Requests : StageOf(q)' = "idle"
        BY <2>2 DEF Restart, StageOf
      <3>2. Promise!Abandon
        BY <3>1 DEF Promise!Abandon
      <3>3. QED
        BY <3>2 DEF Promise!Next
    <2>3. CASE Midnight \/ (\E c \in Conversations : Expire(c)) \/ UNCHANGED vars
      <3>1. UNCHANGED <<pc, leases>>
        BY <2>3 DEF Midnight, Expire, vars, requestVars
      <3>2. QED
        BY <3>1 DEF StageOf
    <2>4. QED
      BY <2>1, <2>2, <2>3 DEF Next, SameDay, RequestStep
  <1>3. QED
    BY <1>1, <1>2, AlwaysInPlace, PTL DEF Spec, PromiseKept, Promise!Spec
------------------------------------------------------------------------------
(* Outcomes.  Whatever settles a request counts it, and what is settled is *)
(* not settled again.                                                      *)
Fallbacks(r) == IF CanCancel(r) THEN {"completed", "cancelled"} ELSE {"completed"}

Counted(r) ==
  /\ pc[r] \notin Settled \union {"completing"} => observed[r] = <<>> /\ reply[r] = "none"
  /\ pc[r] = "completing" => observed[r] = <<>> /\ reply[r] = "complete"
  /\ pc[r] \in Settled =>
       \/ observed[r] = <<>> /\ (reply[r] = "complete" => "restart" \in Faults)
       \/ \E o \in Outcomes : /\ observed[r] = <<o>>
                              /\ o = "completed" => reply[r] = "complete"
                              /\ reply[r] = "complete" => o \in Fallbacks(r)

\* Nothing is said of the request, and it neither goes back nor gets an answer.
Quiet(r) ==
  /\ observed'[r] = observed[r] /\ reply'[r] = reply[r]
  /\ pc'[r] = "completing" <=> pc[r] = "completing"
  /\ pc'[r] \in Settled <=> pc[r] \in Settled
  /\ pc[r] \in Settled => mode'[r] = mode[r]

\* The client of a stream gets message_end.
TellsAll(r) ==
  /\ pc[r] \notin Settled \union {"completing"} /\ pc'[r] = "completing"
  /\ observed'[r] = observed[r] /\ reply'[r] = "complete"

\* The request is settled, with or without an outcome.
Settles(r) ==
  /\ pc[r] \notin Settled /\ pc'[r] \in Settled
  /\ \/ /\ pc[r] # "completing"
        /\ observed'[r] = observed[r] /\ reply'[r] \in {"error", "not_found"}
     \/ \E o \in Outcomes :
          /\ observed'[r] = Append(observed[r], o)
          /\ \/ o = "completed" /\ reply'[r] = "complete"
             \/ o = "cancelled" /\ reply'[r] = reply[r] /\ CanCancel(r)'
             \/ o # "completed" /\ reply'[r] \in {"error", "limited", "busy"}

LEMMA OutcomeEffect ==
  ASSUME AllInPlace, NEW r \in Requests, Counted(r), RequestStep(r)
  PROVE  /\ Quiet(r) \/ TellsAll(r) \/ Settles(r)
         /\ \A q \in Requests \ {r} : Quiet(q)
  <1>t. TypeOK
    BY DEF AllInPlace
  <1> USE DEF TypeOK, Goto
  <1>1. ASSUME NEW o \in Outcomes, Observe(r, o), NEW p \in Settled, Goto(r, p),
               pc[r] \notin Settled, \A q \in Requests \ {r} : mode'[q] = mode[q],
               \/ o = "completed" /\ Tell(r, "complete")
               \/ o = "completed" /\ UNCHANGED reply /\ reply[r] = "complete"
               \/ o # "completed" /\ Tell(r, "error")
               \/ o # "completed" /\ Tell(r, "limited")
               \/ o # "completed" /\ Tell(r, "busy")
               \/ o = "cancelled" /\ UNCHANGED <<reply, mode>> /\ CanCancel(r)
        PROVE  Settles(r) /\ \A q \in Requests \ {r} : Quiet(q)
    BY <1>t, <1>1 DEF Observe, Tell, Settles, Quiet, CanCancel
  <1>2. ASSUME NEW p \in Positions, Goto(r, p), p # "completing", pc[r] # "completing",
               pc[r] \in Settled <=> p \in Settled,
               pc[r] \in Settled => mode'[r] = mode[r],
               \A q \in Requests \ {r} : mode'[q] = mode[q],
               UNCHANGED <<observed, reply>>
        PROVE  Quiet(r) /\ \A q \in Requests \ {r} : Quiet(q)
    BY <1>t, <1>2 DEF Quiet
  <1>s. Settled \subseteq Positions
    BY DEF Settled, Positions, Working
  <1>3. CASE RateLimit(r)
    BY <1>1, <1>3 DEF RateLimit, Settled, Outcomes
  <1>4. CASE Arrive(r)
    <2>0. \A q \in Requests \ {r} : mode'[q] = mode[q]
      BY <1>t, <1>4 DEF Arrive
    <2>1. CASE SlotFree
      BY <1>2, <1>4, <2>0, <2>1 DEF Arrive, Settled, Positions, Working
    <2>2. CASE ~SlotFree /\ QueueRoom
      BY <1>2, <1>4, <2>0, <2>2 DEF Arrive, Settled, Positions, Working
    <2>3. CASE ~SlotFree /\ ~QueueRoom
      BY <1>1, <1>4, <2>0, <2>3 DEF Arrive, Settled, Outcomes
    <2>4. QED
      BY <2>1, <2>2, <2>3
  <1>5. CASE QueueTimeout(r)
    BY <1>1, <1>5 DEF QueueTimeout, Settled, Outcomes
  <1>6. CASE Admit(r) \/ CreateConversation(r) \/ FindConversation(r) \/ Classify(r)
             \/ FinishGeneration(r) \/ AppendTurn(r) \/ RecordUsage(r) \/ Close(r)
             \/ AppendFails(r)
    <2>1. PICK p \in Positions : /\ Goto(r, p) /\ p # "completing" /\ pc[r] # "completing"
                                 /\ pc[r] \in Settled <=> p \in Settled
      BY <1>6 DEF Admit, CreateConversation, FindConversation, Classify, FinishGeneration,
         AppendTurn, RecordUsage, Close, AppendFails, Settled, Positions, Working
    <2>2. UNCHANGED <<mode, observed, reply>>
      BY <1>6 DEF Admit, CreateConversation, FindConversation, Classify, FinishGeneration,
         AppendTurn, RecordUsage, Close, AppendFails
    <2>3. QED
      BY <1>2, <2>1, <2>2
  <1>7. CASE MissConversation(r) \/ OpeningFails(r)
    <2>1. /\ pc[r] = "opening" /\ Goto(r, "closing") /\ UNCHANGED <<mode, observed>>
          /\ Tell(r, "error") \/ Tell(r, "not_found")
      BY <1>7 DEF MissConversation, OpeningFails
    <2>2. QED
      BY <1>t, <2>1 DEF Tell, Settles, Quiet, Settled
  <1>8. CASE ReadHistory(r)
    <2>1. CASE TurnsRead(target[r]) >= MaxTurns
      BY <1>1, <1>8, <2>1 DEF ReadHistory, Settle, Settled, Outcomes
    <2>2. CASE ~(TurnsRead(target[r]) >= MaxTurns)
      BY <1>2, <1>8, <2>2 DEF ReadHistory, Settled, Positions, Working
    <2>3. QED
      BY <2>1, <2>2
  <1>9. CASE CheckBudget(r)
    <2>1. CASE TokensSince(boundary[r]) >= Budget
      BY <1>1, <1>9, <2>1 DEF CheckBudget, Settle, Settled, Outcomes
    <2>2. CASE ~(TokensSince(boundary[r]) >= Budget)
      BY <1>2, <1>9, <2>2 DEF CheckBudget, Settled, Positions, Working
    <2>3. QED
      BY <2>1, <2>2
  <1>10. CASE Deliver(r)
    <2>1. pc[r] = "delivering" /\ Tell(r, "complete") /\ UNCHANGED mode
      BY <1>10 DEF Deliver
    <2>2. CASE Goto(r, "closing") /\ Observe(r, "completed")
      BY <1>1, <2>1, <2>2 DEF Settled, Outcomes
    <2>3. CASE Goto(r, "completing") /\ UNCHANGED observed
      BY <1>t, <2>1, <2>3 DEF Tell, TellsAll, Quiet, Settled
    <2>4. QED
      BY <1>10, <2>2, <2>3 DEF Deliver
  <1>11. CASE Complete(r)
    <2>1. /\ pc[r] = "completing" /\ Goto(r, "closing") /\ Observe(r, "completed")
          /\ UNCHANGED <<mode, reply>>
      BY <1>11 DEF Complete
    <2>2. reply[r] = "complete"
      BY <2>1 DEF Counted
    <2>3. QED
      BY <1>1, <2>1, <2>2 DEF Settled, Outcomes
  <1>12. CASE Salvage(r) \/ TurnFails(r) \/ RecordFails(r)
    <2>1. /\ pc[r] \notin Settled /\ Goto(r, "closing")
          /\ Observe(r, "failed") /\ Tell(r, "error") /\ UNCHANGED mode
      BY <1>12 DEF Salvage, TurnFails, RecordFails, Failed, Settle, Settled
    <2>2. QED
      BY <1>1, <2>1 DEF Settled, Outcomes
  <1>13. CASE Cancel(r)
    <2>1. /\ pc[r] \notin Settled /\ Goto(r, "closing") /\ CanCancel(r)
          /\ Observe(r, "cancelled") /\ UNCHANGED <<mode, reply>>
      BY <1>13 DEF Cancel, CancelQuietly, CancelAppend, CancelRecord, Cancelled, Settled
    <2>2. QED
      BY <1>1, <2>1 DEF Settled, Outcomes
  <1>14. CASE LandTurn(r) \/ LandBill(r)
    BY <1>14 DEF LandTurn, LandBill, requestVars, Quiet
  <1>15. QED
    BY <1>3, <1>4, <1>5, <1>6, <1>7, <1>8, <1>9, <1>10, <1>11, <1>12, <1>13, <1>14
       DEF RequestStep, Turn, Failure, Cancel

LEMMA CountedQuiet ==
  ASSUME NEW q \in Requests, Counted(q), Quiet(q) PROVE Counted(q)'
  BY DEF Counted, Quiet, Fallbacks, CanCancel

LEMMA CountedTellsAll ==
  ASSUME NEW r \in Requests, Counted(r), TellsAll(r) PROVE Counted(r)'
  BY DEF Counted, TellsAll, Settled

LEMMA CountedSettles ==
  ASSUME NEW r \in Requests, Counted(r), Settles(r) PROVE Counted(r)'
  <1>1. /\ observed[r] = <<>> /\ pc'[r] \in Settled /\ pc[r] \notin Settled
        /\ reply[r] \in {"none", "complete"}
        /\ pc[r] # "completing" => reply[r] = "none"
    BY DEF Counted, Settles
  <1>2. CASE observed'[r] = observed[r] /\ reply'[r] \in {"error", "not_found"}
    BY <1>1, <1>2 DEF Counted, Settled
  <1>3. ASSUME NEW o \in Outcomes, observed'[r] = Append(observed[r], o),
               \/ o = "completed" /\ reply'[r] = "complete"
               \/ o = "cancelled" /\ reply'[r] = reply[r] /\ CanCancel(r)'
               \/ o # "completed" /\ reply'[r] \in {"error", "limited", "busy"}
        PROVE  Counted(r)'
    <2>1. observed'[r] = <<o>>
      BY <1>1, <1>3
    <2>2. /\ o = "completed" => reply'[r] = "complete"
          /\ reply'[r] = "complete" => o \in Fallbacks(r)'
      BY <1>3 DEF Fallbacks
    <2>3. QED
      BY <1>1, <2>1, <2>2 DEF Counted, Settled
  <1>4. QED
    BY <1>2, <1>3 DEF Settles

LEMMA CountedStep ==
  AllInPlace /\ (\A r \in Requests : Counted(r)) /\ [Next]_vars
    => (\A r \in Requests : Counted(r))'
  <1> SUFFICES ASSUME AllInPlace, \A r \in Requests : Counted(r), [Next]_vars,
                      NEW q \in Requests
               PROVE  Counted(q)'
    OBVIOUS
  <1>1. ASSUME NEW r \in Requests, RequestStep(r) PROVE Counted(q)'
    BY <1>1, OutcomeEffect, CountedQuiet, CountedTellsAll, CountedSettles
  <1>2. CASE Restart
    <2>1. /\ pc'[q] = IF pc[q] = "idle" THEN "idle" ELSE "done"
          /\ "restart" \in Faults /\ UNCHANGED <<mode, observed, reply>>
      BY <1>2 DEF Restart
    <2>2. CASE pc[q] \in Settled \union {"idle"}
      <3>1. Quiet(q)
        BY <2>1, <2>2 DEF Quiet, Settled
      <3>2. QED
        BY <3>1, CountedQuiet
    <2>3. CASE pc[q] \notin Settled \union {"idle"}
      <3>1. observed[q] = <<>> /\ pc'[q] = "done"
        BY <2>1, <2>3 DEF Counted, Settled
      <3>2. QED
        BY <2>1, <3>1 DEF Counted, Settled
    <2>4. QED
      BY <2>2, <2>3
  <1>3. ASSUME \/ Midnight \/ (\E c \in Conversations : Expire(c)) \/ UNCHANGED vars
        PROVE  Quiet(q)
    BY <1>3 DEF Midnight, Expire, vars, requestVars, Quiet
  <1>4. QED
    BY <1>1, <1>2, <1>3, CountedQuiet DEF Next, SameDay, RequestStep

(* Every request counts once at most, as completed only if its client was  *)
(* told so; and one whose client was told so counts as completed, unless   *)
(* its stream is cancelled behind message_end or the process dies          *)
(* (api.py:190-286).                                                       *)
THEOREM ServiceOneOutcome == Spec => []OneOutcome
  <1>1. Init => \A r \in Requests : Counted(r)
    BY DEF Init, Counted, Settled
  <1>2. (\A r \in Requests : Counted(r)) => OneOutcome
    <2> SUFFICES ASSUME NEW r \in Requests, Counted(r)
                 PROVE  /\ Len(observed[r]) <= 1
                        /\ observed[r] = <<"completed">> => reply[r] = "complete"
                        /\ reply[r] = "complete" /\ pc[r] \in Settled
                             => observed[r] \in OutcomesOfCompleted(r)
      BY DEF OneOutcome, Settled
    <2>1. CASE observed[r] = <<>>
      <3>1. Len(observed[r]) = 0 /\ Len(<<"completed">>) = 1
        BY <2>1
      <3>2. observed[r] # <<"completed">> /\ \A o \in Outcomes : observed[r] # <<o>>
        BY <2>1, <3>1
      <3>3. reply[r] = "complete" /\ pc[r] \in Settled => "restart" \in Faults
        BY <3>2 DEF Counted
      <3>4. QED
        BY <2>1, <3>1, <3>2, <3>3 DEF OutcomesOfCompleted
    <2>2. ASSUME NEW o \in Outcomes, observed[r] = <<o>>,
                 o = "completed" => reply[r] = "complete",
                 reply[r] = "complete" => o \in Fallbacks(r)
          PROVE  /\ Len(observed[r]) <= 1
                 /\ observed[r] = <<"completed">> => reply[r] = "complete"
                 /\ reply[r] = "complete" /\ pc[r] \in Settled
                      => observed[r] \in OutcomesOfCompleted(r)
      <3>1. Len(<<o>>) = 1 /\ <<o>>[1] = o /\ <<"completed">>[1] = "completed"
        OBVIOUS
      <3>2. <<o>> = <<"completed">> <=> o = "completed"
        BY <3>1
      <3>3. QED
        BY <2>2, <3>1, <3>2 DEF Fallbacks, OutcomesOfCompleted
    <2>3. QED
      BY <2>1, <2>2 DEF Counted, Settled
  <1>3. QED
    BY <1>1, <1>2, CountedStep, AlwaysInPlace, PTL DEF Spec
------------------------------------------------------------------------------
(* The calls of the store amount to a log.  While a turn is open its       *)
(* conversation has a row, since only a restart deletes rows and it ends   *)
(* every turn; and a turn that has not passed its append is in no history. *)
Exists(c) == status[c] \in {"live", "expired"}

Absent(r) == \A c \in Conversations : \A i \in 1 .. Len(history[c]) : history[c][i] # r

Unstored == NotGenerated \union {"appending"}

\* Its append has not taken effect, and may do so yet.
Awaited(r) == pc[r] \in Unstored \/ lateTurn[r] = "adrift"

\* Its conversation is in use.
Rowed(r) == pc[r] \in Opened \/ lateTurn[r] = "adrift"

LogInv ==
  \A r \in Requests : /\ Rowed(r) => Exists(target[r])
                      /\ Awaited(r) => Absent(r)

(* The three things a request may do to the store.                         *)
LEMMA StoreEffect ==
  ASSUME NEW r \in Requests, RequestStep(r)
  PROVE  \/ UNCHANGED storeVars
         \/ /\ history' = history
            /\ \E c \in Conversations \ Known : status' = [status EXCEPT ![c] = "live"]
         \/ Storing(r) /\ StoreTurn(r)
  BY DEF RequestStep, Turn, Failure, Cancel, RateLimit, Arrive, Admit, QueueTimeout,
     CreateConversation, FindConversation, MissConversation, ReadHistory, CheckBudget,
     Classify, FinishGeneration, AppendTurn, RecordUsage, Deliver, Complete, Close, Salvage,
     OpeningFails, TurnFails, AppendFails, RecordFails, CancelQuietly, CancelAppend,
     CancelRecord, LandTurn, LandBill, AppendUndecided, Storing, storeVars

(* A request whose append took effect awaits it no more, and a request     *)
(* opens a row that exists.                                                *)
LEMMA StoreProgress ==
  ASSUME TypeOK, NEW r \in Requests, Accounted(r), RequestStep(r)
  PROVE  /\ Awaited(r)' => /\ Awaited(r)
                           /\ \/ history' = history
                              \/ ~Storing(r)
         /\ Rowed(r)' => \/ Rowed(r) /\ target'[r] = target[r]
                         \/ status'[target'[r]] = "live"
  <1> USE DEF TypeOK, Goto, Unstored, NotGenerated, Opened, Awaited, Rowed, Storing
  <1>1. CASE \/ RateLimit(r) \/ QueueTimeout(r) \/ MissConversation(r) \/ Deliver(r)
             \/ Complete(r) \/ Close(r) \/ Salvage(r) \/ OpeningFails(r) \/ TurnFails(r)
             \/ RecordFails(r) \/ CancelQuietly(r) \/ CancelRecord(r)
    <2>1. pc'[r] \in {"closing", "done", "completing"} /\ UNCHANGED <<target, lateTurn, history>>
      BY <1>1 DEF RateLimit, QueueTimeout, MissConversation, Deliver, Complete, Close, Salvage,
         OpeningFails, TurnFails, RecordFails, CancelQuietly, CancelRecord, Cancelled, Failed,
         Settle, storeVars, lateVars
    <2>2. pc'[r] = "completing" => pc[r] = "delivering"
      BY <1>1 DEF RateLimit, QueueTimeout, MissConversation, Deliver, Complete, Close, Salvage,
         OpeningFails, TurnFails, RecordFails, CancelQuietly, CancelRecord, Cancelled, Failed,
         Settle
    <2>3. QED
      BY <2>1, <2>2
  <1>2. CASE Arrive(r) \/ Admit(r)
    <2>1. /\ pc[r] \in {"idle", "queued"} /\ pc'[r] \in {"opening", "queued", "done"}
          /\ UNCHANGED <<lateTurn, history>>
      BY <1>2 DEF Arrive, Admit, storeVars, lateVars
    <2>2. lateTurn[r] = "none"
      BY <2>1 DEF Accounted, Settled
    <2>3. QED
      BY <2>1, <2>2
  <1>3. CASE CreateConversation(r)
    <2>1. PICK c \in Conversations : /\ status' = [status EXCEPT ![c] = "live"]
                                    /\ target' = [target EXCEPT ![r] = c]
      BY <1>3 DEF CreateConversation
    <2>2. /\ pc[r] = "opening" /\ status'[target'[r]] = "live"
          /\ UNCHANGED <<lateTurn, history>>
      BY <1>3, <2>1 DEF CreateConversation, lateVars
    <2>3. QED
      BY <2>2
  <1>4. CASE FindConversation(r)
    <2>1. /\ pc[r] = "opening" /\ status'[target'[r]] = "live"
          /\ UNCHANGED <<lateTurn, history>>
      BY <1>4 DEF FindConversation, storeVars, lateVars
    <2>2. QED
      BY <2>1
  <1>5. CASE ReadHistory(r) \/ CheckBudget(r) \/ Classify(r) \/ FinishGeneration(r)
             \/ RecordUsage(r)
    <2>1. /\ UNCHANGED <<target, lateTurn, history>> /\ pc[r] \in Opened
          /\ pc[r] \in Unstored \/ pc'[r] \notin Unstored
      BY <1>5 DEF ReadHistory, CheckBudget, Settle, Classify, FinishGeneration, RecordUsage,
         storeVars, lateVars
    <2>2. QED
      BY <2>1
  <1>6. CASE AppendTurn(r) \/ AppendFails(r) \/ CancelAppend(r)
    <2>1. /\ pc[r] = "appending" /\ pc'[r] \in {"recording", "salvaging", "closing"}
          /\ target' = target
      BY <1>6 DEF AppendTurn, AppendFails, CancelAppend, Cancelled
    <2>2. \/ lateTurn' = lateTurn
          \/ lateTurn'[r] = "adrift" /\ history' = history
      BY <1>6 DEF AppendTurn, AppendFails, CancelAppend, AppendUndecided, storeVars, lateVars
    <2>3. lateTurn[r] = "none"
      BY <2>1 DEF Accounted, Settled
    <2>4. QED
      BY <2>1, <2>2, <2>3
  <1>7. CASE LandTurn(r)
    <2>1. /\ pc[r] \in Settled \union {"salvaging"} /\ lateTurn'[r] = "landed"
          /\ UNCHANGED <<pc, target>>
      BY <1>7 DEF LandTurn, Accounted, requestVars
    <2>2. QED
      BY <2>1 DEF Settled
  <1>8. CASE LandBill(r)
    BY <1>8 DEF LandBill, storeVars
  <1>9. QED
    BY <1>1, <1>2, <1>3, <1>4, <1>5, <1>6, <1>7, <1>8 DEF RequestStep, Turn, Failure, Cancel

(* What an append adds.                                                    *)
LEMMA AppendEffect ==
  ASSUME TypeOK, NEW r \in Requests, target[r] \in Conversations, StoreTurn(r)
  PROVE  /\ \A q \in Requests : q # r /\ Absent(q) => Absent(q)'
         /\ \A c \in Conversations : Exists(c) => Exists(c)'
  <1> DEFINE h == history[target[r]]
  <1>1. h \in Seq(Requests)
    BY DEF TypeOK
  <1>2. /\ Len(Append(h, r)) = Len(h) + 1 /\ Len(h) \in Nat
        /\ Append(h, r)[Len(h) + 1] = r
        /\ \A i \in 1 .. Len(h) : Append(h, r)[i] = h[i]
    BY <1>1, AppendProperties, LenProperties
  <1>3. \A c \in Conversations :
          history'[c] = IF c = target[r] THEN Append(h, r) ELSE history[c]
    BY DEF StoreTurn, TypeOK
  <1>4. ASSUME NEW q \in Requests, q # r, Absent(q),
               NEW c \in Conversations, NEW i \in 1 .. Len(history'[c])
        PROVE  history'[c][i] # q
    <2>1. CASE c # target[r]
      BY <1>3, <1>4, <2>1 DEF Absent
    <2>2. CASE c = target[r] /\ i = Len(h) + 1
      BY <1>2, <1>3, <1>4, <2>2
    <2>3. CASE c = target[r] /\ i # Len(h) + 1
      <3>1. history'[c] = Append(h, r) /\ i \in 1 .. Len(h) + 1
        BY <1>2, <1>3, <1>4, <2>3
      <3>2. i \in 1 .. Len(h) /\ history'[c][i] = h[i]
        BY <1>2, <2>3, <3>1
      <3>3. QED
        BY <1>4, <2>3, <3>2 DEF Absent
    <2>4. QED
      BY <2>1, <2>2, <2>3
  <1>5. \A c \in Conversations : Exists(c) => Exists(c)'
    BY DEF StoreTurn, Exists, TypeOK
  <1>6. QED
    BY <1>4, <1>5 DEF Absent

LEMMA LogInvStep == AllInPlace /\ LogInv /\ [Next]_vars => LogInv'
  <1> SUFFICES ASSUME AllInPlace, LogInv, [Next]_vars, NEW q \in Requests
               PROVE  /\ Rowed(q)' => Exists(target[q])'
                      /\ Awaited(q)' => Absent(q)'
    BY DEF LogInv
  <1>t. /\ TypeOK /\ Accounted(q)
        /\ Rowed(q) => target[q] \in Conversations
    BY DEF AllInPlace, InPlace, Accounted, Rowed
  <1>i. /\ Rowed(q) => Exists(target[q])
        /\ Awaited(q) => Absent(q)
    BY DEF LogInv
  <1>1. ASSUME NEW r \in Requests, RequestStep(r)
        PROVE  /\ Rowed(q)' => Exists(target[q])'
               /\ Awaited(q)' => Absent(q)'
    <2>1. /\ \A c \in Conversations : Exists(c) => Exists(c)'
          /\ Absent(q) /\ (q = r => history' = history \/ ~Storing(r)) => Absent(q)'
      <3>1. CASE UNCHANGED storeVars
        BY <3>1 DEF storeVars, Exists, Absent
      <3>2. CASE /\ history' = history
                 /\ \E c \in Conversations \ Known : status' = [status EXCEPT ![c] = "live"]
        BY <1>t, <3>2 DEF Exists, Absent, TypeOK
      <3>3. CASE Storing(r) /\ StoreTurn(r)
        <4>1. target[r] \in Conversations
          BY <3>3 DEF AllInPlace, InPlace, Accounted, Opened, Storing
        <4>2. history' = history => (Absent(q) => Absent(q)')
          BY DEF Absent
        <4>3. QED
          BY <1>t, <3>3, <4>1, <4>2, AppendEffect
      <3>4. QED
        BY <1>1, <3>1, <3>2, <3>3, StoreEffect
    <2>2. CASE q = r
      <3>1. /\ Awaited(r)' => Awaited(r) /\ (history' = history \/ ~Storing(r))
            /\ Rowed(r)' => \/ Rowed(r) /\ target'[r] = target[r]
                            \/ Exists(target[r])'
        BY <1>t, <1>1, <2>2, StoreProgress DEF Exists
      <3>2. ASSUME Rowed(r), target'[r] = target[r] PROVE Exists(target[r])'
        BY <1>t, <1>i, <2>1, <2>2, <3>2 DEF Exists
      <3>3. QED
        BY <1>i, <2>1, <2>2, <3>1, <3>2
    <2>3. CASE q # r
      <3>1. pc'[q] = pc[q] /\ target'[q] = target[q] /\ lateTurn'[q] = lateTurn[q]
        BY <1>t, <1>1, <2>3, OthersUntouched DEF Untouched
      <3>2. (Rowed(q)' <=> Rowed(q)) /\ (Awaited(q)' <=> Awaited(q))
        BY <3>1 DEF Rowed, Awaited
      <3>3. QED
        BY <1>t, <1>i, <2>1, <2>3, <3>1, <3>2 DEF Exists
    <2>4. QED
      BY <2>2, <2>3
  <1>2. CASE Restart
    <2>1. /\ pc'[q] = IF pc[q] = "idle" THEN "idle" ELSE "done"
          /\ lateTurn'[q] = IF pc[q] = "appending" THEN "adrift" ELSE lateTurn[q]
          /\ target'[q] = target[q]
      BY <1>2 DEF Restart
    <2>2. \A c \in Conversations : history'[c] = history[c] \/ history'[c] = <<>>
      BY <1>2 DEF Restart
    <2>3. ASSUME Absent(q) PROVE Absent(q)'
      BY <2>2, <2>3 DEF Absent
    <2>4. Awaited(q)' => Awaited(q)
      BY <2>1 DEF Awaited, Unstored, NotGenerated
    <2>5. Rowed(q)' => Rowed(q) /\ Held(target[q])
      BY <2>1 DEF Rowed, Held, Opened
    <2>6. ASSUME NEW c \in Conversations, Exists(c), Held(c) PROVE Exists(c)'
      BY <1>2, <2>6 DEF Restart, Exists
    <2>7. QED
      BY <1>t, <1>i, <2>1, <2>3, <2>4, <2>5, <2>6 DEF Exists
  <1>3. ASSUME NEW c \in Conversations, Expire(c)
        PROVE  /\ Rowed(q)' => Exists(target[q])'
               /\ Awaited(q)' => Absent(q)'
    BY <1>t, <1>i, <1>3 DEF Expire, requestVars, lateVars, Rowed, Awaited, Exists, Absent, TypeOK
  <1>4. CASE Midnight \/ UNCHANGED vars
    BY <1>i, <1>4 DEF Midnight, vars, requestVars, storeVars, lateVars, Rowed, Awaited, Exists,
       Absent
  <1>5. QED
    BY <1>1, <1>2, <1>3, <1>4 DEF Next, SameDay, RequestStep

(* What one step is to the log.                                            *)
LEMMA StepKeepsLog ==
  AllInPlace /\ LogInv /\ [Next]_vars => [Log!Next]_(Log!LogVars)
  <1> SUFFICES ASSUME AllInPlace, LogInv, [Next]_vars
               PROVE  Log!Next \/ UNCHANGED Log!LogVars
    OBVIOUS
  <1> DEFINE rows == {c \in Conversations : status[c] \in {"live", "expired"}}
  <1>t. TypeOK
    BY DEF AllInPlace
  <1>1. ASSUME NEW r \in Requests, RequestStep(r) PROVE Log!Next \/ UNCHANGED Log!LogVars
    <2>1. CASE UNCHANGED storeVars
      BY <2>1 DEF storeVars, Log!LogVars
    <2>2. ASSUME NEW c \in Conversations \ Known, history' = history,
                 status' = [status EXCEPT ![c] = "live"]
          PROVE  Log!Next
      <3>1. c \notin rows /\ rows' = rows \union {c}
        BY <1>t, <2>2 DEF Known, TypeOK
      <3>2. QED
        BY <2>2, <3>1 DEF Log!Next, Log!Create
    <2>3. CASE Storing(r) /\ StoreTurn(r)
      <3>1. target[r] \in Conversations /\ Exists(target[r]) /\ Absent(r)
        BY <2>3 DEF AllInPlace, InPlace, Accounted, Opened, LogInv, Awaited, Rowed, Unstored,
           Storing
      <3>2. rows' = rows
        BY <1>t, <2>3, <3>1 DEF StoreTurn, Exists, TypeOK
      <3>3. Log!AppendTurn(target[r], r)
        BY <2>3, <3>1, <3>2 DEF Log!AppendTurn, StoreTurn, Exists, Absent
      <3>4. QED
        BY <3>1, <3>3 DEF Log!Next
    <2>4. QED
      BY <1>1, <2>1, <2>2, <2>3, StoreEffect
  <1>2. CASE Restart
    <2> DEFINE gone == {c \in Conversations : status[c] = "expired" /\ ~Held(c)}
    <2>1. gone \in SUBSET rows /\ rows' = rows \ gone
      BY <1>t, <1>2 DEF Restart, TypeOK
    <2>2. history' = [c \in Conversations |-> IF c \in gone THEN <<>> ELSE history[c]]
      BY <1>2 DEF Restart
    <2>3. QED
      BY <2>1, <2>2 DEF Log!Next, Log!Purge
  <1>3. ASSUME NEW c \in Conversations, Expire(c) PROVE UNCHANGED Log!LogVars
    BY <1>t, <1>3 DEF Expire, Log!LogVars, TypeOK
  <1>4. CASE Midnight \/ UNCHANGED vars
    BY <1>4 DEF Midnight, vars, storeVars, Log!LogVars
  <1>5. QED
    BY <1>1, <1>2, <1>3, <1>4 DEF Next, SameDay, RequestStep

(* Whatever fails, is cancelled or restarted around them, the turns of a   *)
(* conversation are a log: each is appended once, to a row that exists     *)
(* (chat/application.py, which opens a conversation before its turn).      *)
THEOREM ServiceImplementsLog == Spec => LogKept
  <1>1. Init => LogInv
    BY DEF Init, LogInv, Awaited, Rowed, Opened, Absent
  <1>2. Init => Log!Init
    BY DEF Init, Log!Init
  <1>3. QED
    BY <1>1, <1>2, LogInvStep, StepKeepsLog, AlwaysInPlace, PTL DEF Spec, LogKept, Log!Spec
==============================================================================
