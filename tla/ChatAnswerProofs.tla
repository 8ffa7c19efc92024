--------------------------- MODULE ChatAnswerProofs ---------------------------
(***************************************************************************)
(* What a turn costs and what its answer is generated from, for any number *)
(* of requests, slots, conversations and days, any documents and           *)
(* classifications, and streams of any length.                             *)
(*                                                                         *)
(* The first half is about ChatService alone: how far concurrent turns can *)
(* pass the daily budget and the turn limit. Both limits are checked       *)
(* before a turn and consumed after it. What bounds the excess is that a   *)
(* turn between the two points has a lease: the consumption so far plus    *)
(* what the turns in flight may still add never exceeds what was allowed   *)
(* at the last successful check, and what has landed without a lease.      *)
(*                                                                         *)
(* The second half shows that routing and streaming implement ChatService, *)
(* so that all of this holds with them, and what they add to it.           *)
(***************************************************************************)
EXTENDS ChatAnswer, ChatServiceProofs


(* At most MaxActive leases are out.                                       *)
SlotsBounded == Cardinality(leases) <= MaxActive

(* tokens_since(d) falls as d grows.                                       *)
SumsFall ==
  \A a, b \in 0 .. LastDay + 1 : a <= b => spent[b] <= spent[a]

(* Turns that passed the budget check for day d or an earlier one, and may *)
(* still be recorded on day d.                                             *)
InFlight(d) ==
  {r \in Requests :
     /\ pc[r] \in {"classifying", "generating", "appending", "recording", "salvaging"}
     /\ boundary[r] <= d}

\* The generations that may be recorded beyond the budget.
Allowed == MaxActive + Cardinality(LandedBills)

BudgetCovers(d) ==
  RecordedOn(d) + MaxTokens * Cardinality(InFlight(d)) < Budget + MaxTokens * Allowed

BudgetInv ==
  /\ AllInPlace /\ SlotsBounded /\ SumsFall
  /\ \A d \in Days : BudgetCovers(d)

(* Turns that passed the turn limit of conversation c and are not stored.  *)
Extending(c) ==
  {r \in Requests :
     /\ pc[r] \in {"budget", "classifying", "generating", "appending"}
     /\ target[r] = c}

TurnsCovered(c) ==
  Len(history[c]) + Cardinality(Extending(c))
    < MaxTurns + MaxActive + Cardinality(LandedTurns(c))

(* Without expiry a conversation is fresh and empty, or alive.             *)
NeverHidden(c) == status[c] = "live" \/ (status[c] = "unused" /\ history[c] = <<>>)

TurnInv ==
  /\ AllInPlace /\ SlotsBounded
  /\ "expiry" \notin Faults =>
       \A c \in Conversations : NeverHidden(c) /\ TurnsCovered(c)

------------------------------------------------------------------------------
(* Slots.                                                                  *)

LEMMA FiniteRequests ==
  ASSUME NEW S, S \subseteq Requests
  PROVE  IsFiniteSet(S) /\ Cardinality(S) \in Nat
  BY ServiceAssumption, FS_Subset, FS_CardinalityType

LEMMA Fewer ==
  ASSUME NEW S, NEW T, T \subseteq Requests, S \subseteq T
  PROVE  Cardinality(S) <= Cardinality(T)
  BY FiniteRequests, FS_Subset

LEMMA LeaseEffect ==
  ASSUME [Next]_vars
  PROVE  \/ leases' \subseteq leases
         \/ SlotFree /\ \E r \in Requests : leases' = leases \union {r}
  <1>1. ASSUME NEW r \in Requests, RequestStep(r)
        PROVE  \/ leases' \subseteq leases
               \/ SlotFree /\ leases' = leases \union {r}
    BY <1>1 DEF RequestStep, Turn, Failure, Cancel, RateLimit, Arrive, Admit, QueueTimeout,
       CreateConversation, FindConversation, MissConversation, ReadHistory, CheckBudget,
       Classify, FinishGeneration, AppendTurn, RecordUsage, Deliver, Complete, Close, Salvage,
       OpeningFails, TurnFails, AppendFails, RecordFails, CancelQuietly, CancelAppend,
       CancelRecord, LandTurn, LandBill
  <1>2. CASE Restart \/ Midnight \/ (\E c \in Conversations : Expire(c)) \/ UNCHANGED vars
    BY <1>2 DEF Restart, Midnight, Expire, vars
  <1>3. QED
    BY <1>1, <1>2 DEF Next, SameDay, RequestStep

LEMMA SlotsStep ==
  ASSUME AllInPlace, SlotsBounded, [Next]_vars
  PROVE  SlotsBounded'
  <1>t. leases \subseteq Requests
    BY DEF AllInPlace, TypeOK
  <1>1. CASE leases' \subseteq leases
    <2>1. Cardinality(leases') <= Cardinality(leases)
      BY <1>t, <1>1, Fewer
    <2>2. Cardinality(leases') \in Nat /\ Cardinality(leases) \in Nat /\ MaxActive \in Nat
      BY <1>t, <1>1, FiniteRequests, ServiceAssumption
    <2>3. QED
      BY <2>1, <2>2 DEF SlotsBounded
  <1>2. ASSUME SlotFree, NEW r \in Requests, leases' = leases \union {r} PROVE SlotsBounded'
    <2>1. IsFiniteSet(leases) /\ Cardinality(leases) \in Nat /\ MaxActive \in Nat
      BY <1>t, FiniteRequests, ServiceAssumption
    <2>2. Cardinality(leases') \in {Cardinality(leases), Cardinality(leases) + 1}
      BY <1>2, <2>1, FS_AddElement
    <2>3. Cardinality(leases) < MaxActive
      BY <1>2 DEF SlotFree
    <2>4. QED
      BY <2>1, <2>2, <2>3 DEF SlotsBounded
  <1>3. QED
    BY <1>1, <1>2, LeaseEffect

------------------------------------------------------------------------------
(* Transactions that have landed.                                          *)

(* What has landed stays so, in the conversation it landed in.             *)
LEMMA LandedStay ==
  ASSUME AllInPlace, [Next]_vars
  PROVE  /\ LandedBills \subseteq LandedBills'
         /\ \A c \in Conversations : LandedTurns(c) \subseteq LandedTurns(c)'
  <1> SUFFICES ASSUME NEW q \in Requests
               PROVE  /\ lateBill[q] = "landed" => lateBill'[q] = "landed"
                      /\ lateTurn[q] = "landed" => /\ lateTurn'[q] = "landed"
                                                  /\ target'[q] = target[q]
    BY DEF LandedBills, LandedTurns
  <1>t. TypeOK
    BY DEF AllInPlace
  <1>1. /\ lateBill[q] = "landed" => pc[q] \in Settled
        /\ lateTurn[q] = "landed" => pc[q] \in Settled \union {"salvaging"}
    BY DEF AllInPlace, InPlace, Accounted
  <1>2. ASSUME UNCHANGED <<lateVars, target>>
        PROVE  /\ lateBill[q] = "landed" => lateBill'[q] = "landed"
               /\ lateTurn[q] = "landed" => /\ lateTurn'[q] = "landed"
                                           /\ target'[q] = target[q]
    BY <1>2 DEF lateVars
  <1>3. ASSUME NEW r \in Requests, RequestStep(r)
        PROVE  /\ lateBill[q] = "landed" => lateBill'[q] = "landed"
               /\ lateTurn[q] = "landed" => /\ lateTurn'[q] = "landed"
                                           /\ target'[q] = target[q]
    <2>1. CASE q # r
      BY <1>t, <1>3, <2>1, OthersUntouched DEF Untouched
    <2>2. CASE q = r /\ (Close(r) \/ Salvage(r))
      BY <1>2, <2>2 DEF Close, Salvage
    <2>3. CASE q = r /\ (RecordFails(r) \/ CancelRecord(r))
      BY <1>1, <2>3 DEF RecordFails, CancelRecord, Settled
    <2>4. CASE q = r /\ (LandTurn(r) \/ LandBill(r))
      BY <1>t, <2>4 DEF LandTurn, LandBill, requestVars, TypeOK
    <2>5. CASE /\ q = r /\ ~Close(r) /\ ~Salvage(r) /\ ~RecordFails(r) /\ ~CancelRecord(r)
               /\ ~LandTurn(r) /\ ~LandBill(r)
      <3>1. pc[r] \notin Settled \union {"salvaging"}
        BY <1>3, <2>5 DEF RequestStep, Turn, Failure, Cancel, RateLimit, Arrive, Admit,
           QueueTimeout, CreateConversation, FindConversation, MissConversation, ReadHistory,
           CheckBudget, Classify, FinishGeneration, AppendTurn, RecordUsage, Deliver, Complete,
           OpeningFails, TurnFails, AppendFails, CancelQuietly, CancelAppend, Settled
      <3>2. QED
        BY <1>1, <2>5, <3>1
    <2>6. QED
      BY <2>1, <2>2, <2>3, <2>4, <2>5
  <1>4. CASE Restart
    BY <1>1, <1>4 DEF Restart, Settled
  <1>5. CASE Midnight \/ (\E c \in Conversations : Expire(c)) \/ UNCHANGED vars
    BY <1>2, <1>5 DEF Midnight, Expire, vars, requestVars, lateVars
  <1>6. QED
    BY <1>3, <1>4, <1>5 DEF Next, SameDay, RequestStep

LEMMA LandedMore ==
  ASSUME AllInPlace, [Next]_vars
  PROVE  /\ Allowed \in Nat /\ Allowed' \in Nat /\ MaxActive <= Allowed'
         /\ Allowed <= Allowed'
         /\ \A c \in Conversations :
              /\ Cardinality(LandedTurns(c)) \in Nat /\ Cardinality(LandedTurns(c)') \in Nat
              /\ Cardinality(LandedTurns(c)) <= Cardinality(LandedTurns(c)')
  <1>1. /\ LandedBills \subseteq Requests /\ LandedBills' \subseteq Requests
        /\ \A c \in Conversations :
             LandedTurns(c) \subseteq Requests /\ LandedTurns(c)' \subseteq Requests
    BY DEF LandedBills, LandedTurns
  <1>2. /\ Cardinality(LandedBills) \in Nat /\ Cardinality(LandedBills') \in Nat
        /\ Cardinality(LandedBills) <= Cardinality(LandedBills')
    BY <1>1, LandedStay, FiniteRequests, Fewer
  <1>3. ASSUME NEW c \in Conversations
        PROVE  /\ Cardinality(LandedTurns(c)) \in Nat /\ Cardinality(LandedTurns(c)') \in Nat
               /\ Cardinality(LandedTurns(c)) <= Cardinality(LandedTurns(c)')
    BY <1>1, <1>3, LandedStay, FiniteRequests, Fewer
  <1>4. QED
    BY <1>2, <1>3, ServiceAssumption DEF Allowed

------------------------------------------------------------------------------
(* The budget.                                                             *)

LEMMA MoreOf ==
  ASSUME NEW k \in Nat, NEW m \in Nat, NEW n \in Nat, m <= n
  PROVE  k * m <= k * n
  <1>1. k * n = k * m + k * (n - m) /\ n - m \in Nat
    OBVIOUS
  <1>2. k * (n - m) \in Nat /\ k * m \in Nat
    BY <1>1
  <1>3. QED
    BY <1>1, <1>2

LEMMA OneMoreOf ==
  ASSUME NEW k \in Nat, NEW m \in Nat
  PROVE  k * (m + 1) = k * m + k /\ k * m \in Nat
  OBVIOUS

(* The only change a request makes to the sums is its own bill, with which *)
(* it stops being in flight or lands.                                      *)
LEMMA SpentEffect ==
  ASSUME TypeOK, NEW r \in Requests, RequestStep(r)
  PROVE  \/ spent' = spent
         \/ /\ pc[r] \in {"recording", "salvaging"} /\ pc'[r] \in {"delivering", "closing"}
            /\ RecordBill(r)
            /\ boundary' = boundary
         \/ LandBill(r)
  <1>1. CASE RecordUsage(r) \/ Salvage(r) \/ RecordFails(r) \/ CancelRecord(r)
    <2>1. /\ pc[r] \in {"recording", "salvaging"} /\ pc'[r] \in {"delivering", "closing"}
          /\ boundary' = boundary
      BY <1>1 DEF RecordUsage, Salvage, RecordFails, CancelRecord, Failed, Cancelled, Settle,
         Goto, TypeOK
    <2>2. RecordBill(r) \/ spent' = spent
      BY <1>1 DEF RecordUsage, Salvage, RecordFails, CancelRecord, RecordUndecided, ledgerVars
    <2>3. QED
      BY <2>1, <2>2
  <1>2. CASE ~(RecordUsage(r) \/ Salvage(r) \/ RecordFails(r) \/ CancelRecord(r)
               \/ LandBill(r))
    BY <1>2 DEF RequestStep, Turn, Failure, Cancel, RateLimit, Arrive, Admit, QueueTimeout,
       CreateConversation, FindConversation, MissConversation, ReadHistory, CheckBudget,
       Classify, FinishGeneration, AppendTurn, Deliver, Complete, Close, OpeningFails,
       TurnFails, AppendFails, CancelQuietly, CancelAppend, LandTurn, ledgerVars
  <1>3. QED
    BY <1>1, <1>2

(* Only the budget check puts a turn in flight.                            *)
LEMMA InFlightEffect ==
  ASSUME TypeOK, NEW r \in Requests, RequestStep(r), NEW d \in Days
  PROVE  \/ InFlight(d)' \subseteq InFlight(d)
         \/ /\ pc[r] = "budget" /\ spent[boundary[r]] < Budget /\ boundary[r] <= d
            /\ UNCHANGED <<spent, leases>>
  <1>1. ASSUME NEW q \in Requests, q # r PROVE q \in InFlight(d)' <=> q \in InFlight(d)
    BY <1>1, OthersUntouched DEF InFlight, Untouched
  <1>2. CASE r \notin InFlight(d)' \/ r \in InFlight(d)
    BY <1>1, <1>2 DEF InFlight
  <1>3. CASE r \in InFlight(d)' /\ r \notin InFlight(d)
    <2>1. CASE CheckBudget(r)
      <3>1. /\ pc[r] = "budget" /\ boundary' = boundary
            /\ UNCHANGED <<spent, leases>>
        BY <2>1 DEF CheckBudget, ledgerVars
      <3>2. boundary[r] <= d /\ pc'[r] # "closing"
        BY <1>3, <3>1 DEF InFlight
      <3>3. ~(spent[boundary[r]] >= Budget)
        BY <2>1, <3>2 DEF CheckBudget, TokensSince, Settle, Goto, TypeOK
      <3>4. spent[boundary[r]] \in Nat /\ Budget \in Nat
        BY ServiceAssumption, SMTT(30) DEF TypeOK, Days
      <3>5. QED
        BY <3>1, <3>2, <3>3, <3>4
    <2>2. CASE ~CheckBudget(r)
      <3>1. \/ pc'[r] \notin {"classifying", "generating", "appending", "recording", "salvaging"}
            \/ /\ pc[r] \in {"classifying", "generating", "appending", "recording", "salvaging"}
               /\ boundary' = boundary
        BY <2>2 DEF RequestStep, Turn, Failure, Cancel, RateLimit, Arrive, Admit, QueueTimeout,
           CreateConversation, FindConversation, MissConversation, ReadHistory,
           Classify, FinishGeneration, AppendTurn, RecordUsage, Deliver, Complete, Close, Salvage,
           OpeningFails, TurnFails, AppendFails, RecordFails, CancelQuietly, CancelAppend,
           CancelRecord, LandTurn, LandBill, Failed, Cancelled, Settle, Goto, requestVars, TypeOK
      <3>2. QED
        BY <1>3, <3>1 DEF InFlight
    <2>3. QED
      BY <2>1, <2>2
  <1>4. QED
    BY <1>2, <1>3

LEMMA SpentTypes ==
  ASSUME TypeOK
  PROVE  /\ spent \in [0 .. LastDay + 1 -> Nat] /\ LastDay \in Nat
         /\ \A d \in Days : d \in 0 .. LastDay + 1 /\ d + 1 \in 0 .. LastDay + 1
  BY ServiceAssumption DEF TypeOK, Days

LEMMA SumsFallStep ==
  ASSUME TypeOK, SumsFall, NEW r \in Requests, RequestStep(r)
  PROVE  SumsFall'
  <1>1. CASE spent' = spent
    BY <1>1 DEF SumsFall
  <1>2. CASE RecordBill(r)
    <2> SUFFICES ASSUME NEW a \in 0 .. LastDay + 1, NEW b \in 0 .. LastDay + 1, a <= b
                 PROVE  spent'[b] <= spent'[a]
      BY DEF SumsFall
    <2>1. spent[b] <= spent[a] /\ spent[a] \in Nat /\ spent[b] \in Nat
      BY SpentTypes DEF SumsFall
    <2> DEFINE t == bill[r].tokens
               e == bill[r].day
    <2>2. t \in Nat /\ e \in Nat /\ a \in Nat /\ b \in Nat
      BY PointTypes, SpentTypes
    <2>3. /\ spent'[a] = IF a <= e THEN spent[a] + t ELSE spent[a]
          /\ spent'[b] = IF b <= e THEN spent[b] + t ELSE spent[b]
      BY <1>2, SpentTypes DEF RecordBill
    <2> HIDE DEF t, e
    <2>4. b <= e => a <= e
      BY <2>2
    <2>5. QED
      BY <2>1, <2>2, <2>3, <2>4
  <1>3. QED
    BY <1>1, <1>2, SpentEffect DEF LandBill

(* A request's step keeps the cover of every day.                          *)
LEMMA BudgetCoversStep ==
  ASSUME BudgetInv, SlotsBounded', AllInPlace', NEW r \in Requests, RequestStep(r),
         NEW d \in Days
  PROVE  BudgetCovers(d)'
  <1> DEFINE old == Cardinality(InFlight(d))
             new == Cardinality(InFlight(d)')
  <1>t. /\ TypeOK /\ TypeOK' /\ MaxTokens \in Nat /\ MaxActive \in Nat /\ Budget \in Nat
        /\ d \in Nat
    BY ServiceAssumption DEF BudgetInv, AllInPlace, Days
  <1>f. /\ InFlight(d) \subseteq Requests /\ InFlight(d)' \subseteq Requests
        /\ IsFiniteSet(InFlight(d)) /\ old \in Nat /\ new \in Nat
        /\ MaxTokens * old \in Nat /\ MaxTokens * new \in Nat
        /\ MaxTokens * MaxActive \in Nat
    <2>1. InFlight(d) \subseteq Requests /\ InFlight(d)' \subseteq Requests
      BY DEF InFlight
    <2>2. IsFiniteSet(InFlight(d)) /\ old \in Nat /\ new \in Nat
      BY <2>1, FiniteRequests
    <2> HIDE DEF old, new
    <2>3. QED
      BY <1>t, <2>1, <2>2, OneMoreOf
  <1>s. /\ spent[d] \in Nat /\ spent[d + 1] \in Nat /\ spent'[d] \in Nat /\ spent'[d + 1] \in Nat
    BY <1>t, SpentTypes DEF TypeOK
  <1>l. /\ Allowed \in Nat /\ Allowed' \in Nat /\ MaxActive <= Allowed' /\ Allowed <= Allowed'
        /\ MaxTokens * Allowed \in Nat /\ MaxTokens * Allowed' \in Nat
        /\ MaxTokens * MaxActive <= MaxTokens * Allowed'
        /\ MaxTokens * Allowed <= MaxTokens * Allowed'
    <2>1. /\ Allowed \in Nat /\ Allowed' \in Nat /\ MaxActive <= Allowed'
          /\ Allowed <= Allowed'
      BY LandedMore DEF BudgetInv, Next, SameDay, RequestStep
    <2>2. QED
      BY <1>t, <2>1, MoreOf, OneMoreOf
  <1>b. RecordedOn(d) + MaxTokens * old < Budget + MaxTokens * Allowed
    BY DEF BudgetInv, BudgetCovers
  <1>c. RecordedOn(d) + MaxTokens * old < Budget + MaxTokens * Allowed'
    <2> HIDE DEF old
    <2>1. RecordedOn(d) \in Int
      BY <1>s DEF RecordedOn
    <2>2. QED
      BY <1>t, <1>f, <1>l, <1>b, <2>1
  <1>1. CASE InFlight(d)' \subseteq InFlight(d) /\ spent' = spent
    <2>1. new <= old
      BY <1>1, <1>f, Fewer
    <2>2. MaxTokens * new <= MaxTokens * old
      BY <1>t, <1>f, <2>1, MoreOf
    <2>3. RecordedOn(d)' = RecordedOn(d) /\ RecordedOn(d) \in Int
      BY <1>1, <1>s DEF RecordedOn
    <2>4. RecordedOn(d)' + MaxTokens * new < Budget + MaxTokens * Allowed'
      BY <1>t, <1>f, <1>l, <1>c, <2>2, <2>3
    <2>5. QED
      BY <2>4 DEF BudgetCovers
  <1>2. CASE pc[r] = "budget" /\ spent[boundary[r]] < Budget /\ boundary[r] <= d
             /\ UNCHANGED <<spent, leases>>
    <2>1. RecordedOn(d)' < Budget /\ RecordedOn(d)' \in Int
      <3>1. boundary[r] \in 0 .. LastDay + 1 /\ spent[boundary[r]] \in Nat
        BY <1>t, SpentTypes DEF TypeOK, Days
      <3>2. spent[d] <= spent[boundary[r]]
        BY <1>2, <1>t, <3>1, SpentTypes DEF BudgetInv, SumsFall
      <3>3. QED
        BY <1>2, <1>s, <1>t, <3>1, <3>2 DEF RecordedOn
    <2>2. InFlight(d)' \subseteq leases'
      BY DEF InFlight, AllInPlace, InPlace, Leased, Working
    <2>3. new <= MaxActive
      <3>1. leases' \subseteq Requests
        BY <1>t DEF TypeOK
      <3>2. new <= Cardinality(leases') /\ Cardinality(leases') \in Nat
        BY <2>2, <3>1, Fewer, FiniteRequests
      <3>3. QED
        BY <1>t, <1>f, <3>2 DEF SlotsBounded
    <2>4. MaxTokens * new <= MaxTokens * MaxActive
      BY <1>t, <1>f, <2>3, MoreOf
    <2>5. RecordedOn(d)' + MaxTokens * new < Budget + MaxTokens * Allowed'
      BY <1>t, <1>f, <1>l, <2>1, <2>4
    <2>6. QED
      BY <2>5 DEF BudgetCovers
  <1>3. CASE /\ InFlight(d)' \subseteq InFlight(d)
             /\ pc[r] \in {"recording", "salvaging"} /\ pc'[r] \in {"delivering", "closing"}
             /\ RecordBill(r) /\ boundary' = boundary
    <2> DEFINE t == bill[r].tokens
               e == bill[r].day
    <2>1. /\ t \in Nat /\ e \in Nat /\ t <= MaxTokens /\ boundary[r] \in Nat /\ boundary[r] <= e
      BY <1>3, <1>t, PointTypes DEF BudgetInv, AllInPlace, InPlace, Accounted
    <2>2. /\ spent'[d] = IF d <= e THEN spent[d] + t ELSE spent[d]
          /\ spent'[d + 1] = IF d + 1 <= e THEN spent[d + 1] + t ELSE spent[d + 1]
      BY <1>3, <1>t, SpentTypes DEF RecordBill
    <2>3. RecordedOn(d)' = IF d = e THEN RecordedOn(d) + t ELSE RecordedOn(d)
      <3> HIDE DEF t, e
      <3>1. /\ d < e => d <= e /\ d + 1 <= e
            /\ d = e => d <= e /\ ~(d + 1 <= e)
            /\ d > e => ~(d <= e) /\ ~(d + 1 <= e)
            /\ d < e \/ d = e \/ d > e
        BY <1>t, <2>1
      <3>2. QED
        BY <1>s, <2>1, <2>2, <3>1 DEF RecordedOn
    <2>4. new <= IF d = e THEN old - 1 ELSE old
      <3>1. CASE d = e
        <4>1. r \in InFlight(d) /\ r \notin InFlight(d)'
          BY <1>3, <2>1, <3>1 DEF InFlight
        <4>2. InFlight(d)' \subseteq InFlight(d) \ {r}
          BY <1>3, <4>1
        <4>3. Cardinality(InFlight(d) \ {r}) = old - 1
          BY <1>f, <4>1, FS_RemoveElement
        <4>4. new <= Cardinality(InFlight(d) \ {r})
          BY <1>f, <4>2, Fewer
        <4>5. QED
          BY <3>1, <4>3, <4>4
      <3>2. CASE d # e
        BY <1>3, <1>f, <3>2, Fewer
      <3>3. QED
        BY <3>1, <3>2
    <2>5. CASE d = e
      <3>1. new + 1 <= old /\ new + 1 \in Nat
        BY <1>f, <2>4, <2>5
      <3> HIDE DEF old, new
      <3>2. MaxTokens * (new + 1) <= MaxTokens * old
        BY <1>t, <1>f, <3>1, MoreOf
      <3>3. MaxTokens * new + MaxTokens <= MaxTokens * old
        BY <1>t, <1>f, <3>2, OneMoreOf
      <3>4. RecordedOn(d)' + MaxTokens * new < Budget + MaxTokens * Allowed'
        <4>1. RecordedOn(d) \in Int /\ RecordedOn(d)' = RecordedOn(d) + t
          BY <1>s, <2>3, <2>5 DEF RecordedOn
        <4>2. QED
          BY <1>t, <1>f, <1>l, <1>c, <2>1, <3>3, <4>1
      <3>5. QED
        BY <3>4 DEF BudgetCovers, old, new
    <2>6. CASE d # e
      <3>1. MaxTokens * new <= MaxTokens * old
        BY <1>t, <1>f, <2>4, <2>6, MoreOf
      <3>2. RecordedOn(d)' + MaxTokens * new < Budget + MaxTokens * Allowed'
        <4>1. RecordedOn(d) \in Int /\ RecordedOn(d)' = RecordedOn(d)
          BY <1>s, <2>3, <2>6 DEF RecordedOn
        <4>2. QED
          BY <1>t, <1>f, <1>l, <1>c, <3>1, <4>1
      <3>3. QED
        BY <3>2 DEF BudgetCovers
    <2>7. QED
      BY <2>5, <2>6
  <1>4. CASE LandBill(r)
    <2> DEFINE t == bill[r].tokens
               e == bill[r].day
    <2>1. t \in Nat /\ e \in Nat /\ t <= MaxTokens
      BY <1>4, <1>t, PointTypes
         DEF LandBill, BudgetInv, AllInPlace, InPlace, Accounted, Settled
    <2>2. /\ spent'[d] = IF d <= e THEN spent[d] + t ELSE spent[d]
          /\ spent'[d + 1] = IF d + 1 <= e THEN spent[d + 1] + t ELSE spent[d + 1]
      BY <1>4, <1>t, SpentTypes DEF LandBill, RecordBill
    <2>3. RecordedOn(d)' <= RecordedOn(d) + t /\ RecordedOn(d) \in Int /\ RecordedOn(d)' \in Int
      <3> HIDE DEF t, e
      <3>1. d + 1 <= e => d <= e
        BY <1>t, <2>1
      <3>2. QED
        BY <1>s, <2>1, <2>2, <3>1 DEF RecordedOn
    <2>4. new = old
      <3>1. InFlight(d)' = InFlight(d)
        BY <1>4 DEF LandBill, InFlight
      <3>2. QED
        BY <3>1
    <2>5. Allowed' = Allowed + 1
      <3>1. r \notin LandedBills /\ LandedBills' = LandedBills \union {r}
        BY <1>4, <1>t DEF LandBill, LandedBills, TypeOK
      <3>2. IsFiniteSet(LandedBills) /\ Cardinality(LandedBills) \in Nat
        BY FiniteRequests DEF LandedBills
      <3>3. Cardinality(LandedBills') = Cardinality(LandedBills) + 1
        BY <3>1, <3>2, FS_AddElement
      <3>4. QED
        BY <1>t, <3>2, <3>3 DEF Allowed
    <2>6. MaxTokens * Allowed' = MaxTokens * Allowed + MaxTokens
      BY <1>t, <1>l, <2>5, OneMoreOf
    <2>7. RecordedOn(d)' + MaxTokens * new < Budget + MaxTokens * Allowed'
      <3> DEFINE now == RecordedOn(d)
                 then == RecordedOn(d)'
                 load == MaxTokens * old
                 cover == MaxTokens * Allowed
      <3>1. now \in Int /\ then \in Int /\ then <= now + MaxTokens
        BY <1>t, <2>1, <2>3
      <3>2. load \in Nat /\ cover \in Nat /\ now + load < Budget + cover
        BY <1>f, <1>l, <1>b
      <3> HIDE DEF now, then, load, cover
      <3>3. then + load < Budget + (cover + MaxTokens)
        BY <1>t, <3>1, <3>2
      <3>4. QED
        BY <2>4, <2>6, <3>3 DEF then, load, cover
    <2> HIDE DEF old, new, t, e
    <2>8. QED
      BY <2>7 DEF BudgetCovers, new
  <1>5. QED
    BY <1>1, <1>2, <1>3, <1>4, <1>t, InFlightEffect, SpentEffect

LEMMA BudgetInit == Init => BudgetInv
  <1> SUFFICES ASSUME Init PROVE BudgetInv
    OBVIOUS
  <1>1. AllInPlace
    BY InPlaceInit
  <1>2. Cardinality(leases) = 0 /\ SlotsBounded
    BY FS_EmptySet, ServiceAssumption DEF Init, SlotsBounded
  <1>3. SumsFall
    BY DEF Init, SumsFall
  <1>4. ASSUME NEW d \in Days PROVE BudgetCovers(d)
    <2>1. InFlight(d) = {}
      BY DEF Init, InFlight
    <2>2. RecordedOn(d) = 0
      BY ServiceAssumption DEF Init, RecordedOn, Days
    <2>3. Allowed \in Nat
      BY FiniteRequests, ServiceAssumption DEF Allowed, LandedBills
    <2>4. Cardinality(InFlight(d)) = 0 /\ MaxTokens * 0 = 0 /\ MaxTokens * Allowed \in Nat
      BY <2>1, <2>3, FS_EmptySet, ServiceAssumption, OneMoreOf
    <2>5. QED
      BY <2>2, <2>4, ServiceAssumption DEF BudgetCovers
  <1>5. QED
    BY <1>1, <1>2, <1>3, <1>4 DEF BudgetInv

LEMMA BudgetStep == BudgetInv /\ [Next]_vars => BudgetInv'
  <1> SUFFICES ASSUME BudgetInv, [Next]_vars PROVE BudgetInv'
    OBVIOUS
  <1>1. AllInPlace /\ AllInPlace' /\ SlotsBounded' /\ TypeOK
    BY InPlaceStep, SlotsStep DEF BudgetInv, AllInPlace
  <1>2. ASSUME NEW r \in Requests, RequestStep(r) PROVE BudgetInv'
    BY <1>1, <1>2, SumsFallStep, BudgetCoversStep DEF BudgetInv
  <1>3. ASSUME spent' = spent, \A d \in Days : InFlight(d)' \subseteq InFlight(d) PROVE BudgetInv'
    <2>1. SumsFall'
      BY <1>3 DEF BudgetInv, SumsFall
    <2>2. ASSUME NEW d \in Days PROVE BudgetCovers(d)'
      <3> DEFINE old == Cardinality(InFlight(d))
                 new == Cardinality(InFlight(d)')
      <3>1. InFlight(d) \subseteq Requests /\ InFlight(d)' \subseteq Requests
        BY DEF InFlight
      <3>2. old \in Nat /\ new \in Nat /\ new <= old
        BY <1>3, <3>1, Fewer, FiniteRequests
      <3>3. RecordedOn(d)' = RecordedOn(d) /\ RecordedOn(d) \in Int
        BY <1>1, <1>3, SpentTypes DEF RecordedOn
      <3>l. Allowed \in Nat /\ Allowed' \in Nat /\ Allowed <= Allowed'
        BY LandedMore DEF BudgetInv
      <3>4. RecordedOn(d) + MaxTokens * old < Budget + MaxTokens * Allowed
        BY DEF BudgetInv, BudgetCovers
      <3> HIDE DEF old, new
      <3>5. /\ MaxTokens * new <= MaxTokens * old
            /\ MaxTokens * new \in Nat /\ MaxTokens * old \in Nat
            /\ MaxTokens * Allowed \in Nat /\ MaxTokens * Allowed' \in Nat
            /\ MaxTokens * Allowed <= MaxTokens * Allowed' /\ Budget \in Nat
        BY <3>l, <3>2, MoreOf, OneMoreOf, ServiceAssumption
      <3>6. RecordedOn(d)' + MaxTokens * new < Budget + MaxTokens * Allowed'
        BY <3>3, <3>4, <3>5
      <3>7. QED
        BY <3>6 DEF BudgetCovers, new
    <2>3. QED
      BY <1>1, <2>1, <2>2 DEF BudgetInv
  <1>4. ASSUME Restart PROVE BudgetInv'
    <2>1. spent' = spent
      BY <1>4 DEF Restart, ledgerVars
    <2>2. \A d \in Days : InFlight(d)' \subseteq InFlight(d)
      BY <1>4 DEF Restart, InFlight
    <2>3. QED
      BY <1>3, <2>1, <2>2
  <1>5. ASSUME NEW c \in Conversations, Expire(c) PROVE BudgetInv'
    BY <1>3, <1>5 DEF Expire, requestVars, ledgerVars, InFlight
  <1>6. ASSUME Midnight PROVE BudgetInv'
    BY <1>3, <1>6 DEF Midnight, requestVars, ledgerVars, InFlight
  <1>7. ASSUME UNCHANGED vars PROVE BudgetInv'
    BY <1>3, <1>7 DEF vars, InFlight
  <1>8. QED
    BY <1>2, <1>4, <1>5, <1>6, <1>7 DEF Next, SameDay, RequestStep

(* A day's record stays below the budget plus one generation per slot, and *)
(* one for each record that outlived its caller.                           *)
THEOREM ServiceBudget == Spec => []BudgetOvershootBounded
  <1>1. ASSUME BudgetInv, NEW d \in Days
        PROVE  RecordedOn(d) < Budget + (MaxActive + Cardinality(LandedBills)) * MaxTokens
    <2> DEFINE n == Cardinality(InFlight(d))
    <2>1. RecordedOn(d) + MaxTokens * n < Budget + MaxTokens * Allowed
      BY <1>1 DEF BudgetInv, BudgetCovers
    <2>2. n \in Nat
      BY FiniteRequests DEF InFlight
    <2>3. RecordedOn(d) \in Int
      BY <1>1, SpentTypes DEF RecordedOn, BudgetInv, AllInPlace
    <2>4. Allowed \in Nat
      BY FiniteRequests, ServiceAssumption DEF Allowed, LandedBills
    <2> HIDE DEF n
    <2>5. /\ MaxTokens * n \in Nat /\ MaxTokens * Allowed \in Nat /\ Budget \in Nat
          /\ MaxTokens * Allowed = Allowed * MaxTokens
      BY <2>2, <2>4, ServiceAssumption, OneMoreOf
    <2>6. RecordedOn(d) < Budget + Allowed * MaxTokens
      BY <2>1, <2>3, <2>5
    <2>7. QED
      BY <2>6 DEF Allowed
  <1>2. BudgetInv => BudgetOvershootBounded
    BY <1>1 DEF BudgetOvershootBounded
  <1>3. QED
    BY <1>2, BudgetInit, BudgetStep, PTL DEF Spec

------------------------------------------------------------------------------
(* The turn limit.                                                         *)

(* Requests never hide a conversation, they only create and extend them.   *)
LEMMA NeverHiddenStep ==
  ASSUME TypeOK, NEW r \in Requests, RequestStep(r), NEW c \in Conversations, NeverHidden(c)
  PROVE  NeverHidden(c)'
  <1>1. CASE CreateConversation(r) \/ OpeningFails(r)
    BY <1>1 DEF CreateConversation, OpeningFails, NeverHidden, TypeOK
  <1>2. CASE AppendTurn(r) \/ AppendFails(r) \/ CancelAppend(r) \/ LandTurn(r)
    <2>1. StoreTurn(r) \/ UNCHANGED storeVars
      BY <1>2 DEF AppendTurn, AppendFails, CancelAppend, LandTurn, AppendUndecided
    <2>2. QED
      BY <2>1 DEF StoreTurn, NeverHidden, TypeOK, storeVars
  <1>3. CASE ~(CreateConversation(r) \/ OpeningFails(r) \/ AppendTurn(r) \/ AppendFails(r)
               \/ CancelAppend(r) \/ LandTurn(r))
    <2>1. UNCHANGED storeVars
      BY <1>3 DEF RequestStep, Turn, Failure, Cancel, RateLimit, Arrive, Admit, QueueTimeout,
         FindConversation, MissConversation, ReadHistory, CheckBudget, Classify,
         FinishGeneration, RecordUsage, Deliver, Complete, Close, Salvage, TurnFails, RecordFails,
         CancelQuietly, CancelRecord, LandBill, storeVars
    <2>2. QED
      BY <2>1 DEF NeverHidden, storeVars
  <1>4. QED
    BY <1>1, <1>2, <1>3

(* Only the turn limit's check lets a turn extend its conversation, and    *)
(* the append ends that.                                                   *)
LEMMA ExtendingEffect ==
  ASSUME AllInPlace, NEW r \in Requests, RequestStep(r), NEW c \in Conversations
  PROVE  \/ /\ Extending(c)' \subseteq Extending(c)
            /\ pc[r] = "appending" => r \notin Extending(c)'
         \/ /\ pc[r] = "context" /\ TurnsRead(c) < MaxTurns
            /\ UNCHANGED <<history, leases>>
  <1>t. /\ TypeOK
        /\ lateTurn[r] = "adrift" \/ lateBill[r] = "adrift" => pc[r] \in Settled \union {"salvaging"}
    BY DEF AllInPlace, InPlace, Accounted
  <1>1. ASSUME NEW q \in Requests, q # r PROVE q \in Extending(c)' <=> q \in Extending(c)
    BY <1>t, <1>1, OthersUntouched DEF Extending, Untouched
  <1>2. CASE ReadHistory(r)
    <2>1. CASE r \in Extending(c)'
      <3>1. target[r] = c /\ pc'[r] # "closing"
        BY <1>2, <2>1 DEF ReadHistory, Extending
      <3>2. ~(TurnsRead(c) >= MaxTurns)
        BY <1>t, <1>2, <3>1 DEF ReadHistory, Settle, Goto, TypeOK
      <3>3. TurnsRead(c) \in Nat /\ MaxTurns \in Nat
        BY <1>t, ServiceAssumption, LenProperties DEF TurnsRead, TypeOK
      <3>4. QED
        BY <1>2, <3>2, <3>3 DEF ReadHistory, storeVars
    <2>2. CASE r \notin Extending(c)'
      BY <1>1, <2>2 DEF Extending
    <2>3. QED
      BY <2>1, <2>2
  <1>3. CASE ~ReadHistory(r)
    <2>1. \/ pc'[r] \notin {"budget", "classifying", "generating", "appending"}
          \/ /\ pc[r] \in {"budget", "classifying", "generating"}
             /\ target' = target
      BY <1>t, <1>3 DEF RequestStep, Turn, Failure, Cancel, RateLimit, Arrive, Admit, QueueTimeout,
         CreateConversation, FindConversation, MissConversation, CheckBudget,
         Classify, FinishGeneration, AppendTurn, RecordUsage, Deliver, Complete, Close, Salvage,
         OpeningFails, TurnFails, AppendFails, RecordFails, CancelQuietly, CancelAppend,
         CancelRecord, LandTurn, LandBill, Failed, Cancelled, Settle, Goto, Settled,
         requestVars, TypeOK
    <2>2. QED
      BY <1>1, <2>1 DEF Extending
  <1>4. QED
    BY <1>2, <1>3

(* A turn is stored when it is appended, or when it lands.                 *)
LEMMA TurnEffect ==
  ASSUME AllInPlace, NEW r \in Requests, RequestStep(r)
  PROVE  \/ history' = history
         \/ pc[r] = "appending" /\ AppendTo(r)
         \/ LandTurn(r) /\ AppendTo(r)
  <1>1. CASE LandTurn(r)
    BY <1>1 DEF LandTurn, StoreTurn, AppendTo
  <1>2. CASE ~LandTurn(r)
    BY <1>2 DEF RequestStep, Turn, Failure, Cancel, RateLimit, Arrive, Admit, QueueTimeout,
       CreateConversation, FindConversation, MissConversation, ReadHistory, CheckBudget,
       Classify, FinishGeneration, AppendTurn, RecordUsage, Deliver, Complete, Close, Salvage,
       OpeningFails, TurnFails, AppendFails, RecordFails, CancelQuietly, CancelAppend,
       CancelRecord, LandBill, StoreTurn, AppendUndecided, AppendTo, storeVars
  <1>3. QED
    BY <1>1, <1>2

LEMMA TurnsCoveredStep ==
  ASSUME AllInPlace, AllInPlace', SlotsBounded', NEW r \in Requests, RequestStep(r),
         NEW c \in Conversations, NeverHidden(c), TurnsCovered(c)
  PROVE  TurnsCovered(c)'
  <1> DEFINE old == Cardinality(Extending(c))
             new == Cardinality(Extending(c)')
  <1>t. /\ TypeOK /\ TypeOK' /\ MaxTurns \in Nat /\ MaxActive \in Nat
        /\ history[c] \in Seq(Requests) /\ history'[c] \in Seq(Requests)
        /\ Len(history[c]) \in Nat /\ Len(history'[c]) \in Nat
    BY ServiceAssumption, LenProperties DEF AllInPlace, TypeOK
  <1>f. /\ Extending(c) \subseteq Requests /\ Extending(c)' \subseteq Requests
        /\ IsFiniteSet(Extending(c)) /\ old \in Nat /\ new \in Nat
    <2>1. Extending(c) \subseteq Requests /\ Extending(c)' \subseteq Requests
      BY DEF Extending
    <2>2. QED
      BY <2>1, FiniteRequests
  <1> DEFINE before == Cardinality(LandedTurns(c))
             after  == Cardinality(LandedTurns(c)')
  <1>l. before \in Nat /\ after \in Nat /\ before <= after
    BY LandedMore DEF Next, SameDay, RequestStep
  <1> HIDE DEF before, after
  <1>c. Len(history[c]) + old < MaxTurns + MaxActive + before
    BY DEF TurnsCovered, before
  <1>d. Len(history'[c]) + new < MaxTurns + MaxActive + after => TurnsCovered(c)'
    BY DEF TurnsCovered, after
  <1>1. CASE pc[r] = "context" /\ TurnsRead(c) < MaxTurns /\ UNCHANGED <<history, leases>>
    <2>1. Len(history[c]) < MaxTurns
      BY <1>1, <1>t, EmptySeq DEF TurnsRead, NeverHidden
    <2>2. Extending(c)' \subseteq leases' /\ leases' \subseteq Requests
      BY <1>t DEF Extending, AllInPlace, InPlace, Leased, Working, TypeOK
    <2>3. new <= Cardinality(leases') /\ Cardinality(leases') \in Nat
      BY <2>2, Fewer, FiniteRequests
    <2>4. new <= MaxActive
      BY <1>t, <1>f, <2>3 DEF SlotsBounded
    <2>5. QED
      BY <1>1, <1>t, <1>f, <1>l, <1>d, <2>1, <2>4
  <1>2. CASE Extending(c)' \subseteq Extending(c) /\ history' = history
    <2>1. new <= old
      BY <1>2, <1>f, Fewer
    <2>2. QED
      BY <1>2, <1>t, <1>f, <1>l, <1>c, <1>d, <2>1
  <1>3. CASE /\ Extending(c)' \subseteq Extending(c)
             /\ pc[r] = "appending" /\ r \notin Extending(c)'
             /\ AppendTo(r)
    <2>1. CASE target[r] # c
      <3>1. history'[c] = history[c]
        BY <1>3, <1>t, <2>1 DEF AppendTo, TypeOK
      <3>2. new <= old
        BY <1>3, <1>f, Fewer
      <3>3. QED
        BY <1>t, <1>f, <1>l, <1>c, <1>d, <3>1, <3>2
    <2>2. CASE target[r] = c
      <3>1. Len(history'[c]) = Len(history[c]) + 1
        BY <1>3, <1>t, <2>2, AppendProperties DEF AppendTo, TypeOK
      <3>2. r \in Extending(c) /\ Extending(c)' \subseteq Extending(c) \ {r}
        BY <1>3, <2>2 DEF Extending
      <3>3. new <= old - 1
        <4>1. Cardinality(Extending(c) \ {r}) = old - 1
          BY <1>f, <3>2, FS_RemoveElement
        <4>2. new <= Cardinality(Extending(c) \ {r})
          BY <1>f, <3>2, Fewer
        <4>3. QED
          BY <4>1, <4>2
      <3>4. QED
        BY <1>t, <1>f, <1>l, <1>c, <1>d, <3>1, <3>3
    <2>3. QED
      BY <2>1, <2>2
  <1>4. CASE LandTurn(r) /\ AppendTo(r) /\ Extending(c)' \subseteq Extending(c)
    <2>1. new <= old
      BY <1>4, <1>f, Fewer
    <2>2. CASE target[r] # c
      <3>1. history'[c] = history[c]
        BY <1>4, <1>t, <2>2 DEF AppendTo, TypeOK
      <3>2. QED
        BY <1>t, <1>f, <1>l, <1>c, <1>d, <2>1, <3>1
    <2>3. CASE target[r] = c
      <3>1. Len(history'[c]) = Len(history[c]) + 1
        BY <1>4, <1>t, <2>3, AppendProperties DEF AppendTo, TypeOK
      <3>2. r \notin LandedTurns(c) /\ LandedTurns(c)' = LandedTurns(c) \union {r}
        BY <1>4, <1>t, <2>3 DEF LandTurn, LandedTurns, requestVars, TypeOK
      <3>3. after = before + 1
        <4>1. IsFiniteSet(LandedTurns(c))
          BY FiniteRequests DEF LandedTurns
        <4>2. QED
          BY <3>2, <4>1, FS_AddElement DEF before, after
      <3>4. QED
        BY <1>t, <1>f, <1>l, <1>c, <1>d, <2>1, <3>1, <3>3
    <2>4. QED
      BY <2>2, <2>3
  <1>5. QED
    BY <1>1, <1>2, <1>3, <1>4, <1>t, ExtendingEffect, TurnEffect

LEMMA TurnInit == Init => TurnInv
  <1> SUFFICES ASSUME Init PROVE TurnInv
    OBVIOUS
  <1>1. AllInPlace /\ SlotsBounded
    BY BudgetInit DEF BudgetInv
  <1>2. ASSUME NEW c \in Conversations PROVE NeverHidden(c) /\ TurnsCovered(c)
    <2>1. Extending(c) = {} /\ history[c] = <<>> /\ status[c] = "unused"
      BY DEF Init, Extending
    <2>2. Cardinality(Extending(c)) = 0 /\ Len(history[c]) = 0
      BY <2>1, FS_EmptySet
    <2>3. Cardinality(LandedTurns(c)) \in Nat
      BY FiniteRequests DEF LandedTurns
    <2>4. QED
      BY <2>1, <2>2, <2>3, ServiceAssumption DEF NeverHidden, TurnsCovered
  <1>3. QED
    BY <1>1, <1>2 DEF TurnInv

LEMMA TurnStep == TurnInv /\ [Next]_vars => TurnInv'
  <1> SUFFICES ASSUME TurnInv, [Next]_vars PROVE TurnInv'
    OBVIOUS
  <1>1. AllInPlace /\ AllInPlace' /\ SlotsBounded' /\ TypeOK
    BY InPlaceStep, SlotsStep DEF TurnInv, AllInPlace
  <1> SUFFICES ASSUME "expiry" \notin Faults, NEW c \in Conversations
               PROVE  NeverHidden(c)' /\ TurnsCovered(c)'
    BY <1>1 DEF TurnInv
  <1>2. NeverHidden(c) /\ TurnsCovered(c)
    BY DEF TurnInv
  <1>l. /\ Cardinality(LandedTurns(c)) \in Nat /\ Cardinality(LandedTurns(c)') \in Nat
        /\ Cardinality(LandedTurns(c)) <= Cardinality(LandedTurns(c)')
    BY LandedMore DEF TurnInv
  <1>3. ASSUME NEW r \in Requests, RequestStep(r) PROVE NeverHidden(c)' /\ TurnsCovered(c)'
    BY <1>1, <1>2, <1>3, NeverHiddenStep, TurnsCoveredStep
  <1>4. ASSUME Restart PROVE NeverHidden(c)' /\ TurnsCovered(c)'
    <2>1. status'[c] = status[c] /\ history'[c] = history[c]
      BY <1>2, <1>4 DEF Restart, NeverHidden
    <2>2. Extending(c)' = {}
      BY <1>4 DEF Restart, Extending
    <2>3. Cardinality(Extending(c)') = 0 /\ Cardinality(Extending(c)) \in Nat
      BY <2>2, FS_EmptySet, FiniteRequests DEF Extending
    <2>4. Len(history[c]) \in Nat
      BY <1>1, LenProperties DEF TypeOK
    <2>5. QED
      BY <1>2, <1>l, <2>1, <2>3, <2>4, ServiceAssumption DEF NeverHidden, TurnsCovered
  <1>5. ASSUME NEW d \in Conversations, Expire(d) PROVE FALSE
    BY <1>5 DEF Expire
  <1>6. ASSUME UNCHANGED <<pc, target, storeVars, lateVars>> PROVE NeverHidden(c)' /\ TurnsCovered(c)'
    BY <1>2, <1>6 DEF NeverHidden, TurnsCovered, Extending, LandedTurns, storeVars, lateVars
  <1>7. ASSUME Midnight PROVE NeverHidden(c)' /\ TurnsCovered(c)'
    BY <1>6, <1>7 DEF Midnight, requestVars
  <1>8. ASSUME UNCHANGED vars PROVE NeverHidden(c)' /\ TurnsCovered(c)'
    BY <1>6, <1>8 DEF vars, storeVars, lateVars
  <1>9. QED
    BY <1>3, <1>4, <1>5, <1>7, <1>8 DEF Next, SameDay, RequestStep

(* A conversation passes its limit by fewer turns than there are slots,    *)
(* and one for each append that outlived its caller.                       *)
THEOREM ServiceTurnLimit == Spec => []TurnOvershootBounded
  <1>1. ASSUME TurnInv, "expiry" \notin Faults, NEW c \in Conversations
        PROVE  Len(history[c]) < MaxTurns + MaxActive + Cardinality(LandedTurns(c))
    <2>1. Len(history[c]) + Cardinality(Extending(c))
            < MaxTurns + MaxActive + Cardinality(LandedTurns(c))
      BY <1>1 DEF TurnInv, TurnsCovered
    <2>2. /\ Cardinality(Extending(c)) \in Nat /\ Len(history[c]) \in Nat
          /\ Cardinality(LandedTurns(c)) \in Nat
      BY <1>1, FiniteRequests, LenProperties DEF Extending, LandedTurns, TurnInv, AllInPlace,
         TypeOK
    <2>3. QED
      BY <2>1, <2>2, ServiceAssumption
  <1>2. TurnInv => TurnOvershootBounded
    BY <1>1 DEF TurnOvershootBounded
  <1>3. QED
    BY <1>2, TurnInit, TurnStep, PTL DEF Spec

------------------------------------------------------------------------------
(* Answers.                                                                *)

GenerationRecord == [policy : Types \union {"none", "raised"}, history : BOOLEAN,
                     documents : SUBSET Documents, spent : Nat, reported : Nat,
                     final : BOOLEAN]

\* What is reported has been used; if the newest chunk has a report, it is of
\* the whole answer so far.
Generation ==
  {g \in GenerationRecord : g.reported <= g.spent /\ (g.final => g.reported = g.spent)}

Generations == DOMAIN generation = Requests /\ \A r \in Requests : generation[r] \in Generation

\* What RouteIsSound says of one generation.
Sound(g) ==
  /\ g.policy \in Types
  /\ g.documents # {} <=> g.policy = "evidence_required"
  /\ g.history <=> g.policy \in {"evidence_required", "conversation"}

AnswerInv == TypeOK /\ Generations /\ RouteIsSound

------------------------------------------------------------------------------
LEMMA AnswerStepIsStep == [AnswerNext]_answerVars => [Next]_vars
  <1>1. ASSUME NEW r \in Requests, Route(r) PROVE Next
    BY <1>1 DEF Route, Next, SameDay, Turn
  <1>2. ASSUME NEW r \in Requests, EndStream(r) PROVE Next
    BY <1>2 DEF EndStream, Next, SameDay, Turn
  <1>3. ASSUME NEW r \in Requests, Chunk(r) PROVE UNCHANGED vars
    BY <1>3 DEF Chunk
  <1>4. QED
    BY <1>1, <1>2, <1>3 DEF AnswerNext, Elsewhere, NextDay, Next, answerVars

(* What holds of ChatService, and all of ChatServiceProofs does, holds of  *)
(* its turns with the routing and the chunks in between.                   *)
THEOREM AnswerImplementsService == AnswerSpec => Spec
  <1>1. AnswerInit => Init
    BY DEF AnswerInit
  <1>2. QED
    BY <1>1, AnswerStepIsStep, PTL DEF AnswerSpec, Spec

(* With routing and streaming in between, no bill is lost or invented, and *)
(* the budget and the turn limit are passed by no more than without them.  *)
COROLLARY AnswerKeepsLimits ==
  AnswerSpec => [](UsageConserved /\ BudgetOvershootBounded /\ TurnOvershootBounded)
  BY AnswerImplementsService, ServiceConservesUsage, ServiceBudget, ServiceTurnLimit, PTL

LEMMA NoGenerationType == NoGeneration \in Generation /\ Raised \in Generation
  <1>1. NoGeneration \in Generation
    BY DEF NoGeneration, Generation, GenerationRecord
  <1>2. QED
    BY <1>1 DEF Raised, NoGeneration, Generation, GenerationRecord

(* Preparing an answer to a valid classification does not raise, and gives *)
(* the documents and the history that the prompt is made for.              *)
LEMMA PreparedIsSound ==
  ASSUME NEW answer \in Answers, Accepted(answer), NEW documents \in Retrievable(answer)
  PROVE  Prepared(answer, documents) \in Generation /\ Sound(Prepared(answer, documents))
  <1>1. /\ answer.type \in Types /\ documents \in SUBSET Documents
        /\ answer.query \in {"null", "blank", "text"}
    BY AnswerAssumption DEF Answers, Retrievable
  <1>2. answer.type # "evidence_required" => documents = {}
    BY <1>1 DEF Accepted, Retrievable
  <1> DEFINE policy == Policy(answer, documents)
  <1>3. policy \in Types /\ (documents # {} <=> policy = "evidence_required")
    BY <1>1, <1>2 DEF Policy, Types
  <1>4. policy = "evidence_required" => answer.query # "null"
    BY <1>1, <1>2, <1>3 DEF Policy, Accepted
  <1>5. policy \notin CurrentMessageOnly <=> policy \in {"evidence_required", "conversation"}
    BY <1>3 DEF CurrentMessageOnly, Types
  <1> DEFINE context == policy \notin CurrentMessageOnly
             g == [NoGeneration EXCEPT !.policy = policy, !.history = context,
                                       !.documents = documents]
  <1>6. Prepared(answer, documents) = g
    BY <1>2, <1>4 DEF Prepared
  <1> HIDE DEF policy
  <1>7. context \in BOOLEAN
    OBVIOUS
  <1> HIDE DEF context
  <1>8. /\ g \in Generation
        /\ g.policy = policy /\ g.history = context /\ g.documents = documents
    <2>1. /\ g \in GenerationRecord
          /\ g.policy = policy /\ g.history = context /\ g.documents = documents
          /\ g.spent = 0 /\ g.reported = 0 /\ ~g.final
      BY <1>1, <1>3, <1>7 DEF NoGeneration, GenerationRecord
    <2> HIDE DEF g
    <2>2. QED
      BY <2>1 DEF Generation
  <1> HIDE DEF g
  <1>9. Sound(g)
    BY <1>3, <1>5, <1>8 DEF Sound, context
  <1>10. QED
    BY <1>6, <1>8, <1>9

(* A chunk leaves alone what the answer is generated from.                 *)
LEMMA ChunkKeeps ==
  ASSUME NEW g \in Generation
  PROVE  LET h == [g EXCEPT !.spent = @ + 1, !.final = FALSE]
         IN  \A n \in {h, WithUsage(h), WithUsage(g)} :
               n \in Generation /\ (Sound(g) => Sound(n))
  <1> DEFINE h == [g EXCEPT !.spent = @ + 1, !.final = FALSE]
  <1>1. h \in Generation /\ (Sound(g) => Sound(h))
    <2>1. g \in GenerationRecord
      BY DEF Generation
    <2>2. /\ h \in GenerationRecord /\ ~h.final
          /\ h.spent = g.spent + 1 /\ h.reported = g.reported
      <3> DEFINE m == [g EXCEPT !.spent = @ + 1]
      <3>1. m \in GenerationRecord
        BY <2>1 DEF GenerationRecord
      <3>2. h = [m EXCEPT !.final = FALSE]
        BY <2>1 DEF GenerationRecord
      <3> HIDE DEF m
      <3>3. QED
        BY <2>1, <3>1, <3>2 DEF GenerationRecord
    <2>3. h.policy = g.policy /\ h.documents = g.documents /\ h.history = g.history
      BY <2>1 DEF GenerationRecord
    <2> HIDE DEF h
    <2>4. h.reported <= h.spent
      BY <2>1, <2>2 DEF Generation, GenerationRecord
    <2>5. QED
      BY <2>2, <2>3, <2>4 DEF Generation, Sound
  <1> HIDE DEF h
  <1>2. ASSUME NEW f \in Generation
        PROVE  WithUsage(f) \in Generation /\ (Sound(f) => Sound(WithUsage(f)))
    <2>1. f \in GenerationRecord
      BY DEF Generation
    <2>2. /\ WithUsage(f) \in GenerationRecord
          /\ WithUsage(f).reported = WithUsage(f).spent
      BY <2>1 DEF WithUsage, GenerationRecord
    <2>3. /\ WithUsage(f).policy = f.policy /\ WithUsage(f).history = f.history
          /\ WithUsage(f).documents = f.documents
      BY <2>1 DEF WithUsage, GenerationRecord
    <2>4. WithUsage(f).spent \in Nat
      BY <2>2 DEF GenerationRecord
    <2>5. QED
      BY <2>2, <2>3, <2>4 DEF Generation, Sound
  <1>3. QED
    BY <1>1, <1>2 DEF h

LEMMA InitAnswer == AnswerInit => AnswerInv
  <1>1. AnswerInit => Generations /\ RouteIsSound
    BY NoGenerationType DEF AnswerInit, Init, Generations, RouteIsSound
  <1>2. QED
    BY <1>1, TypesInit DEF AnswerInit, AnswerInv

LEMMA StepAnswer == AnswerInv /\ [AnswerNext]_answerVars => AnswerInv'
  <1> SUFFICES ASSUME AnswerInv, [AnswerNext]_answerVars PROVE AnswerInv'
    OBVIOUS
  <1>1. TypeOK /\ TypeOK' /\ Generations
    BY AnswerStepIsStep, TypesStep DEF AnswerInv
  <1>2. \A q \in Requests : pc[q] = "generating" => Sound(generation[q])
    BY DEF AnswerInv, RouteIsSound, Sound
  <1>3. (\A q \in Requests : pc'[q] = "generating" => Sound(generation[q])') => RouteIsSound'
    BY DEF RouteIsSound, Sound
  <1>4. ASSUME NEW r \in Requests, Route(r) PROVE Generations' /\ RouteIsSound'
    <2>1. PICK answer \in Answers : \E documents \in Retrievable(answer) :
            /\ Accepted(answer)
            /\ generation' = [generation EXCEPT ![r] = Prepared(answer, documents)]
      BY <1>4 DEF Route
    <2>2. PICK documents \in Retrievable(answer) :
            /\ Accepted(answer)
            /\ generation' = [generation EXCEPT ![r] = Prepared(answer, documents)]
      BY <2>1
    <2>3. Prepared(answer, documents) \in Generation /\ Sound(Prepared(answer, documents))
      BY <2>2, PreparedIsSound
    <2>4. \A q \in Requests : q # r => pc'[q] = pc[q]
      BY <1>1, <1>4 DEF Route, Classify, Goto, TypeOK
    <2>5. generation'[r] = Prepared(answer, documents)
          /\ \A q \in Requests \ {r} : generation'[q] = generation[q]
      BY <1>1, <2>2 DEF Generations
    <2>6. Generations'
      BY <1>1, <2>2, <2>3, <2>5 DEF Generations
    <2>7. \A q \in Requests : pc'[q] = "generating" => Sound(generation'[q])
      BY <1>2, <2>3, <2>4, <2>5
    <2>8. QED
      BY <1>3, <2>6, <2>7
  <1>5. ASSUME NEW r \in Requests, Chunk(r) PROVE Generations' /\ RouteIsSound'
    <2>1. generation[r] \in Generation /\ pc' = pc /\ pc[r] = "generating"
      BY <1>1, <1>5 DEF Generations, Chunk, vars
    <2> DEFINE g == generation[r]
               h == [g EXCEPT !.spent = @ + 1, !.final = FALSE]
    <2>2. PICK n \in {h, WithUsage(h), WithUsage(g)} :
            generation' = [generation EXCEPT ![r] = n]
      BY <1>1, <1>5 DEF Chunk, Generations
    <2>3. n \in Generation /\ (Sound(generation[r]) => Sound(n))
      BY <2>1, ChunkKeeps
    <2>4. generation'[r] = n /\ \A q \in Requests \ {r} : generation'[q] = generation[q]
      BY <1>1, <2>2 DEF Generations
    <2>5. Generations'
      BY <1>1, <2>2, <2>3, <2>4 DEF Generations
    <2>6. \A q \in Requests : pc'[q] = "generating" => Sound(generation'[q])
      BY <1>2, <2>1, <2>3, <2>4
    <2>7. QED
      BY <1>3, <2>5, <2>6
  <1>6. ASSUME NEW r \in Requests, EndStream(r) PROVE Generations' /\ RouteIsSound'
    <2>1. generation' = [generation EXCEPT ![r] = NoGeneration]
      BY <1>6 DEF EndStream
    <2>2. pc'[r] = "appending" /\ \A q \in Requests : q # r => pc'[q] = pc[q]
      BY <1>1, <1>6 DEF EndStream, FinishGeneration, Goto, TypeOK
    <2>3. Generations'
      BY <1>1, <2>1, NoGenerationType DEF Generations
    <2>4. \A q \in Requests : pc'[q] = "generating" => Sound(generation'[q])
      BY <1>1, <1>2, <2>1, <2>2 DEF Generations
    <2>5. QED
      BY <1>3, <2>3, <2>4
  <1>7. ASSUME Elsewhere PROVE Generations' /\ RouteIsSound'
    <2>1. /\ DOMAIN generation' = Requests
          /\ \A q \in Requests : pc'[q] = "generating"
               => pc[q] = "generating" /\ generation'[q] = generation[q]
          /\ \A q \in Requests : generation'[q] \in {generation[q], NoGeneration}
      BY <1>7 DEF Elsewhere
    <2>2. Generations'
      BY <1>1, <2>1, NoGenerationType DEF Generations
    <2>3. QED
      BY <1>2, <1>3, <2>1, <2>2
  <1>8. ASSUME UNCHANGED answerVars PROVE Generations' /\ RouteIsSound'
    <2>1. generation' = generation /\ pc' = pc
      BY <1>8 DEF answerVars, vars
    <2>2. QED
      BY <1>1, <1>2, <1>3, <2>1 DEF Generations
  <1>9. ASSUME NextDay PROVE Generations' /\ RouteIsSound'
    <2>1. generation' = generation /\ pc' = pc
      BY <1>9 DEF NextDay, Midnight, requestVars
    <2>2. QED
      BY <1>1, <1>2, <1>3, <2>1 DEF Generations
  <1>10. QED
    BY <1>1, <1>4, <1>5, <1>6, <1>7, <1>8, <1>9 DEF AnswerNext, AnswerInv

(* An answer is prepared without raising, from the documents and with the  *)
(* history that its prompt is made for (chat/application.py:205-258).      *)
THEOREM AnswerRouteIsSound == AnswerSpec => []RouteIsSound
  <1>1. AnswerInv => RouteIsSound
    BY DEF AnswerInv
  <1>2. QED
    BY <1>1, InitAnswer, StepAnswer, PTL DEF AnswerSpec

(* An answer that is accepted is charged for no more than it used, for     *)
(* something, and for all of it if the last chunk of its stream reports    *)
(* it, whatever was reported before (chat/model.py:91-111).                *)
THEOREM AnswerChargesFinalReport == AnswerSpec => FinalUsageCharged
  <1> DEFINE Charged(r) ==
        pc[r] = "generating" /\ pc'[r] = "appending" =>
          /\ cost'[r] \in 1 .. generation[r].spent
          /\ generation[r].final => cost'[r] = generation[r].spent
  <1>1. ASSUME AnswerInv, [AnswerNext]_answerVars, NEW r \in Requests,
               pc[r] = "generating", pc'[r] = "appending"
        PROVE  /\ cost'[r] \in 1 .. generation[r].spent
               /\ generation[r].final => cost'[r] = generation[r].spent
    <2>1. TypeOK /\ generation[r] \in Generation
      BY <1>1 DEF AnswerInv, Generations
    <2>2. ASSUME NEW q \in Requests, Route(q) \/ Chunk(q) PROVE FALSE
      BY <1>1, <2>1, <2>2 DEF Route, Classify, Goto, Chunk, vars, TypeOK
    <2>3. ~Elsewhere /\ ~NextDay
      BY <1>1 DEF Elsewhere, NextDay, Midnight, requestVars
    <2>4. ~UNCHANGED answerVars
      BY <1>1 DEF answerVars, vars
    <2>5. PICK q \in Requests : EndStream(q)
      BY <1>1, <2>2, <2>3, <2>4 DEF AnswerNext
    <2>6. q = r
      BY <1>1, <2>1, <2>5 DEF EndStream, FinishGeneration, Goto, TypeOK
    <2>7. cost'[r] = usage'[r]
      BY <2>1, <2>5, <2>6 DEF EndStream, FinishGeneration, TypeOK
    <2>8. usage'[r] = generation[r].reported /\ generation[r].reported # 0
      BY <2>5, <2>6 DEF EndStream
    <2>9. QED
      BY <2>1, <2>7, <2>8 DEF Generation, GenerationRecord
  <1>2. AnswerInv /\ [AnswerNext]_answerVars
          => [\A r \in Requests : Charged(r)]_answerVars
    BY <1>1
  <1>3. QED
    BY <1>2, InitAnswer, StepAnswer, PTL DEF AnswerSpec, FinalUsageCharged
==============================================================================
