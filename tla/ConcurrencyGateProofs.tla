------------------------ MODULE ConcurrencyGateProofs ------------------------
(***************************************************************************)
(* What ConcurrencyGate guarantees for any number of callers and any       *)
(* limits: its queue and counters are exact and bounded, it implements     *)
(* Admission, and with a condition that passes notifications on it never   *)
(* forgets a free slot.                                                    *)
(***************************************************************************)
EXTENDS ConcurrencyGate, FiniteSetTheorems, SequenceTheorems, TLAPS

------------------------------------------------------------------------------
(* The queue of futures as a sequence without repetition.                  *)

Once(s) == \A i, j \in 1 .. Len(s) : s[i] = s[j] => i = j
Occurs(x, s) == \E i \in 1 .. Len(s) : s[i] = x

(* Appending a caller that is not in the queue.                            *)
LEMMA AppendOnce ==
  ASSUME NEW S, NEW s \in Seq(S), NEW x \in S, Once(s), ~Occurs(x, s)
  PROVE  /\ Append(s, x) \in Seq(S)
         /\ Append(s, x) # <<>>
         /\ Once(Append(s, x))
         /\ \A y : Occurs(y, Append(s, x)) <=> y = x \/ Occurs(y, s)
  <1> DEFINE t == Append(s, x)
  <1>1. /\ t \in Seq(S)
        /\ t # <<>>
        /\ Len(t) = Len(s) + 1
        /\ \A i \in 1 .. Len(s) : t[i] = s[i]
        /\ t[Len(s) + 1] = x
    BY AppendProperties
  <1>2. Len(s) \in Nat
    BY LenProperties
  <1> HIDE DEF t
  <1>3. Once(t)
    BY <1>1, <1>2 DEF Once, Occurs
  <1>4. ASSUME NEW y PROVE Occurs(y, t) <=> y = x \/ Occurs(y, s)
    BY <1>1, <1>2 DEF Occurs
  <1>5. QED
    BY <1>1, <1>3, <1>4 DEF t

(* Taking the oldest caller from the queue.                                *)
LEMMA TailOnce ==
  ASSUME NEW S, NEW s \in Seq(S), s # <<>>, Once(s)
  PROVE  /\ Head(s) \in S
         /\ Occurs(Head(s), s)
         /\ Tail(s) \in Seq(S)
         /\ Once(Tail(s))
         /\ \A y : Occurs(y, Tail(s)) <=> y # Head(s) /\ Occurs(y, s)
  <1> DEFINE t == Tail(s)
             h == Head(s)
  <1>1. /\ h \in S
        /\ h = s[1]
        /\ t \in Seq(S)
        /\ Len(t) = Len(s) - 1
        /\ \A i \in 1 .. Len(t) : t[i] = s[i + 1]
    BY HeadTailProperties
  <1>2. Len(s) \in Nat /\ Len(s) # 0
    BY LenProperties, EmptySeq
  <1> HIDE DEF t, h
  <1>3. Once(t)
    BY <1>1, <1>2 DEF Once
  <1>4. Occurs(h, s)
    BY <1>1, <1>2 DEF Occurs
  <1>5. ASSUME NEW y PROVE Occurs(y, t) <=> y # h /\ Occurs(y, s)
    <2>1. ASSUME Occurs(y, t) PROVE y # h /\ Occurs(y, s)
      BY <2>1, <1>1, <1>2 DEF Occurs, Once
    <2>2. ASSUME y # h, Occurs(y, s) PROVE Occurs(y, t)
      <3>1. PICK i \in 1 .. Len(s) : s[i] = y
        BY <2>2 DEF Occurs
      <3>2. i - 1 \in 1 .. Len(t) /\ t[i - 1] = y
        BY <3>1, <2>2, <1>1, <1>2
      <3>3. QED
        BY <3>2 DEF Occurs
    <2>3. QED
      BY <2>1, <2>2
  <1>6. QED
    BY <1>1, <1>3, <1>4, <1>5 DEF t, h

(* Taking a caller out of the middle of the queue.                         *)
LEMMA DropAtOnce ==
  ASSUME NEW S, NEW s \in Seq(S), NEW k \in 1 .. Len(s), Once(s)
  PROVE  /\ DropAt(s, k) \in Seq(S)
         /\ Once(DropAt(s, k))
         /\ \A y : Occurs(y, DropAt(s, k)) <=> y # s[k] /\ Occurs(y, s)
  <1> DEFINE t == DropAt(s, k)
  <1>1. Len(s) \in Nat /\ Len(s) >= 1
    BY LenProperties
  <1>2. \A i \in 1 .. Len(s) : s[i] \in S
    BY ElementOfSeq
  <1>3. /\ t = [j \in 1 .. Len(s) - 1 |-> IF j < k THEN s[j] ELSE s[j + 1]]
        /\ t \in [1 .. Len(s) - 1 -> S]
    BY <1>1, <1>2 DEF DropAt
  <1>4. t \in Seq(S) /\ Len(t) = Len(s) - 1
    <2>1. Len(s) - 1 \in Nat
      BY <1>1
    <2>2. t \in Seq(S)
      BY <2>1, <1>3, IsASeq
    <2>3. QED
      BY <2>1, <2>2, <1>3, LenProperties
  <1> HIDE DEF t
  <1>5. Once(t)
    BY <1>1, <1>3, <1>4 DEF Once
  <1>6. ASSUME NEW y PROVE Occurs(y, t) <=> y # s[k] /\ Occurs(y, s)
    <2>1. ASSUME Occurs(y, t) PROVE y # s[k] /\ Occurs(y, s)
      BY <2>1, <1>1, <1>3, <1>4 DEF Occurs, Once
    <2>2. ASSUME y # s[k], Occurs(y, s) PROVE Occurs(y, t)
      <3>1. PICK i \in 1 .. Len(s) : s[i] = y
        BY <2>2 DEF Occurs
      <3>2. CASE i < k
        BY <3>1, <3>2, <1>1, <1>3, <1>4 DEF Occurs
      <3>3. CASE i > k
        <4>1. i - 1 \in 1 .. Len(t) /\ t[i - 1] = y
          BY <3>1, <3>3, <1>1, <1>3, <1>4
        <4>2. QED
          BY <4>1 DEF Occurs
      <3>4. QED
        BY <3>1, <3>2, <3>3, <2>2
    <2>3. QED
      BY <2>1, <2>2
  <1>7. QED
    BY <1>4, <1>5, <1>6 DEF t

------------------------------------------------------------------------------
(* Counting the callers at a position.                                     *)

LEMMA OneMore ==
  ASSUME NEW S, IsFiniteSet(S), NEW x, x \notin S
  PROVE  Cardinality(S \union {x}) = Cardinality(S) + 1
  BY FS_AddElement

LEMMA OneLess ==
  ASSUME NEW S, IsFiniteSet(S), NEW x \in S
  PROVE  /\ Cardinality(S \ {x}) = Cardinality(S) - 1
         /\ Cardinality(S) >= 1
  <1>1. Cardinality(S \ {x}) = Cardinality(S) - 1 /\ IsFiniteSet(S \ {x})
    BY FS_RemoveElement
  <1>2. Cardinality(S) \in Nat /\ Cardinality(S \ {x}) \in Nat
    BY <1>1, FS_CardinalityType
  <1>3. QED
    BY <1>1, <1>2

(* The sets of callers the counters count are finite.                      *)
LEMMA PositionsFinite ==
  /\ IsFiniteSet(Holding) /\ Cardinality(Holding) \in Nat
  /\ IsFiniteSet(Parked)  /\ Cardinality(Parked) \in Nat
  /\ IsFiniteSet(Woken)   /\ Cardinality(Woken) \in Nat
  <1>1. /\ Holding \in SUBSET Requests
        /\ Parked \in SUBSET Requests
        /\ Woken \in SUBSET Requests
    BY DEF Holding, Parked, Woken, At
  <1>2. QED
    BY <1>1, GateAssumption, FS_Subset, FS_CardinalityType

------------------------------------------------------------------------------
(* notify(1), whatever step it is part of: it keeps the queue of futures   *)
(* in agreement with the pending callers and moves at most one caller.     *)
LEMMA NotifyEffect ==
  ASSUME TypeOK, WaitersArePending,
         NEW next \in [Requests -> Positions],
         \A q \in Requests : next[q] = "pending" <=> pc[q] = "pending",
         Notify(next)
  PROVE  /\ waiters' \in Seq(Requests)
         /\ pc' \in [Requests -> Positions]
         /\ WaitersArePending'
         /\ \/ waiters = <<>> /\ waiters' = <<>> /\ pc' = next
            \/ \E h \in Requests :
                 /\ pc[h] = "pending"
                 /\ pc' = [next EXCEPT ![h] = "notified"]
  <1>1. CASE waiters = <<>>
    <2>1. pc' = next /\ waiters' = waiters
      BY <1>1 DEF Notify
    <2>2. QED
      BY <1>1, <2>1 DEF TypeOK, WaitersArePending
  <1>2. CASE waiters # <<>>
    <2> DEFINE h == Head(waiters)
    <2>1. pc' = [next EXCEPT ![h] = "notified"] /\ waiters' = Tail(waiters)
      BY <1>2 DEF Notify
    <2>2. Once(waiters) /\ \A q \in Requests : pc[q] = "pending" <=> Occurs(q, waiters)
      BY DEF WaitersArePending, Once, Occurs
    <2>3. /\ h \in Requests
          /\ Occurs(h, waiters)
          /\ Tail(waiters) \in Seq(Requests)
          /\ Once(Tail(waiters))
          /\ \A y : Occurs(y, Tail(waiters)) <=> y # h /\ Occurs(y, waiters)
      BY <1>2, <2>2, TailOnce DEF TypeOK
    <2> HIDE DEF h
    <2>4. pc[h] = "pending"
      BY <2>2, <2>3
    <2>5. pc' \in [Requests -> Positions]
      BY <2>1, <2>3 DEF Positions
    <2>6. \A q \in Requests : pc'[q] = "pending" <=> q # h /\ pc[q] = "pending"
      BY <2>1, <2>3
    <2>7. Once(waiters') /\ \A q \in Requests : pc'[q] = "pending" <=> Occurs(q, waiters')
      BY <2>1, <2>2, <2>3, <2>6
    <2>8. WaitersArePending'
      BY <2>7 DEF WaitersArePending, Once, Occurs
    <2>9. QED
      BY <2>1, <2>3, <2>4, <2>5, <2>8
  <1>3. QED
    BY <1>1, <1>2

------------------------------------------------------------------------------
(***************************************************************************)
(* The inductive invariant: types, the queue of futures, the counters and  *)
(* the limits support each other.  The counters stay natural numbers only  *)
(* because they are exact, and the limits hold only because a waiter looks *)
(* at the counter again when it wakes.                                     *)
(***************************************************************************)
GateInv == TypeOK /\ WaitersArePending /\ CountersExact /\ WithinLimits

LEMMA GateInit == Init => GateInv
  <1> SUFFICES ASSUME Init PROVE GateInv
    OBVIOUS
  <1>1. TypeOK
    BY DEF Init, TypeOK, Positions
  <1>2. WaitersArePending
    BY DEF Init, WaitersArePending
  <1>3. Holding = {} /\ Parked = {}
    BY DEF Init, Holding, Parked, At
  <1>4. CountersExact
    BY <1>3, FS_EmptySet DEF Init, CountersExact
  <1>5. WithinLimits
    BY GateAssumption DEF Init, WithinLimits
  <1>6. QED
    BY <1>1, <1>2, <1>4, <1>5 DEF GateInv

(* How the counted sets change when one caller moves.                      *)
LEMMA Moved ==
  ASSUME TypeOK, NEW r \in Requests, NEW p \in Positions,
         pc' = [pc EXCEPT ![r] = p]
  PROVE  /\ Holding' = IF p = "holding" THEN Holding \union {r} ELSE Holding \ {r}
         /\ Parked'  = IF p \in {"pending", "notified", "expired"}
                         THEN Parked \union {r} ELSE Parked \ {r}
         /\ Woken'   = IF p \in {"notified", "expired"}
                         THEN Woken \union {r} ELSE Woken \ {r}
  <1>1. \A q \in Requests : pc'[q] = IF q = r THEN p ELSE pc[q]
    BY DEF TypeOK
  <1>2. Holding' = IF p = "holding" THEN Holding \union {r} ELSE Holding \ {r}
    BY <1>1 DEF Holding, At
  <1>3. Parked' = IF p \in {"pending", "notified", "expired"}
                    THEN Parked \union {r} ELSE Parked \ {r}
    BY <1>1 DEF Parked, At
  <1>4. Woken' = IF p \in {"notified", "expired"}
                   THEN Woken \union {r} ELSE Woken \ {r}
    BY <1>1 DEF Woken, At
  <1>5. QED
    BY <1>2, <1>3, <1>4

(* ... and when a caller becomes idle in a step that notifies another.     *)
LEMMA MovedAndNotified ==
  ASSUME TypeOK, WaitersArePending, NEW r \in Requests, pc[r] # "pending",
         Notify([pc EXCEPT ![r] = "idle"])
  PROVE  /\ waiters' \in Seq(Requests)
         /\ pc' \in [Requests -> Positions]
         /\ WaitersArePending'
         /\ Holding' = Holding \ {r}
         /\ Parked' = Parked \ {r}
         /\ \/ waiters' = <<>> /\ waiters = <<>>
            \/ \E h \in Requests \ Woken : h # r /\ Woken' = (Woken \ {r}) \union {h}
  <1> DEFINE next == [pc EXCEPT ![r] = "idle"]
  <1>1. /\ next \in [Requests -> Positions]
        /\ \A q \in Requests : next[q] = IF q = r THEN "idle" ELSE pc[q]
    BY DEF TypeOK, Positions
  <1>2. Notify(next)
    OBVIOUS
  <1> HIDE DEF next
  <1>3. \A q \in Requests : next[q] = "pending" <=> pc[q] = "pending"
    BY <1>1
  <1>4. /\ waiters' \in Seq(Requests)
        /\ pc' \in [Requests -> Positions]
        /\ WaitersArePending'
        /\ \/ waiters = <<>> /\ waiters' = <<>> /\ pc' = next
           \/ \E h \in Requests : pc[h] = "pending" /\ pc' = [next EXCEPT ![h] = "notified"]
    BY <1>1, <1>2, <1>3, NotifyEffect
  <1>5. CASE waiters = <<>> /\ waiters' = <<>> /\ pc' = next
    <2>1. Holding' = Holding \ {r} /\ Parked' = Parked \ {r}
      BY <1>1, <1>5 DEF Holding, Parked, At
    <2>2. QED
      BY <2>1, <1>4, <1>5
  <1>6. CASE \E h \in Requests : pc[h] = "pending" /\ pc' = [next EXCEPT ![h] = "notified"]
    <2>1. PICK h \in Requests : pc[h] = "pending" /\ pc' = [next EXCEPT ![h] = "notified"]
      BY <1>6
    <2>2. h # r /\ h \notin Woken
      BY <2>1 DEF Woken, At
    <2>3. \A q \in Requests :
            pc'[q] = IF q = h THEN "notified" ELSE IF q = r THEN "idle" ELSE pc[q]
      BY <2>1, <1>1
    <2>4. Holding' = Holding \ {r} /\ Parked' = Parked \ {r}
      BY <2>1, <2>2, <2>3 DEF Holding, Parked, At
    <2>5. Woken' = (Woken \ {r}) \union {h}
      BY <2>2, <2>3 DEF Woken, At
    <2>6. QED
      BY <1>4, <2>2, <2>4, <2>5
  <1>7. QED
    BY <1>4, <1>5, <1>6

------------------------------------------------------------------------------
(* Every step of the gate preserves the invariant: one step per action.    *)
LEMMA GateStep == GateInv /\ [Next]_vars => GateInv'
  <1> SUFFICES ASSUME GateInv, [Next]_vars PROVE GateInv'
    OBVIOUS
  <1> USE DEF GateInv
  <1>0. TypeOK /\ WaitersArePending /\ CountersExact /\ WithinLimits
    OBVIOUS
  <1>q. Once(waiters) /\ \A q \in Requests : pc[q] = "pending" <=> Occurs(q, waiters)
    BY DEF WaitersArePending, Once, Occurs
  <1>1. ASSUME NEW r \in Requests, AcquireFree(r) PROVE GateInv'
    <2>1. /\ pc' = [pc EXCEPT ![r] = "holding"]
          /\ active' = active + 1 /\ queued' = queued /\ waiters' = waiters
          /\ pc[r] = "idle" /\ active < MaxActive
      BY <1>1 DEF AcquireFree, SlotFree
    <2>2. Holding' = Holding \union {r} /\ Parked' = Parked \ {r}
      BY <2>1, Moved DEF Positions
    <2>3. r \notin Holding /\ r \notin Parked
      BY <2>1 DEF Holding, Parked, At
    <2>4. CountersExact'
      BY <2>1, <2>2, <2>3, Parked \ {r} = Parked, OneMore, PositionsFinite DEF CountersExact
    <2>5. TypeOK' /\ WaitersArePending'
      BY <2>1, <1>q DEF TypeOK, Positions, WaitersArePending
    <2>6. WithinLimits'
      BY <2>1, GateAssumption DEF WithinLimits, TypeOK
    <2>7. QED
      BY <2>4, <2>5, <2>6
  <1>2. ASSUME NEW r \in Requests, AcquireQueued(r) PROVE GateInv'
    <2>1. /\ pc' = [pc EXCEPT ![r] = "pending"]
          /\ active' = active /\ queued' = queued + 1
          /\ waiters' = Append(waiters, r)
          /\ pc[r] = "idle" /\ queued < MaxQueued
      BY <1>2 DEF AcquireQueued, QueueRoom
    <2>2. Parked' = Parked \union {r} /\ Holding' = Holding \ {r}
      BY <2>1, Moved DEF Positions
    <2>3. r \notin Holding /\ r \notin Parked
      BY <2>1 DEF Holding, Parked, At
    <2>4. CountersExact'
      BY <2>1, <2>2, <2>3, Holding \ {r} = Holding, OneMore, PositionsFinite DEF CountersExact
    <2>5. /\ waiters' \in Seq(Requests) /\ Once(waiters')
          /\ \A y : Occurs(y, waiters') <=> y = r \/ Occurs(y, waiters)
      BY <2>1, <1>q, AppendOnce DEF TypeOK
    <2>6. TypeOK'
      BY <2>1, <2>5 DEF TypeOK, Positions
    <2>7. \A q \in Requests : pc'[q] = "pending" <=> Occurs(q, waiters')
      BY <2>1, <2>5, <1>q DEF TypeOK
    <2>8. WaitersArePending'
      BY <2>5, <2>7 DEF WaitersArePending, Once, Occurs
    <2>9. WithinLimits'
      BY <2>1, GateAssumption DEF WithinLimits, TypeOK
    <2>10. QED
      BY <2>4, <2>6, <2>8, <2>9
  <1>3. ASSUME NEW r \in Requests, WakeGranted(r) PROVE GateInv'
    <2>1. /\ pc' = [pc EXCEPT ![r] = "holding"]
          /\ active' = active + 1 /\ queued' = queued - 1 /\ waiters' = waiters
          /\ pc[r] = "notified" /\ active < MaxActive
      BY <1>3 DEF WakeGranted, SlotFree
    <2>2. Holding' = Holding \union {r} /\ Parked' = Parked \ {r}
      BY <2>1, Moved DEF Positions
    <2>3. r \notin Holding /\ r \in Parked
      BY <2>1 DEF Holding, Parked, At
    <2>4. CountersExact' /\ queued >= 1
      BY <2>1, <2>2, <2>3, OneMore, OneLess, PositionsFinite DEF CountersExact
    <2>5. TypeOK' /\ WaitersArePending'
      BY <2>1, <2>4, <1>q DEF TypeOK, Positions, WaitersArePending
    <2>6. WithinLimits'
      BY <2>1, GateAssumption DEF WithinLimits, TypeOK
    <2>7. QED
      BY <2>4, <2>5, <2>6
  <1>4. ASSUME NEW r \in Requests, WakeBeaten(r) PROVE GateInv'
    <2>1. /\ pc' = [pc EXCEPT ![r] = "pending"]
          /\ active' = active /\ queued' = queued
          /\ waiters' = Append(waiters, r)
          /\ pc[r] = "notified"
      BY <1>4 DEF WakeBeaten
    <2>2. Parked' = Parked \union {r} /\ Holding' = Holding \ {r}
      BY <2>1, Moved DEF Positions
    <2>3. r \notin Holding /\ r \in Parked
      BY <2>1 DEF Holding, Parked, At
    <2>4. CountersExact' /\ WithinLimits'
      BY <2>1, <2>2, <2>3, Holding \ {r} = Holding, Parked \union {r} = Parked
         DEF CountersExact, WithinLimits
    <2>5. /\ waiters' \in Seq(Requests) /\ Once(waiters')
          /\ \A y : Occurs(y, waiters') <=> y = r \/ Occurs(y, waiters)
      BY <2>1, <1>q, AppendOnce DEF TypeOK
    <2>6. TypeOK'
      BY <2>1, <2>5 DEF TypeOK, Positions
    <2>7. \A q \in Requests : pc'[q] = "pending" <=> Occurs(q, waiters')
      BY <2>1, <2>5, <1>q DEF TypeOK
    <2>8. WaitersArePending'
      BY <2>5, <2>7 DEF WaitersArePending, Once, Occurs
    <2>9. QED
      BY <2>4, <2>6, <2>8
  <1>5. ASSUME NEW r \in Requests, ExpirePending(r) PROVE GateInv'
    <2>1. PICK i \in 1 .. Len(waiters) : waiters[i] = r /\ waiters' = DropAt(waiters, i)
      BY <1>5 DEF ExpirePending
    <2>2. /\ pc' = [pc EXCEPT ![r] = "expired"]
          /\ active' = active /\ queued' = queued /\ pc[r] = "pending"
      BY <1>5 DEF ExpirePending
    <2>3. Parked' = Parked \union {r} /\ Holding' = Holding \ {r}
      BY <2>2, Moved DEF Positions
    <2>4. r \notin Holding /\ r \in Parked
      BY <2>2 DEF Holding, Parked, At
    <2>5. CountersExact' /\ WithinLimits'
      BY <2>2, <2>3, <2>4, Holding \ {r} = Holding, Parked \union {r} = Parked
         DEF CountersExact, WithinLimits
    <2>6. /\ waiters' \in Seq(Requests) /\ Once(waiters')
          /\ \A y : Occurs(y, waiters') <=> y # r /\ Occurs(y, waiters)
      BY <2>1, <1>q, DropAtOnce DEF TypeOK
    <2>7. TypeOK'
      BY <2>2, <2>6 DEF TypeOK, Positions
    <2>8. \A q \in Requests : pc'[q] = "pending" <=> Occurs(q, waiters')
      BY <2>2, <2>6, <1>q DEF TypeOK
    <2>9. WaitersArePending'
      BY <2>6, <2>8 DEF WaitersArePending, Once, Occurs
    <2>10. QED
      BY <2>5, <2>7, <2>9
  <1>6. ASSUME NEW r \in Requests, ExpireNotified(r) PROVE GateInv'
    <2>1. /\ pc' = [pc EXCEPT ![r] = "expired"] /\ pc[r] = "notified"
          /\ active' = active /\ queued' = queued /\ waiters' = waiters
      BY <1>6 DEF ExpireNotified
    <2>2. Parked' = Parked \union {r} /\ Holding' = Holding \ {r}
      BY <2>1, Moved DEF Positions
    <2>3. r \notin Holding /\ r \in Parked
      BY <2>1 DEF Holding, Parked, At
    <2>4. CountersExact' /\ WithinLimits'
      BY <2>1, <2>2, <2>3, Holding \ {r} = Holding, Parked \union {r} = Parked
         DEF CountersExact, WithinLimits
    <2>5. TypeOK' /\ WaitersArePending'
      BY <2>1, <1>q DEF TypeOK, Positions, WaitersArePending
    <2>6. QED
      BY <2>4, <2>5
  <1>7. ASSUME NEW r \in Requests, Reject(r) PROVE GateInv'
    <2>1. pc[r] = "expired" /\ queued' = queued - 1 /\ active' = active
      BY <1>7 DEF Reject
    <2>2. r \notin Holding /\ r \in Parked
      BY <2>1 DEF Holding, Parked, At
    <2>3. /\ waiters' \in Seq(Requests)
          /\ pc' \in [Requests -> Positions]
          /\ WaitersArePending'
          /\ Holding' = Holding \ {r}
          /\ Parked' = Parked \ {r}
      <3>1. CASE NotifyPassedOn
        <4>1. Notify([pc EXCEPT ![r] = "idle"])
          BY <1>7, <3>1 DEF Reject
        <4>2. QED
          BY <4>1, <2>1, MovedAndNotified
      <3>2. CASE ~NotifyPassedOn
        <4>1. pc' = [pc EXCEPT ![r] = "idle"] /\ waiters' = waiters
          BY <1>7, <3>2 DEF Reject
        <4>2. Holding' = Holding \ {r} /\ Parked' = Parked \ {r}
          BY <4>1, Moved DEF Positions
        <4>3. QED
          BY <4>1, <4>2, <2>1, <1>q DEF TypeOK, Positions, WaitersArePending
      <3>3. QED
        BY <3>1, <3>2
    <2>4. CountersExact' /\ queued >= 1
      BY <2>1, <2>2, <2>3, Holding \ {r} = Holding, OneLess, PositionsFinite DEF CountersExact
    <2>5. TypeOK' /\ WithinLimits'
      BY <2>1, <2>3, <2>4, GateAssumption DEF TypeOK, WithinLimits
    <2>6. QED
      BY <2>3, <2>4, <2>5
  <1>8. ASSUME NEW r \in Requests, Release(r) PROVE GateInv'
    <2>1. /\ pc[r] = "holding" /\ active' = active - 1 /\ active >= 1 /\ queued' = queued
          /\ Notify([pc EXCEPT ![r] = "idle"])
      BY <1>8 DEF Release
    <2>2. r \in Holding /\ r \notin Parked
      BY <2>1 DEF Holding, Parked, At
    <2>3. /\ waiters' \in Seq(Requests)
          /\ pc' \in [Requests -> Positions]
          /\ WaitersArePending'
          /\ Holding' = Holding \ {r}
          /\ Parked' = Parked \ {r}
      BY <2>1, MovedAndNotified
    <2>4. CountersExact'
      BY <2>1, <2>2, <2>3, Parked \ {r} = Parked, OneLess, PositionsFinite DEF CountersExact
    <2>5. TypeOK' /\ WithinLimits'
      BY <2>1, <2>3, GateAssumption DEF TypeOK, WithinLimits
    <2>6. QED
      BY <2>3, <2>4, <2>5
  <1>9. ASSUME UNCHANGED vars PROVE GateInv'
    BY <1>9 DEF vars, TypeOK, WaitersArePending, CountersExact, WithinLimits,
                Holding, Parked, At
  <1>10. QED
    BY <1>1, <1>2, <1>3, <1>4, <1>5, <1>6, <1>7, <1>8, <1>9
       DEF Next, Acquire, Wake, Expire

LEMMA GateInvariant == Spec => []GateInv
  BY GateInit, GateStep, PTL DEF Spec

(* Every variable keeps its type in every reachable state of the gate.     *)
THEOREM GateTypes == Spec => []TypeOK
  <1>1. GateInv => TypeOK
    BY DEF GateInv
  <1>2. QED
    BY <1>1, GateInvariant, PTL

(* The condition's futures are those of the pending callers, _active and   *)
(* _queued count the leases and the queue exactly, and neither exceeds its *)
(* limit, for any number of callers and whichever way their waits end.     *)
THEOREM GateBookkeeping == Spec => []Bookkeeping
  <1>1. GateInv => Bookkeeping
    BY DEF GateInv, Bookkeeping
  <1>2. QED
    BY <1>1, GateInvariant, PTL

------------------------------------------------------------------------------
(***************************************************************************)
(* With a condition that passes notifications on, a step can take a woken  *)
(* caller away only by giving a slot away or by waking another caller.     *)
(***************************************************************************)
LEMMA NoForgottenSlotStep ==
  ASSUME NotifyPassedOn, GateInv, NoForgottenSlot, [Next]_vars
  PROVE  NoForgottenSlot'
  <1>0. TypeOK /\ WaitersArePending /\ CountersExact /\ WithinLimits
    BY DEF GateInv
  <1>w. IsFiniteSet(Woken) /\ Cardinality(Woken) \in Nat /\ active \in Nat
    BY <1>0, PositionsFinite DEF TypeOK
  <1>m. MaxActive \in Nat
    BY GateAssumption
  <1>1. ASSUME NEW r \in Requests, AcquireFree(r) PROVE NoForgottenSlot'
    <2>1. /\ pc' = [pc EXCEPT ![r] = "holding"] /\ pc[r] = "idle"
          /\ active' = active + 1 /\ waiters' = waiters
      BY <1>1 DEF AcquireFree
    <2>2. Woken' = Woken
      BY <2>1, <1>0, Moved DEF Positions, Woken, At
    <2>3. QED
      BY <2>1, <2>2, <1>w, <1>m DEF NoForgottenSlot
  <1>2. ASSUME NEW r \in Requests, AcquireQueued(r) PROVE NoForgottenSlot'
    <2>1. /\ pc' = [pc EXCEPT ![r] = "pending"] /\ pc[r] = "idle"
          /\ active' = active /\ ~(active < MaxActive)
      BY <1>2 DEF AcquireQueued, SlotFree
    <2>2. Woken' = Woken
      BY <2>1, <1>0, Moved DEF Positions, Woken, At
    <2>3. QED
      BY <2>1, <2>2, <1>w, <1>m DEF NoForgottenSlot
  <1>3. ASSUME NEW r \in Requests, WakeGranted(r) PROVE NoForgottenSlot'
    <2>1. /\ pc' = [pc EXCEPT ![r] = "holding"] /\ pc[r] = "notified"
          /\ active' = active + 1 /\ waiters' = waiters
      BY <1>3 DEF WakeGranted
    <2>2. Woken' = Woken \ {r} /\ r \in Woken
      BY <2>1, <1>0, Moved DEF Positions, Woken, At
    <2>3. Cardinality(Woken') = Cardinality(Woken) - 1
      BY <2>2, <1>w, OneLess
    <2>4. QED
      BY <2>1, <2>3, <1>w, <1>m DEF NoForgottenSlot
  <1>4. ASSUME NEW r \in Requests, WakeBeaten(r) PROVE NoForgottenSlot'
    <2>1. active' = active /\ ~(active < MaxActive)
      BY <1>4 DEF WakeBeaten, SlotFree
    <2>2. /\ pc' = [pc EXCEPT ![r] = "pending"] /\ pc[r] = "notified"
      BY <1>4 DEF WakeBeaten
    <2>3. Woken' = Woken \ {r} /\ r \in Woken
      BY <2>2, <1>0, Moved DEF Positions, Woken, At
    <2>4. Cardinality(Woken') = Cardinality(Woken) - 1 /\ Cardinality(Woken) >= 1
      BY <2>3, <1>w, OneLess
    <2>5. QED
      BY <2>1, <2>4, <1>w, <1>m DEF NoForgottenSlot
  <1>5. ASSUME NEW r \in Requests, ExpirePending(r) PROVE NoForgottenSlot'
    <2>1. PICK i \in 1 .. Len(waiters) : waiters' = DropAt(waiters, i)
      BY <1>5 DEF ExpirePending
    <2>2. /\ pc' = [pc EXCEPT ![r] = "expired"] /\ pc[r] = "pending"
          /\ active' = active
      BY <1>5 DEF ExpirePending
    <2>3. Woken' = Woken \union {r} /\ r \notin Woken
      BY <2>2, <1>0, Moved DEF Positions, Woken, At
    <2>4. Cardinality(Woken') = Cardinality(Woken) + 1
      BY <2>3, <1>w, OneMore
    <2>5. waiters # <<>>
      BY <2>1
    <2>6. QED
      BY <2>2, <2>4, <2>5, <1>w, <1>m DEF NoForgottenSlot
  <1>6. ASSUME NEW r \in Requests, ExpireNotified(r) PROVE NoForgottenSlot'
    <2>1. /\ pc' = [pc EXCEPT ![r] = "expired"] /\ pc[r] = "notified"
          /\ active' = active /\ waiters' = waiters
      BY <1>6 DEF ExpireNotified
    <2>2. Woken' = Woken \union {r} /\ r \in Woken
      BY <2>1, <1>0, Moved DEF Positions, Woken, At
    <2>3. Woken' = Woken
      BY <2>2
    <2>4. QED
      BY <2>1, <2>3 DEF NoForgottenSlot
  <1>7. ASSUME NEW r \in Requests, Reject(r) PROVE NoForgottenSlot'
    <2>1. /\ pc[r] = "expired" /\ active' = active
          /\ Notify([pc EXCEPT ![r] = "idle"])
      BY <1>7 DEF Reject
    <2>2. r \in Woken
      BY <2>1 DEF Woken, At
    <2>3. CASE waiters = <<>> /\ waiters' = <<>>
      BY <2>3 DEF NoForgottenSlot
    <2>4. CASE \E h \in Requests \ Woken : h # r /\ Woken' = (Woken \ {r}) \union {h}
      <3>1. PICK h \in Requests \ Woken : h # r /\ Woken' = (Woken \ {r}) \union {h}
        BY <2>4
      <3>2. /\ Cardinality(Woken \ {r}) = Cardinality(Woken) - 1
            /\ IsFiniteSet(Woken \ {r})
        BY <2>2, <1>w, FS_RemoveElement
      <3>3. Cardinality(Woken') = Cardinality(Woken)
        <4>1. h \notin Woken \ {r}
          BY <3>1
        <4>2. Cardinality(Woken') = Cardinality(Woken \ {r}) + 1
          BY <3>1, <3>2, <4>1, OneMore
        <4>3. QED
          BY <4>2, <3>2, <1>w
      <3>4. waiters # <<>>
        <4>1. CASE waiters = <<>>
          <5>1. pc' = [pc EXCEPT ![r] = "idle"]
            BY <2>1, <4>1 DEF Notify
          <5>2. Woken' = Woken \ {r}
            BY <5>1, <1>0, Moved DEF Positions
          <5>3. QED
            BY <5>2, <3>1
        <4>2. QED
          BY <4>1
      <3>5. QED
        BY <2>1, <3>3, <3>4, <1>w, <1>m DEF NoForgottenSlot
    <2>5. QED
      BY <2>1, <2>3, <2>4, <1>0, MovedAndNotified
  <1>8. ASSUME NEW r \in Requests, Release(r) PROVE NoForgottenSlot'
    <2>1. /\ pc[r] = "holding" /\ active' = active - 1
          /\ Notify([pc EXCEPT ![r] = "idle"])
      BY <1>8 DEF Release
    <2>2. r \notin Woken
      BY <2>1 DEF Woken, At
    <2>3. CASE waiters = <<>> /\ waiters' = <<>>
      BY <2>3 DEF NoForgottenSlot
    <2>4. CASE \E h \in Requests \ Woken : h # r /\ Woken' = (Woken \ {r}) \union {h}
      <3>1. PICK h \in Requests \ Woken : h # r /\ Woken' = (Woken \ {r}) \union {h}
        BY <2>4
      <3>2. Woken' = Woken \union {h} /\ h \notin Woken
        BY <3>1, <2>2
      <3>3. Cardinality(Woken') = Cardinality(Woken) + 1
        BY <3>2, <1>w, OneMore
      <3>4. waiters # <<>>
        <4>1. CASE waiters = <<>>
          <5>1. pc' = [pc EXCEPT ![r] = "idle"]
            BY <2>1, <4>1 DEF Notify
          <5>2. Woken' = Woken \ {r}
            BY <5>1, <1>0, Moved DEF Positions
          <5>3. QED
            BY <5>2, <3>1
        <4>2. QED
          BY <4>1
      <3>5. QED
        BY <2>1, <3>3, <3>4, <1>w, <1>m DEF NoForgottenSlot
    <2>5. QED
      BY <2>1, <2>3, <2>4, <1>0, MovedAndNotified
  <1>9. ASSUME UNCHANGED vars PROVE NoForgottenSlot'
    BY <1>9 DEF vars, NoForgottenSlot, Woken, At
  <1>10. QED
    BY <1>1, <1>2, <1>3, <1>4, <1>5, <1>6, <1>7, <1>8, <1>9
       DEF Next, Acquire, Wake, Expire

(* On CPython 3.13 and later no slot stays idle while a caller waits that  *)
(* nothing is about to wake: every notification reaches a taker.           *)
THEOREM GateForgetsNoSlot == NotifyPassedOn /\ Spec => []NoForgottenSlot
  <1> SUFFICES ASSUME NotifyPassedOn PROVE Spec => []NoForgottenSlot
    OBVIOUS
  <1>1. Init => NoForgottenSlot
    BY DEF Init, NoForgottenSlot
  <1>2. GateInv /\ NoForgottenSlot /\ [Next]_vars => NoForgottenSlot'
    BY NoForgottenSlotStep
  <1>3. QED
    BY <1>1, <1>2, GateInvariant, PTL DEF Spec

------------------------------------------------------------------------------
(* The gate implements Admission.                                          *)

LEMMA StagesOfPositions ==
  ASSUME TypeOK
  PROVE  Promise!Active = Holding /\ Promise!Queued = Parked
  <1>1. \A r \in Requests : pc[r] \in Positions
    BY DEF TypeOK
  <1>2. Promise!Active = Holding
    BY DEF Promise!Active, StageOf, Holding, At
  <1>3. Promise!Queued = Parked
    BY <1>1 DEF Promise!Queued, StageOf, Parked, At, Positions
  <1>4. QED
    BY <1>2, <1>3

LEMMA SameCardinality ==
  ASSUME NEW S PROVE Promise!Cardinality(S) = Cardinality(S)
  BY DEF Promise!Cardinality, Cardinality

(* One caller's move seen through the refinement mapping.                  *)
LEMMA MoveSeen ==
  ASSUME TypeOK, NEW r \in Requests, NEW p \in Positions,
         pc' = [pc EXCEPT ![r] = p]
  PROVE  [q \in Requests |-> StageOf(q)]'
           = [[q \in Requests |-> StageOf(q)] EXCEPT ![r] =
                CASE p = "idle"    -> "idle"
                  [] p = "holding" -> "active"
                  [] OTHER         -> "queued"]
  <1>1. \A q \in Requests : pc'[q] = IF q = r THEN p ELSE pc[q]
    BY DEF TypeOK
  <1>2. QED
    BY <1>1 DEF StageOf

(* Notification is invisible: it moves a caller inside the queue.          *)
LEMMA NotifySeen ==
  ASSUME TypeOK, WaitersArePending, NEW r \in Requests, pc[r] # "pending",
         Notify([pc EXCEPT ![r] = "idle"])
  PROVE  [q \in Requests |-> StageOf(q)]'
           = [[q \in Requests |-> StageOf(q)] EXCEPT ![r] = "idle"]
  <1> DEFINE next == [pc EXCEPT ![r] = "idle"]
  <1>1. /\ next \in [Requests -> Positions]
        /\ \A q \in Requests : next[q] = IF q = r THEN "idle" ELSE pc[q]
    BY DEF TypeOK, Positions
  <1>2. Notify(next)
    OBVIOUS
  <1> HIDE DEF next
  <1>3. \/ pc' = next
        \/ \E h \in Requests : pc[h] = "pending" /\ pc' = [next EXCEPT ![h] = "notified"]
    BY <1>1, <1>2, NotifyEffect
  <1>4. \A q \in Requests :
          IF q = r THEN pc'[q] = "idle"
          ELSE pc'[q] = pc[q] \/ (pc[q] = "pending" /\ pc'[q] = "notified")
    BY <1>1, <1>3
  <1>5. QED
    BY <1>4 DEF StageOf

LEMMA GateStepSeen ==
  ASSUME GateInv, [Next]_vars
  PROVE  [Promise!Next]_([r \in Requests |-> StageOf(r)])
  <1>0. TypeOK /\ WaitersArePending /\ CountersExact /\ WithinLimits
    BY DEF GateInv
  <1>s. /\ Promise!SlotFree <=> SlotFree
        /\ Promise!QueueRoom <=> QueueRoom
    BY <1>0, StagesOfPositions, SameCardinality
       DEF Promise!SlotFree, Promise!QueueRoom, SlotFree, QueueRoom, CountersExact
  <1>1. ASSUME NEW r \in Requests, AcquireFree(r) PROVE Promise!Admit(r)
    BY <1>1, <1>0, <1>s, MoveSeen
       DEF AcquireFree, Promise!Admit, Promise!Move, Positions, StageOf
  <1>2. ASSUME NEW r \in Requests, AcquireQueued(r) PROVE Promise!Enqueue(r)
    BY <1>2, <1>0, <1>s, MoveSeen
       DEF AcquireQueued, Promise!Enqueue, Promise!Move, Positions, StageOf
  <1>3. ASSUME NEW r \in Requests, WakeGranted(r) PROVE Promise!Grant(r)
    BY <1>3, <1>0, <1>s, MoveSeen
       DEF WakeGranted, Promise!Grant, Promise!Move, Positions, StageOf
  <1>4. ASSUME NEW r \in Requests, WakeBeaten(r) \/ Expire(r)
        PROVE  UNCHANGED [q \in Requests |-> StageOf(q)]
    <2>1. PICK p \in {"pending", "expired"} :
            /\ pc[r] \in {"pending", "notified"}
            /\ pc' = [pc EXCEPT ![r] = p]
      BY <1>4 DEF WakeBeaten, Expire, ExpirePending, ExpireNotified
    <2>2. \A q \in Requests : pc'[q] = IF q = r THEN p ELSE pc[q]
      BY <2>1, <1>0 DEF TypeOK
    <2>3. QED
      BY <2>1, <2>2 DEF StageOf
  <1>5. ASSUME NEW r \in Requests, Reject(r) PROVE Promise!TurnAway(r)
    <2>1. pc[r] = "expired"
      BY <1>5 DEF Reject
    <2>2. [q \in Requests |-> StageOf(q)]'
            = [[q \in Requests |-> StageOf(q)] EXCEPT ![r] = "idle"]
      <3>1. CASE NotifyPassedOn
        <4>1. Notify([pc EXCEPT ![r] = "idle"])
          BY <1>5, <3>1 DEF Reject
        <4>2. QED
          BY <4>1, <2>1, <1>0, NotifySeen
      <3>2. CASE ~NotifyPassedOn
        BY <1>5, <3>2, <1>0, MoveSeen DEF Reject, Positions
      <3>3. QED
        BY <3>1, <3>2
    <2>3. QED
      BY <2>1, <2>2 DEF Promise!TurnAway, Promise!Move, StageOf
  <1>6. ASSUME NEW r \in Requests, Release(r) PROVE Promise!Finish(r)
    <2>1. pc[r] = "holding" /\ Notify([pc EXCEPT ![r] = "idle"])
      BY <1>6 DEF Release
    <2>2. [q \in Requests |-> StageOf(q)]'
            = [[q \in Requests |-> StageOf(q)] EXCEPT ![r] = "idle"]
      BY <2>1, <1>0, NotifySeen
    <2>3. QED
      BY <2>1, <2>2 DEF Promise!Finish, Promise!Move, StageOf
  <1>7. ASSUME UNCHANGED vars PROVE UNCHANGED [q \in Requests |-> StageOf(q)]
    BY <1>7 DEF vars, StageOf
  <1>8. QED
    BY <1>1, <1>2, <1>3, <1>4, <1>5, <1>6, <1>7
       DEF Next, Acquire, Wake, Expire, Promise!Next

(* With either version of the condition the gate implements Admission: a   *)
(* full gate queues, a full queue rejects, a slot has one holder at a time,*)
(* and a lost notification costs time but never an extra slot.             *)
THEOREM GateImplementsAdmission == Spec => PromiseKept
  <1>1. Init => Promise!Init
    BY DEF Init, Promise!Init, StageOf
  <1>2. GateInv /\ [Next]_vars => [Promise!Next]_([r \in Requests |-> StageOf(r)])
    BY GateStepSeen
  <1>3. QED
    BY <1>1, <1>2, GateInvariant, PTL DEF Spec, PromiseKept, Promise!Spec
==============================================================================
