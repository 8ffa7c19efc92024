-------------------------- MODULE RateLimiterProofs --------------------------
(***************************************************************************)
(* The guarantees of the sliding window, for every number of keys, limit,  *)
(* window and clock resolution.                                            *)
(*                                                                         *)
(* The limiter decides from what is left of its deques; the guarantees     *)
(* speak about all requests it ever accepted.  The inductive invariant     *)
(* connects the two: a deque is the end of the key's accepted requests,    *)
(* and what it lacks has left the window.                                  *)
(*                                                                         *)
(* The monitor that is called before the limiter takes nothing from it:    *)
(* what holds of RateLimiter holds of TrafficMonitor.                      *)
(***************************************************************************)
EXTENDS TrafficMonitor, SequenceTheorems, FiniteSetTheorems, TLAPS

\* The deque of a key, if the limiter holds one.
Held(k) == IF k \in DOMAIN requests THEN requests[k] ELSE <<>>

\* Times that only go up, to t at most.
Ascending(a, t) ==
  /\ a \in Seq(Nat)
  /\ \A i, j \in 1 .. Len(a) : i <= j => a[i] <= a[j]
  /\ \A i \in 1 .. Len(a) : a[i] <= t

\* q is the end of a, and the rest of a has left the window at time t.
Remains(a, q, t) ==
  /\ q \in Seq(Nat)
  /\ Len(q) <= Len(a)
  /\ \A i \in 1 .. Len(q) : q[i] = a[Len(a) - Len(q) + i]
  /\ \A i \in 1 .. Len(a) - Len(q) : a[i] + Span <= t

\* No Limit + 1 of the times are in one window.
Spread(a) == \A i \in 1 .. Len(a) - Limit : a[i + Limit] >= a[i] + Span

Clocks ==
  /\ now \in Nat /\ lastCleanup \in Nat
  /\ outcome \in [at : Nat, wait : Int]
  /\ lastCleanup <= now /\ outcome.at <= now

Faithful ==
  /\ DOMAIN requests \subseteq Keys
  /\ \A k \in Keys : /\ Ascending(accepted[k], now)
                     /\ Remains(accepted[k], Held(k), now)
                     /\ Spread(accepted[k])
                     /\ Len(Held(k)) <= Limit
  /\ \A k \in DOMAIN requests : requests[k] # <<>>
  /\ DOMAIN accepted = Keys

Recent ==
  /\ \A k \in DOMAIN requests : Latest(requests[k]) > lastCleanup - Span
  /\ lastCleanup > outcome.at - Span

WindowInv == Clocks /\ Faithful /\ Recent

------------------------------------------------------------------------------
LEMMA SpanPositive == Span \in Nat \ {0}
  BY RateAssumption DEF Span

(* A deque without its first n times.                                      *)
LEMMA EndOf ==
  ASSUME NEW q \in Seq(Nat), NEW n \in 0 .. Len(q)
  PROVE  LET live == SubSeq(q, n + 1, Len(q))
         IN  /\ live \in Seq(Nat) /\ Len(live) = Len(q) - n
             /\ \A i \in 1 .. Len(live) : live[i] = q[n + i] /\ live[i] \in Nat
  OBVIOUS

(* Dropping expired times from the front of a deque.                       *)
LEMMA Drop ==
  ASSUME NEW a \in Seq(Nat), NEW q, NEW t \in Nat, Remains(a, q, t),
         NEW n \in 0 .. Len(q), \A i \in 1 .. n : q[i] <= t - Span
  PROVE  Remains(a, SubSeq(q, n + 1, Len(q)), t)
  <1> DEFINE live == SubSeq(q, n + 1, Len(q))
  <1>1. q \in Seq(Nat) /\ Len(q) \in Nat /\ Len(a) \in Nat
    BY DEF Remains
  <1>2. /\ live \in Seq(Nat) /\ Len(live) = Len(q) - n
        /\ \A i \in 1 .. Len(live) : live[i] = q[n + i]
    BY <1>1, EndOf
  <1> HIDE DEF live
  <1>3. \A i \in 1 .. Len(live) : live[i] = a[Len(a) - Len(live) + i]
    <2> SUFFICES ASSUME NEW i \in 1 .. Len(live) PROVE live[i] = a[Len(a) - Len(live) + i]
      OBVIOUS
    <2>1. n + i \in 1 .. Len(q) /\ live[i] = q[n + i]
      BY <1>1, <1>2
    <2>2. QED
      BY <1>1, <1>2, <2>1 DEF Remains
  <1>4. \A i \in 1 .. Len(a) - Len(live) : a[i] + Span <= t
    <2> SUFFICES ASSUME NEW i \in 1 .. Len(a) - Len(live) PROVE a[i] + Span <= t
      OBVIOUS
    <2>1. CASE i <= Len(a) - Len(q)
      BY <1>1, <1>2, <2>1 DEF Remains
    <2>2. CASE i > Len(a) - Len(q)
      <3> DEFINE j == i - (Len(a) - Len(q))
      <3>1. j \in 1 .. n /\ j \in 1 .. Len(q) /\ Len(a) - Len(q) + j = i
        BY <1>1, <1>2, <2>2, SMTT(30)
      <3> HIDE DEF j
      <3>2. q[j] = a[Len(a) - Len(q) + j] /\ q[j] <= t - Span
        BY <3>1 DEF Remains
      <3>3. a[i] <= t - Span /\ i \in 1 .. Len(a)
        <4>1. Len(a) \in Nat /\ Len(q) \in Nat /\ Len(live) \in Nat
          BY <1>1, <1>2
        <4>2. i \in 1 .. Len(a)
          BY <4>1
        <4>3. QED
          BY <3>1, <3>2, <4>2
      <3>4. a[i] \in Nat
        BY <3>3, SMTT(30)
      <3>5. QED
        BY <3>3, <3>4, SpanPositive, SMTT(30)
    <2>3. QED
      BY <1>1, <1>2, <2>1, <2>2
  <1>5. Remains(a, live, t)
    BY <1>1, <1>2, <1>3, <1>4 DEF Remains
  <1>6. QED
    BY <1>5 DEF live

(* Forgetting a deque whose latest time has expired.                       *)
LEMMA Forget ==
  ASSUME NEW a, NEW q, NEW t \in Nat, Ascending(a, t), Remains(a, q, t),
         q = <<>> \/ Latest(q) <= t - Span
  PROVE  Remains(a, <<>>, t)
  <1>1. CASE q = <<>>
    BY <1>1
  <1>2. CASE q # <<>>
    <2>1. /\ a \in Seq(Nat) /\ q \in Seq(Nat) /\ Len(q) \in 1 .. Len(a)
          /\ Len(a) \in Nat /\ Latest(q) = a[Len(a)]
      BY <1>2 DEF Ascending, Remains, Latest
    <2>2. \A i \in 1 .. Len(a) : a[i] <= a[Len(a)] /\ a[i] \in Nat /\ a[Len(a)] \in Nat
      BY <2>1, SMTT(30) DEF Ascending
    <2>3. \A i \in 1 .. Len(a) : a[i] + Span <= t
      BY <1>2, <2>1, <2>2, SpanPositive, SMTT(30)
    <2>4. QED
      BY <2>1, <2>3 DEF Remains
  <1>3. QED
    BY <1>1, <1>2

(* Accepting a request now, while the deque is below the limit.            *)
LEMMA Extend ==
  ASSUME NEW a, NEW q, NEW t \in Nat, Ascending(a, t), Remains(a, q, t), Spread(a),
         Len(q) < Limit
  PROVE  /\ Ascending(Append(a, t), t)
         /\ Remains(Append(a, t), Append(q, t), t)
         /\ Spread(Append(a, t))
  <1> DEFINE b == Append(a, t)
  <1>1. /\ a \in Seq(Nat) /\ q \in Seq(Nat) /\ Len(a) \in Nat /\ Len(q) \in Nat
        /\ Len(q) <= Len(a)
    BY DEF Ascending, Remains
  <1>2. /\ b \in Seq(Nat) /\ Len(b) = Len(a) + 1 /\ b[Len(a) + 1] = t
        /\ \A i \in 1 .. Len(a) : b[i] = a[i] /\ a[i] \in Nat /\ a[i] <= t
    BY <1>1 DEF Ascending
  <1> HIDE DEF b
  <1>3. Ascending(b, t)
    <2>1. ASSUME NEW i \in 1 .. Len(b), NEW j \in 1 .. Len(b), i <= j
          PROVE  b[i] <= b[j]
      <3>1. CASE j = Len(a) + 1
        <4>1. i = Len(a) + 1 \/ i \in 1 .. Len(a)
          BY <1>1, <1>2
        <4>2. QED
          BY <1>2, <3>1, <4>1
      <3>2. CASE j \in 1 .. Len(a)
        <4>1. i \in 1 .. Len(a)
          BY <1>1, <2>1, <3>2
        <4>2. a[i] <= a[j]
          BY <2>1, <3>2, <4>1 DEF Ascending
        <4>3. QED
          BY <1>2, <3>2, <4>1, <4>2
      <3>3. QED
        BY <1>1, <1>2, <2>1, <3>1, <3>2
    <2>2. ASSUME NEW i \in 1 .. Len(b) PROVE b[i] <= t
      <3>1. i = Len(a) + 1 \/ i \in 1 .. Len(a)
        BY <1>1, <1>2
      <3>2. QED
        BY <1>2, <3>1
    <2>3. QED
      BY <1>2, <2>1, <2>2 DEF Ascending
  <1>4. Remains(b, Append(q, t), t)
    <2> DEFINE r == Append(q, t)
    <2>1. /\ r \in Seq(Nat) /\ Len(r) = Len(q) + 1 /\ r[Len(q) + 1] = t
          /\ \A i \in 1 .. Len(q) : r[i] = q[i]
      BY <1>1
    <2> HIDE DEF r
    <2>2. \A i \in 1 .. Len(r) : r[i] = b[Len(b) - Len(r) + i]
      <3> SUFFICES ASSUME NEW i \in 1 .. Len(r) PROVE r[i] = b[Len(b) - Len(r) + i]
        OBVIOUS
      <3>1. CASE i = Len(q) + 1
        BY <1>1, <1>2, <2>1, <3>1
      <3>2. CASE i \in 1 .. Len(q)
        <4>1. Len(b) - Len(r) + i = Len(a) - Len(q) + i /\ Len(a) - Len(q) + i \in 1 .. Len(a)
          BY <1>1, <1>2, <2>1, <3>2
        <4>2. QED
          BY <1>1, <1>2, <2>1, <3>2, <4>1 DEF Remains
      <3>3. QED
        BY <1>1, <2>1, <3>1, <3>2
    <2>3. ASSUME NEW i \in 1 .. Len(b) - Len(r) PROVE b[i] + Span <= t
      <3>1. i \in 1 .. Len(a) - Len(q) /\ i \in 1 .. Len(a)
        BY <1>1, <1>2, <2>1, SMTT(30)
      <3>2. QED
        BY <1>2, <3>1 DEF Remains
    <2>4. Remains(b, r, t)
      BY <1>1, <1>2, <2>1, <2>2, <2>3 DEF Remains
    <2>5. QED
      BY <2>4 DEF r
  <1>5. Spread(b)
    <2> SUFFICES ASSUME NEW i \in 1 .. Len(b) - Limit PROVE b[i + Limit] >= b[i] + Span
      BY DEF Spread
    <2>l. Limit \in Nat \ {0}
      BY RateAssumption
    <2>1. CASE i \in 1 .. Len(a) - Limit
      <3>1. i + Limit \in 1 .. Len(a) /\ i \in 1 .. Len(a)
        BY <1>1, <2>1, <2>l
      <3>2. QED
        BY <1>2, <2>1, <3>1 DEF Spread
    <2>2. CASE i = Len(a) + 1 - Limit
      <3>1. i \in 1 .. Len(a) /\ i \in 1 .. Len(a) - Len(q) /\ i + Limit = Len(a) + 1
        BY <1>1, <2>2, <2>l
      <3>2. a[i] + Span <= t
        BY <3>1 DEF Remains
      <3>3. QED
        BY <1>2, <3>1, <3>2, SpanPositive
    <2>3. i \in 1 .. Len(a) - Limit \/ i = Len(a) + 1 - Limit
      <3>1. Len(b) = Len(a) + 1 /\ Len(a) \in Nat
        BY <1>1, <1>2
      <3>2. QED
        BY <2>l, <3>1
    <2>4. QED
      BY <2>1, <2>2, <2>3
  <1>6. QED
    BY <1>3, <1>4, <1>5 DEF b

(* Time passes: what had left the window stays out of it.                  *)
LEMMA Age ==
  ASSUME NEW a, NEW q, NEW t \in Nat, Ascending(a, t), Remains(a, q, t)
  PROVE  Ascending(a, t + 1) /\ Remains(a, q, t + 1)
  <1>1. /\ a \in Seq(Nat) /\ q \in Seq(Nat)
        /\ \A i \in 1 .. Len(a) : a[i] \in Nat
    BY DEF Ascending, Remains
  <1>2. QED
    BY <1>1, SpanPositive, SMTT(30) DEF Ascending, Remains

------------------------------------------------------------------------------
LEMMA InitWindow == Init => WindowInv
  <1> SUFFICES ASSUME Init PROVE WindowInv
    OBVIOUS
  <1>1. Clocks
    BY DEF Init, Clocks
  <1>2. Faithful
    BY RateAssumption DEF Init, Faithful, Ascending, Remains, Spread, Held
  <1>3. Recent
    BY SpanPositive DEF Init, Recent
  <1>4. QED
    BY <1>1, <1>2, <1>3 DEF WindowInv

LEMMA LatestIsTime ==
  ASSUME WindowInv, NEW k \in DOMAIN requests
  PROVE  Latest(requests[k]) \in Nat
  <1>1. requests[k] \in Seq(Nat) /\ requests[k] # <<>>
    BY DEF WindowInv, Faithful, Remains, Held
  <1>2. QED
    BY <1>1 DEF Latest

(* What a check finds after the clean-up and the loop.                     *)
LEMMA Found ==
  ASSUME WindowInv, NEW k \in Keys, NEW n \in 0 .. Len(Times(k)), Expired(Times(k), n)
  PROVE  LET live == SubSeq(Times(k), n + 1, Len(Times(k)))
         IN  /\ Remains(accepted[k], live, now)
             /\ \A i \in 1 .. Len(live) : live[i] > now - Span
             /\ Len(live) <= Limit
  <1> DEFINE live == SubSeq(Times(k), n + 1, Len(Times(k)))
  <1>0. now \in Nat /\ Ascending(accepted[k], now) /\ accepted[k] \in Seq(Nat)
    BY DEF WindowInv, Clocks, Faithful, Ascending
  <1>1. Remains(accepted[k], Times(k), now)
    <2>1. Remains(accepted[k], Held(k), now)
      BY DEF WindowInv, Faithful
    <2>2. CASE k \in Kept
      BY <2>1, <2>2 DEF Kept, Times, Held
    <2>3. CASE k \in DOMAIN requests /\ k \notin Kept
      <3>1. Held(k) = <<>> \/ Latest(Held(k)) <= now - Span
        BY <2>3 DEF Kept, Idle, Held
      <3>2. QED
        BY <1>0, <2>1, <2>3, <3>1, Forget DEF Times
    <2>4. CASE k \notin DOMAIN requests
      BY <2>1, <2>4 DEF Kept, Times, Held
    <2>5. QED
      BY <2>2, <2>3, <2>4
  <1>2. Remains(accepted[k], live, now)
    BY <1>0, <1>1, Drop DEF Expired
  <1>3. \A i \in 1 .. Len(live) : live[i] > now - Span
    <2> SUFFICES ASSUME NEW i \in 1 .. Len(live) PROVE live[i] > now - Span
      OBVIOUS
    <2>1. /\ Times(k) \in Seq(Nat) /\ Len(Times(k)) \in Nat
          /\ Len(live) = Len(Times(k)) - n
          /\ \A j \in 1 .. Len(live) : live[j] = Times(k)[n + j] /\ live[j] \in Nat
      <3>1. Times(k) \in Seq(Nat) /\ Len(Times(k)) \in Nat
        BY <1>1 DEF Remains
      <3>2. QED
        BY <3>1, EndOf
    <2> HIDE DEF live
    <2>2. n < Len(Times(k)) /\ live[1] > now - Span
      BY <2>1, SMTT(30) DEF Expired
    <2>3. live[1] <= live[i]
      <3> DEFINE s == Len(accepted[k]) - Len(live)
      <3>0. Len(live) \in Nat /\ Len(live) <= Len(accepted[k]) /\ Len(accepted[k]) \in Nat
        BY <1>0, <1>2 DEF Remains
      <3>1. /\ s + 1 \in 1 .. Len(accepted[k]) /\ s + i \in 1 .. Len(accepted[k])
            /\ s + 1 <= s + i /\ 1 \in 1 .. Len(live)
        BY <3>0
      <3>2. live[1] = accepted[k][s + 1] /\ live[i] = accepted[k][s + i]
        BY <1>2, <3>1 DEF Remains
      <3> HIDE DEF s
      <3>3. QED
        BY <1>0, <3>1, <3>2 DEF Ascending
    <2>4. 1 \in 1 .. Len(live) /\ live[1] \in Nat /\ live[i] \in Nat
      BY <1>2, SMTT(30) DEF Remains
    <2>5. QED
      BY <1>0, <2>2, <2>3, <2>4, SpanPositive
  <1>4. Len(live) <= Limit
    <2>1. Len(Times(k)) <= Limit
      BY RateAssumption DEF Times, Kept, Held, WindowInv, Faithful
    <2>2. Times(k) \in Seq(Nat) /\ Len(live) = Len(Times(k)) - n
      BY <1>1 DEF Remains
    <2>3. QED
      BY <2>1, <2>2, RateAssumption
  <1>5. QED
    BY <1>2, <1>3, <1>4

LEMMA StepWindow == WindowInv /\ [Next]_vars => WindowInv'
  <1> SUFFICES ASSUME WindowInv, [Next]_vars PROVE WindowInv'
    OBVIOUS
  <1>s. Span \in Nat \ {0}
    BY SpanPositive
  <1>1. CASE Tick
    <2>1. now' = now + 1 /\ now \in Nat /\ UNCHANGED <<requests, lastCleanup, accepted, outcome>>
      BY <1>1 DEF Tick, WindowInv, Clocks
    <2>2. Clocks'
      BY <2>1 DEF WindowInv, Clocks
    <2>3. Faithful'
      <3>1. ASSUME NEW k \in Keys
            PROVE  /\ Ascending(accepted[k], now)' /\ Remains(accepted[k], Held(k), now)'
                   /\ Len(Held(k)') <= Limit
        <4>1. Held(k)' = Held(k)
          BY <2>1 DEF Held
        <4>2. Ascending(accepted[k], now + 1) /\ Remains(accepted[k], Held(k), now + 1)
          BY <2>1, Age DEF WindowInv, Faithful
        <4>3. QED
          BY <2>1, <4>1, <4>2 DEF Ascending, Remains, WindowInv, Faithful
      <3>2. QED
        BY <2>1, <3>1 DEF WindowInv, Faithful, Spread
    <2>4. Recent'
      BY <2>1 DEF WindowInv, Recent
    <2>5. QED
      BY <2>2, <2>3, <2>4 DEF WindowInv
  <1>2. ASSUME NEW k \in Keys, Check(k) PROVE WindowInv'
    <2>1. PICK n \in 0 .. Len(Times(k)) :
            LET live == SubSeq(Times(k), n + 1, Len(Times(k)))
            IN  /\ Expired(Times(k), n)
                /\ IF Len(live) >= Limit THEN Refuse(k, live) ELSE Accept(k, live)
      BY <1>2 DEF Check
    <2> DEFINE live == SubSeq(Times(k), n + 1, Len(Times(k)))
    <2>2. /\ Remains(accepted[k], live, now) /\ \A i \in 1 .. Len(live) : live[i] > now - Span
          /\ Len(live) <= Limit
      BY <2>1, Found
    <2>c. /\ now' = now /\ Cleanup /\ DOMAIN accepted = Keys
          /\ now \in Nat /\ lastCleanup \in Nat /\ lastCleanup <= now
      BY <1>2 DEF Check, WindowInv, Clocks, Faithful
    <2>l. live \in Seq(Nat) /\ Len(live) \in Nat /\ Limit \in Nat \ {0}
      BY <2>2, RateAssumption DEF Remains
    <2> HIDE DEF live
    <2> DEFINE end == IF Len(live) >= Limit THEN live ELSE Append(live, now)
    <2>3.   /\ requests' = [q \in Kept \union {k} |-> IF q = k THEN end ELSE requests[q]]
            /\ end # <<>> /\ end \in Seq(Nat) /\ Latest(end) > now - Span
            /\ Ascending(accepted'[k], now) /\ Remains(accepted'[k], end, now)
            /\ Spread(accepted'[k]) /\ Len(end) <= Limit
            /\ \A q \in Keys \ {k} : accepted'[q] = accepted[q]
            /\ DOMAIN accepted' = Keys
            /\ outcome' \in [at : {now}, wait : Int]
      <3>1. CASE Len(live) >= Limit
        <4>1. Refuse(k, live)
          BY <2>1, <3>1 DEF live
        <4>2. live[1] \in Nat /\ RetryAfter(live[1]) \in Int
          BY <2>c, <2>l, <3>1, <1>s, RateAssumption DEF RetryAfter
        <4>3. live # <<>> /\ Latest(live) > now - Span
          BY <2>2, <2>l, <3>1 DEF Latest
        <4>4. end = live /\ UNCHANGED accepted
          BY <3>1, <4>1 DEF Refuse
        <4>5. QED
          BY <2>2, <2>c, <2>l, <4>1, <4>2, <4>3, <4>4 DEF Refuse, WindowInv, Faithful
      <3>2. CASE Len(live) < Limit
        <4>1. Accept(k, live)
          BY <2>1, <2>l, <3>2 DEF live
        <4>e. end = Append(live, now)
          BY <2>l, <3>2
        <4>2. accepted'[k] = Append(accepted[k], now)
          BY <2>c, <4>1 DEF Accept
        <4>3. /\ Ascending(accepted'[k], now) /\ Remains(accepted'[k], Append(live, now), now)
              /\ Spread(accepted'[k])
          BY <2>2, <2>c, <3>2, <4>2, Extend DEF WindowInv, Faithful
        <4>4. /\ Append(live, now) # <<>> /\ Append(live, now) \in Seq(Nat)
              /\ Latest(Append(live, now)) > now - Span
          BY <2>l, <2>c, <1>s DEF Latest
        <4>5. QED
          BY <2>c, <2>l, <3>2, <4>1, <4>3, <4>4, <4>e DEF Accept
      <3>3. QED
        BY <2>l, <3>1, <3>2
    <2> HIDE DEF end
    <2>4. Clocks'
      BY <2>3, <2>c DEF Clocks, Cleanup
    <2>5. Faithful'
      <3>1. DOMAIN requests' = Kept \union {k} /\ Kept \subseteq DOMAIN requests
        BY <2>3 DEF Kept
      <3>2. ASSUME NEW q \in Keys, q # k
            PROVE  Remains(accepted[q], Held(q)', now) /\ Len(Held(q)') <= Limit
        <4>1. Ascending(accepted[q], now) /\ Remains(accepted[q], Held(q), now)
          BY DEF WindowInv, Faithful
        <4>2. CASE q \in Kept
          <5>1. Held(q)' = Held(q)
            BY <2>3, <3>1, <3>2, <4>2 DEF Held
          <5>2. QED
            BY <4>1, <5>1 DEF WindowInv, Faithful
        <4>3. CASE q \notin Kept
          <5>1. Held(q)' = <<>>
            BY <3>1, <3>2, <4>3 DEF Held
          <5>2. Held(q) = <<>> \/ Latest(Held(q)) <= now - Span
            BY <4>3 DEF Kept, Idle, Held
          <5>3. QED
            BY <2>c, <2>l, <4>1, <5>1, <5>2, Forget
        <4>4. QED
          BY <4>2, <4>3
      <3>3. Held(k)' = requests'[k] /\ requests'[k] = end
        BY <2>3, <3>1 DEF Held
      <3>4. ASSUME NEW q \in Keys
            PROVE  /\ Ascending(accepted'[q], now') /\ Remains(accepted'[q], Held(q)', now')
                   /\ Spread(accepted'[q]) /\ Len(Held(q)') <= Limit
        <4>1. CASE q = k
          BY <2>3, <2>c, <3>3, <4>1
        <4>2. CASE q # k
          BY <2>3, <2>c, <3>2, <4>2 DEF WindowInv, Faithful
        <4>3. QED
          BY <4>1, <4>2
      <3>5. \A q \in DOMAIN requests' : requests'[q] # <<>>
        BY <2>3, <3>1 DEF WindowInv, Faithful
      <3>6. DOMAIN requests' \subseteq Keys
        BY <3>1 DEF WindowInv, Faithful
      <3>7. QED
        BY <2>3, <3>4, <3>5, <3>6 DEF Faithful, Ascending, Remains, Spread
    <2>6. Recent'
      <3>1. ASSUME NEW q \in DOMAIN requests' PROVE Latest(requests'[q]) > lastCleanup' - Span
        <4>1. CASE q = k
          BY <2>3, <2>c, <4>1, <1>s DEF Cleanup, CleanupDue, Latest
        <4>2. CASE q # k
          <5>1. q \in Kept /\ q \in DOMAIN requests /\ requests'[q] = requests[q]
            BY <2>3, <3>1, <4>2 DEF Kept
          <5>2. CASE CleanupDue
            <6>1. lastCleanup' = now
              BY <2>c, <5>2 DEF Cleanup
            <6>2. requests[q] # <<>> /\ ~(Latest(requests[q]) <= now - Span)
              BY <5>1, <5>2 DEF Kept, Idle
            <6>3. Latest(requests[q]) \in Nat
              BY <5>1, LatestIsTime
            <6>4. QED
              BY <2>c, <5>1, <6>1, <6>2, <6>3, <1>s
          <5>3. CASE ~CleanupDue
            BY <2>c, <5>1, <5>3 DEF Cleanup, WindowInv, Recent
          <5>4. QED
            BY <5>2, <5>3
        <4>3. QED
          BY <4>1, <4>2
      <3>2. lastCleanup' > outcome'.at - Span
        BY <2>3, <2>c, <1>s DEF Cleanup, CleanupDue
      <3>3. QED
        BY <3>1, <3>2 DEF Recent, Latest
    <2>7. QED
      BY <2>4, <2>5, <2>6 DEF WindowInv
  <1>3. CASE UNCHANGED vars
    <2>1. UNCHANGED <<now, requests, lastCleanup, accepted, outcome>>
      BY <1>3 DEF vars
    <2>2. QED
      BY <2>1, ZenonT(60) DEF WindowInv, Clocks, Faithful, Recent, Held, Ascending, Remains, Spread, Latest
  <1>4. QED
    BY <1>1, <1>2, <1>3 DEF Next

LEMMA AlwaysWindow == Spec => []WindowInv
  BY InitWindow, StepWindow, PTL DEF Spec

------------------------------------------------------------------------------
(* No window of any key ever holds more than Limit accepted requests.      *)
THEOREM LimiterRespectsWindows == Spec => []WindowsRespected
  <1>1. WindowInv => WindowsRespected
    BY DEF WindowInv, Faithful, Spread, WindowsRespected
  <1>2. QED
    BY <1>1, AlwaysWindow, PTL

(* What the limiter remembers is bounded by who used it in two windows.    *)
THEOREM LimiterForgetsKeys == Spec => []KeysForgotten
  <1>1. WindowInv => KeysForgotten
    <2> SUFFICES ASSUME WindowInv, NEW k \in DOMAIN requests
                 PROVE  Latest(requests[k]) > outcome.at - 2 * Span
      BY DEF KeysForgotten
    <2>1. /\ Latest(requests[k]) > lastCleanup - Span /\ lastCleanup > outcome.at - Span
          /\ lastCleanup \in Nat /\ outcome.at \in Nat
      BY DEF WindowInv, Recent, Clocks
    <2>2. Latest(requests[k]) \in Nat
      BY LatestIsTime
    <2>3. QED
      BY <2>1, <2>2, SpanPositive
  <1>2. QED
    BY <1>1, AlwaysWindow, PTL

(* What a refusal finds: a full deque, the last Limit accepted requests.   *)
LEMMA Refusal ==
  ASSUME WindowInv, NEW k \in Keys, Check(k), outcome'.wait > 0
  PROVE  /\ accepted[k] \in Seq(Nat) /\ Len(accepted[k]) >= Limit
         /\ accepted[k][Len(accepted[k]) - Limit + 1] \in Nat
         /\ accepted[k][Len(accepted[k]) - Limit + 1] > now - Span
         /\ accepted[k][Len(accepted[k]) - Limit + 1] <= now
         /\ outcome'.wait = RetryAfter(accepted[k][Len(accepted[k]) - Limit + 1])
         /\ UNCHANGED accepted
  <1>1. PICK n \in 0 .. Len(Times(k)) :
          LET live == SubSeq(Times(k), n + 1, Len(Times(k)))
          IN  /\ Expired(Times(k), n)
              /\ IF Len(live) >= Limit THEN Refuse(k, live) ELSE Accept(k, live)
    BY DEF Check
  <1> DEFINE live == SubSeq(Times(k), n + 1, Len(Times(k)))
  <1>2. /\ Remains(accepted[k], live, now) /\ \A i \in 1 .. Len(live) : live[i] > now - Span
        /\ Len(live) <= Limit
    BY <1>1, Found
  <1>3. Len(live) >= Limit /\ Refuse(k, live)
    BY <1>1 DEF Accept
  <1> HIDE DEF live
  <1>4. /\ live \in Seq(Nat) /\ Len(live) \in Nat /\ Limit \in Nat \ {0}
        /\ Ascending(accepted[k], now) /\ accepted[k] \in Seq(Nat)
        /\ Len(accepted[k]) \in Nat /\ Len(live) <= Len(accepted[k])
    BY <1>2, RateAssumption DEF Remains, WindowInv, Faithful, Ascending
  <1>5. Len(live) = Limit /\ 1 \in 1 .. Len(live)
    BY <1>2, <1>3, <1>4
  <1>6. live[1] = accepted[k][Len(accepted[k]) - Limit + 1]
    BY <1>2, <1>5 DEF Remains
  <1>7. Len(accepted[k]) - Limit + 1 \in 1 .. Len(accepted[k])
    BY <1>4, <1>5
  <1>8. QED
    BY <1>2, <1>3, <1>4, <1>5, <1>6, <1>7, SMTT(30) DEF Refuse, Ascending

(* Rounding up: the least number of seconds that covers x ticks.           *)
LEMMA Ceiling ==
  ASSUME NEW x \in Nat \ {0}
  PROVE  LET s == (x + Second - 1) \div Second
         IN  s \in Nat \ {0} /\ s * Second >= x /\ (s - 1) * Second < x
  <1> DEFINE s == (x + Second - 1) \div Second
  <1>1. x + Second - 1 \in Nat /\ Second \in Nat \ {0}
    BY RateAssumption
  <1>2. /\ s \in Nat /\ s * Second <= x + Second - 1
        /\ x + Second - 1 < s * Second + Second
    BY <1>1, SMT
  <1> HIDE DEF s
  <1>3. s # 0
    BY <1>1, <1>2
  <1>4. (s - 1) * Second = s * Second - Second
    BY <1>1, <1>2
  <1>5. QED
    BY <1>1, <1>2, <1>3, <1>4 DEF s

(* A refused caller is told the least number of seconds after which it is  *)
(* accepted.                                                               *)
THEOREM LimiterRetryAfterHonest == Spec => RetryAfterHonest
  <1>1. ASSUME WindowInv, NEW k \in Keys, Check(k), outcome'.wait > 0
        PROVE  /\ RoomAt(k, now + outcome'.wait * Second)
               /\ ~RoomAt(k, now + (outcome'.wait - 1) * Second)
    <2> DEFINE oldest == accepted[k][Len(accepted[k]) - Limit + 1]
               x == oldest + Span - now
               s == (x + Second - 1) \div Second
    <2>1. /\ oldest \in Nat /\ oldest > now - Span /\ oldest <= now
          /\ Len(accepted[k]) >= Limit /\ Len(accepted[k]) \in Nat
          /\ outcome'.wait = RetryAfter(oldest)
      BY <1>1, Refusal
    <2>2. now \in Nat /\ Span \in Nat /\ Second \in Nat \ {0} /\ Limit \in Nat
      BY <1>1, SpanPositive, RateAssumption DEF WindowInv, Clocks
    <2> HIDE DEF oldest
    <2>3. x \in Nat \ {0}
      BY <2>1, <2>2
    <2>4. s \in Nat \ {0} /\ s * Second >= x /\ (s - 1) * Second < x
      BY <2>3, Ceiling
    <2>5. outcome'.wait = s
      BY <2>1, <2>2, <2>4 DEF RetryAfter
    <2> HIDE DEF s
    <2>6. s * Second \in Int /\ (s - 1) * Second \in Int
      BY <2>2, <2>4
    <2>7. oldest <= now + s * Second - Span /\ ~(oldest <= now + (s - 1) * Second - Span)
      BY <2>1, <2>2, <2>4, <2>6
    <2>8. ~(Len(accepted[k]) < Limit) /\ UNCHANGED accepted
      BY <1>1, <2>1, <2>2, Refusal
    <2>9. \A t \in Int : RoomAt(k, t) <=> oldest <= t - Span
      BY <2>8 DEF RoomAt, oldest
    <2>10. /\ oldest <= now + outcome'.wait * Second - Span
           /\ ~(oldest <= now + (outcome'.wait - 1) * Second - Span)
      BY <2>5, <2>7, Zenon
    <2>11. QED
      <3>1. RoomAt(k, now + outcome'.wait * Second)
        BY <2>2, <2>5, <2>6, <2>9, <2>10
      <3>2. ~RoomAt(k, now + (outcome'.wait - 1) * Second)
        BY <2>2, <2>5, <2>6, <2>9, <2>10
      <3>3. QED
        BY <3>1, <3>2
  <1>2. WindowInv /\ [Next]_vars
          => [\A k \in Keys :
                Check(k) /\ outcome'.wait > 0
                  => /\ RoomAt(k, now + outcome'.wait * Second)
                     /\ ~RoomAt(k, now + (outcome'.wait - 1) * Second)]_vars
    BY <1>1
  <1>3. QED
    BY <1>2, AlwaysWindow, PTL DEF Spec, RetryAfterHonest

LEMMA StepTypes == TypeOK /\ WindowInv /\ [Next]_vars => TypeOK'
  <1> SUFFICES ASSUME TypeOK, WindowInv, [Next]_vars PROVE TypeOK'
    OBVIOUS
  <1>1. CASE Tick
    BY <1>1, RateAssumption DEF Tick, TypeOK, Ticks
  <1>2. ASSUME NEW k \in Keys, Check(k) PROVE TypeOK'
    <2>1. PICK n \in 0 .. Len(Times(k)) :
            LET live == SubSeq(Times(k), n + 1, Len(Times(k)))
            IN  /\ Expired(Times(k), n)
                /\ IF Len(live) >= Limit THEN Refuse(k, live) ELSE Accept(k, live)
      BY <1>2 DEF Check
    <2> DEFINE live == SubSeq(Times(k), n + 1, Len(Times(k)))
    <2>2. Times(k) \in Seq(Ticks) /\ live \in Seq(Ticks) /\ Len(live) \in Nat
      BY DEF TypeOK, Times, Kept
    <2>3. /\ now \in Ticks /\ now' = now /\ lastCleanup' \in Ticks
          /\ accepted \in [Keys -> Seq(Ticks)]
          /\ Kept \subseteq Keys /\ \A q \in Kept : requests[q] \in Seq(Ticks) \ {<<>>}
          /\ Window \in Nat \ {0} /\ Limit \in Nat \ {0}
      BY <1>2, RateAssumption DEF TypeOK, Check, Cleanup, Kept
    <2>4. CASE Len(live) >= Limit
      <3>1. Refuse(k, live)
        BY <2>1, <2>4
      <3>2. /\ Remains(accepted[k], live, now) /\ Ascending(accepted[k], now)
            /\ \A i \in 1 .. Len(live) : live[i] > now - Span
        BY <2>1, Found DEF WindowInv, Faithful
      <3> HIDE DEF live
      <3>3. 1 \in 1 .. Len(live) /\ live[1] \in Nat /\ live[1] > now - Span /\ live[1] <= now
        <4>1. 1 \in 1 .. Len(live) /\ live \in Seq(Nat)
          BY <2>2, <2>3, <2>4, <3>2 DEF Remains
        <4>2. /\ live[1] = accepted[k][Len(accepted[k]) - Len(live) + 1]
              /\ Len(accepted[k]) - Len(live) + 1 \in 1 .. Len(accepted[k])
          BY <2>2, <3>2, <4>1 DEF Remains, Ascending
        <4>3. QED
          BY <3>2, <4>1, <4>2, SMTT(30) DEF Ascending
      <3>4. RetryAfter(live[1]) \in 0 .. Window
        <4> DEFINE x == live[1] + Span - now
                   s == (x + Second - 1) \div Second
        <4>1. now \in Nat /\ Span \in Nat /\ Second \in Nat \ {0} /\ Span = Window * Second
          BY SpanPositive, RateAssumption DEF WindowInv, Clocks, Span
        <4>2. x \in Nat \ {0} /\ x <= Span
          BY <3>3, <4>1
        <4>3. s \in Nat \ {0} /\ (s - 1) * Second < x
          BY <4>2, Ceiling
        <4>4. RetryAfter(live[1]) = s
          BY <4>1, <4>3 DEF RetryAfter
        <4> HIDE DEF x, s
        <4>5. (s - 1) * Second < Window * Second
          BY <4>1, <4>2, <4>3
        <4>6. s - 1 < Window
          BY <2>3, <4>1, <4>3, <4>5
        <4>7. QED
          BY <2>3, <4>3, <4>4, <4>6
      <3>5. QED
        <4>1. live \in Seq(Ticks) \ {<<>>}
          BY <2>2, <3>3
        <4>2. /\ DOMAIN requests' \subseteq Keys
              /\ \A q \in DOMAIN requests' : requests'[q] \in Seq(Ticks) \ {<<>>}
          BY <2>3, <3>1, <4>1 DEF Refuse
        <4>3. QED
          BY <2>3, <3>1, <3>4, <4>2 DEF Refuse, TypeOK
    <2>5. CASE Len(live) < Limit
      <3>1. Accept(k, live)
        BY <2>1, <2>2, <2>3, <2>5
      <3> HIDE DEF live
      <3>2. /\ Append(live, now) \in Seq(Ticks) /\ Append(live, now) # <<>>
            /\ Append(accepted[k], now) \in Seq(Ticks)
        <4>1. live \in Seq(Ticks) /\ accepted[k] \in Seq(Ticks) /\ now \in Ticks
          BY <2>2, <2>3
        <4>2. QED
          BY <4>1, AppendProperties
      <3>3. QED
        BY <2>2, <2>3, <3>1, <3>2 DEF Accept, TypeOK
    <2>6. QED
      BY <2>2, <2>3, <2>4, <2>5
  <1>3. CASE UNCHANGED vars
    BY <1>3 DEF vars, TypeOK
  <1>4. QED
    BY <1>1, <1>2, <1>3 DEF Next

(* The types of the limiter's variables; Retry-After is at most Window.    *)
THEOREM LimiterTypes == Spec => []TypeOK
  <1>1. Init => TypeOK
    BY RateAssumption DEF Init, TypeOK, Ticks
  <1>2. QED
    BY <1>1, StepTypes, AlwaysWindow, PTL DEF Spec
------------------------------------------------------------------------------
(* The requests of TrafficMonitor are checks of the limiter, so all of the *)
(* above holds of them too.                                                *)
THEOREM MonitorLimits == MonitorSpec => Spec
  <1>1. MonitorInit => Init
    BY DEF MonitorInit
  <1>2. [MonitorNext]_<<vars, monitorVars>> => [Next]_vars
    BY DEF MonitorNext, Post, Next
  <1>3. QED
    BY <1>1, <1>2, PTL DEF MonitorSpec, Spec

\* The key set and the gauge in terms of who asked when.
MonitorInv ==
  /\ now \in Nat /\ visitorDay \in Nat /\ visitorDay <= Today
  /\ asked \in [Keys -> Int]
  /\ \A k \in Keys : asked[k] <= visitorDay
  /\ visitorKeys = {k \in Keys : asked[k] = visitorDay}
  /\ uniqueClients = Cardinality(visitorKeys)

(* Days are numbers and do not go back.                                    *)
LEMMA DaysGoOn ==
  ASSUME now \in Nat, now' \in Nat, now <= now'
  PROVE  Today \in Nat /\ Today' \in Nat /\ Today <= Today'
  <1> DEFINE past(t) == {m \in Midnights : 0 < m /\ m <= t}
  <1>1. past(now) \subseteq past(now') /\ past(now') \subseteq Midnights
    <2>1. ASSUME NEW m \in Midnights, m <= now PROVE m <= now'
      <3>1. m \in Nat
        BY MidnightAssumption
      <3>2. QED
        BY <2>1, <3>1
    <2>2. QED
      BY <2>1, Zenon
  <1>2. IsFiniteSet(past(now')) /\ IsFiniteSet(past(now))
    BY <1>1, MidnightAssumption, FS_Subset
  <1>3. /\ Cardinality(past(now)) \in Nat /\ Cardinality(past(now')) \in Nat
        /\ Cardinality(past(now)) <= Cardinality(past(now'))
    BY <1>1, <1>2, FS_Subset, FS_CardinalityType
  <1>4. Today = Cardinality(past(now)) /\ Today' = Cardinality(past(now'))
    BY DEF Today
  <1>5. QED
    BY <1>3, <1>4

LEMMA InitMonitor == MonitorInit => MonitorInv
  <1> SUFFICES ASSUME MonitorInit PROVE MonitorInv
    OBVIOUS
  <1>1. {m \in Midnights : 0 < m /\ m <= now} = {}
    <2>1. ASSUME NEW m \in Midnights PROVE ~(0 < m /\ m <= 0)
      <3>1. m \in Nat
        BY MidnightAssumption
      <3>2. QED
        BY <3>1
    <2>2. now = 0
      BY DEF MonitorInit, Init
    <2>3. QED
      BY <2>1, <2>2, Zenon
  <1>2. Today = 0 /\ Cardinality({}) = 0
    BY <1>1, FS_EmptySet DEF Today
  <1>3. QED
    BY <1>2 DEF MonitorInit, Init, MonitorInv, Never

LEMMA StepMonitor == MonitorInv /\ [MonitorNext]_<<vars, monitorVars>> => MonitorInv'
  <1> SUFFICES ASSUME MonitorInv, [MonitorNext]_<<vars, monitorVars>> PROVE MonitorInv'
    OBVIOUS
  <1>1. CASE Tick /\ UNCHANGED monitorVars
    <2>1. now' \in Nat /\ now <= now'
      BY <1>1 DEF Tick, MonitorInv
    <2>2. Today \in Nat /\ Today' \in Nat /\ Today <= Today'
      BY <2>1, DaysGoOn DEF MonitorInv
    <2>3. QED
      BY <1>1, <2>1, <2>2 DEF MonitorInv, monitorVars
  <1>2. ASSUME NEW k \in Keys, Post(k) PROVE MonitorInv'
    <2>1. now' = now /\ Today' = Today
      BY <1>2 DEF Post, Check, Today
    <2>2. Today \in Nat
      BY <2>1, DaysGoOn DEF MonitorInv
    <2>3. /\ visitorDay' = Today /\ visitorKeys' = Remembered \union {k}
          /\ uniqueClients' = Cardinality(visitorKeys')
          /\ asked' = [asked EXCEPT ![k] = Today]
      BY <1>2 DEF Post, ObserveChatClient
    <2>4. Remembered = {q \in Keys : asked[q] = Today}
      <3>1. CASE Today = visitorDay
        BY <3>1 DEF Remembered, MonitorInv
      <3>2. CASE Today # visitorDay
        <4>1. visitorDay < Today
          BY <2>2, <3>2 DEF MonitorInv
        <4>2. QED
          BY <2>2, <3>2, <4>1 DEF Remembered, MonitorInv
      <3>3. QED
        BY <3>1, <3>2
    <2>5. visitorKeys' = {q \in Keys : asked'[q] = visitorDay'}
      BY <2>3, <2>4 DEF MonitorInv
    <2>6. asked' \in [Keys -> Int] /\ \A q \in Keys : asked'[q] <= visitorDay'
      BY <2>2, <2>3 DEF MonitorInv
    <2>7. QED
      BY <2>1, <2>2, <2>3, <2>5, <2>6 DEF MonitorInv
  <1>3. CASE UNCHANGED <<vars, monitorVars>>
    BY <1>3 DEF vars, monitorVars, MonitorInv, Today
  <1>4. QED
    BY <1>1, <1>2, <1>3 DEF MonitorNext

(* The day's visitors are counted, each once, whatever the midnights       *)
(* (traffic.py:280-295).                                                   *)
THEOREM MonitorCountsVisitors == MonitorSpec => []VisitorsCounted
  <1>1. MonitorInv => VisitorsCounted
    BY DEF MonitorInv, VisitorsCounted
  <1>2. QED
    BY <1>1, InitMonitor, StepMonitor, PTL DEF MonitorSpec
==============================================================================
