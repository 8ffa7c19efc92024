----------------------------- MODULE RateLimiter -----------------------------
(***************************************************************************)
(* SlidingWindowRateLimiter of operations/traffic.py: at most Limit        *)
(* requests of a key in any Window seconds.  The API holds two of them,    *)
(* one keyed by visitor and one by conversation.                           *)
(*                                                                         *)
(* The limiter keeps the times of the accepted requests in a deque for     *)
(* each key, drops from its front what has left the window, and about once *)
(* a window throws away the keys nobody used.  check has no suspension and *)
(* runs under a lock, so a call is one step.  The clock is monotonic() in  *)
(* ticks, Second of them to the second, as Retry-After is in seconds.      *)
(***************************************************************************)
EXTENDS Integers, Sequences

CONSTANTS
  Keys,      \* digests of visitors, or of conversations
  Limit,     \* requests allowed in one window
  Window,    \* its length in seconds
  Second,    \* clock ticks in a second
  LastTick   \* bound on the clock

ASSUME RateAssumption ==
  /\ Limit \in Nat \ {0}
  /\ Window \in Nat \ {0}
  /\ Second \in Nat \ {0}
  /\ LastTick \in Nat

VARIABLES
  now,          \* the clock
  requests,     \* _requests: a deque of times for each key it holds
  lastCleanup,  \* _last_cleanup
  accepted,     \* observer: every accepted request of the key, ever
  outcome       \* what the last check told its caller; wait 0 for accepted

vars == <<now, requests, lastCleanup, accepted, outcome>>

Span  == Window * Second
Ticks == 0 .. LastTick

\* The time of a key's latest request.
Latest(times) == times[Len(times)]

Init ==
  /\ now = 0
  /\ requests = [k \in {} |-> <<>>]
  /\ lastCleanup = 0
  /\ accepted = [k \in Keys |-> <<>>]
  /\ outcome = [at |-> 0, wait |-> 0]

------------------------------------------------------------------------------
CleanupDue == now - lastCleanup >= Span

\* Fault: a key is idle when its oldest request has left the window.
Idle_ByOldest(times) == times = <<>> \/ times[1] <= now - Span

Idle(times) == times = <<>> \/ Latest(times) <= now - Span

Kept == {k \in DOMAIN requests : CleanupDue => ~Idle(requests[k])}

Times(k) == IF k \in Kept THEN requests[k] ELSE <<>>

(* The popleft loop ends with the first n times removed.                   *)
Expired(times, n) ==
  /\ \A i \in 1 .. n : times[i] <= now - Span
  /\ n < Len(times) => times[n + 1] > now - Span

\* Fault: the seconds are rounded down.
RetryAfter_Floor(oldest) ==
  LET seconds == (oldest + Span - now) \div Second
  IN  IF seconds > 1 THEN seconds ELSE 1

(* max(1, ceil(...)): the seconds until the oldest request has left.       *)
RetryAfter(oldest) ==
  LET seconds == (oldest + Span - now + Second - 1) \div Second
  IN  IF seconds > 1 THEN seconds ELSE 1

\* Fault: _last_cleanup moves at every check.
Cleanup_Always == lastCleanup' = now

Cleanup == lastCleanup' = IF CleanupDue THEN now ELSE lastCleanup

\* What check does to the key once live is left of its deque.
Refuse(k, live) ==
  /\ requests' = [q \in Kept \union {k} |-> IF q = k THEN live ELSE requests[q]]
  /\ outcome' = [at |-> now, wait |-> RetryAfter(live[1])]
  /\ UNCHANGED accepted

Accept(k, live) ==
  /\ requests' = [q \in Kept \union {k} |->
                    IF q = k THEN Append(live, now) ELSE requests[q]]
  /\ outcome' = [at |-> now, wait |-> 0]
  /\ accepted' = [accepted EXCEPT ![k] = Append(@, now)]

(* check(key).                                                             *)
Check(k) ==
  /\ Cleanup
  /\ \E n \in 0 .. Len(Times(k)) :
       LET live == SubSeq(Times(k), n + 1, Len(Times(k)))
       IN  /\ Expired(Times(k), n)
           /\ IF Len(live) >= Limit THEN Refuse(k, live) ELSE Accept(k, live)
  /\ UNCHANGED now

Tick ==
  /\ now < LastTick
  /\ now' = now + 1
  /\ UNCHANGED <<requests, lastCleanup, accepted, outcome>>

Next == Tick \/ \E k \in Keys : Check(k)

Spec == Init /\ [][Next]_vars

------------------------------------------------------------------------------
(* Types of the variables.                                                 *)
TypeOK ==
  /\ now \in Ticks
  /\ lastCleanup \in Ticks
  /\ DOMAIN requests \subseteq Keys
  /\ \A k \in DOMAIN requests : requests[k] \in Seq(Ticks) \ {<<>>}
  /\ accepted \in [Keys -> Seq(Ticks)]
  /\ outcome \in [at : Ticks, wait : 0 .. Window]

(***************************************************************************)
(* However the requests fall, a key's accepted requests are so far apart   *)
(* that no Limit + 1 of them lie in one window, also across the clean-ups  *)
(* that forget the key in between.                                         *)
(***************************************************************************)
WindowsRespected ==
  \A k \in Keys : \A i \in 1 .. Len(accepted[k]) - Limit :
    accepted[k][i + Limit] >= accepted[k][i] + Span

(***************************************************************************)
(* Retry-After is honest: a refused caller that waits so many seconds, and *)
(* is alone with its key, is accepted, and one second less would not do.   *)
(* For a wait of one second the latter says that nobody is refused while   *)
(* the window has room.                                                    *)
(***************************************************************************)
RoomAt(k, t) ==
  \/ Len(accepted[k]) < Limit
  \/ accepted[k][Len(accepted[k]) - Limit + 1] <= t - Span

RetryAfterHonest ==
  [][\A k \in Keys :
       Check(k) /\ outcome'.wait > 0
         => /\ RoomAt(k, now + outcome'.wait * Second)
            /\ ~RoomAt(k, now + (outcome'.wait - 1) * Second)]_vars

(***************************************************************************)
(* Keys are forgotten: after any check, of whichever key, the limiter only *)
(* remembers keys that were accepted in the last two windows.              *)
(***************************************************************************)
KeysForgotten ==
  \A k \in DOMAIN requests : Latest(requests[k]) > outcome.at - 2 * Span
==============================================================================
