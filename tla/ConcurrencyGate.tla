--------------------------- MODULE ConcurrencyGate ---------------------------
(***************************************************************************)
(* ConcurrencyGate and _ConcurrencyLease of operations/traffic.py: an      *)
(* asyncio.Condition guards two counters, a full gate parks a caller on    *)
(* the condition under asyncio.wait_for, and every release notifies one    *)
(* waiter.                                                                 *)
(*                                                                         *)
(* Granularity.  No critical section of the class suspends while it holds  *)
(* the condition's lock, and all callers share one event loop, so each     *)
(* stretch of code between two suspensions is one action:                  *)
(*   Acquire  the call up to its return, its rejection or its first wait   *)
(*   Wake     the step of a waiter whose future was set by a notification  *)
(*   Expire   the wait_for timer cancels the waiting task                  *)
(*   Reject   that task's next step, in which the cancellation is raised   *)
(*   Release  the lease's release, which wakes the first pending waiter    *)
(* A notified task has not run yet, so a timer that is due in the same     *)
(* turn of the loop still cancels it: Expire may follow a notification.    *)
(*                                                                         *)
(* asyncio.Condition.wait up to CPython 3.12 (the deployed image) drops    *)
(* the notification of a waiter that is cancelled after it was notified;   *)
(* from 3.13 on an exception inside wait passes it on with _notify(1).     *)
(* The constant NotifyPassedOn selects the version.                        *)
(***************************************************************************)
EXTENDS Naturals, Sequences, FiniteSets

CONSTANTS
  Requests,        \* callers of acquire
  MaxActive,       \* max_active
  MaxQueued,       \* max_queued
  NotifyPassedOn   \* does a cancelled waiter hand its notification on?

ASSUME GateAssumption ==
  /\ IsFiniteSet(Requests)
  /\ MaxActive \in Nat \ {0}
  /\ MaxQueued \in Nat
  /\ NotifyPassedOn \in BOOLEAN

VARIABLES
  active,    \* _active
  queued,    \* _queued
  waiters,   \* the condition's futures that are not done, oldest first
  pc         \* pc[r]: where caller r is

vars == <<active, queued, waiters, pc>>

(***************************************************************************)
(*   idle      has neither a lease nor a place in the queue                *)
(*   pending   waits, its future is in waiters                             *)
(*   notified  its future is set, its task will run soon                   *)
(*   expired   its task was cancelled by the timer, and will run soon      *)
(*   holding   has an unreleased lease                                     *)
(***************************************************************************)
Positions == {"idle", "pending", "notified", "expired", "holding"}

At(p)   == {r \in Requests : pc[r] = p}
Parked  == At("pending") \union At("notified") \union At("expired")
Woken   == At("notified") \union At("expired")
Holding == At("holding")

SlotFree  == active < MaxActive
QueueRoom == queued < MaxQueued

Init ==
  /\ active = 0
  /\ queued = 0
  /\ waiters = <<>>
  /\ pc = [r \in Requests |-> "idle"]

------------------------------------------------------------------------------
(* The sequence s without its i-th element.                                *)
DropAt(s, i) == [j \in 1 .. Len(s) - 1 |-> IF j < i THEN s[j] ELSE s[j + 1]]

(***************************************************************************)
(* notify(1) in a state whose program counters are already those of next:  *)
(* the oldest future that is not done is set; without one, nothing happens *)
(* and nothing is remembered.                                              *)
(***************************************************************************)
Notify(next) ==
  IF waiters = <<>>
    THEN /\ pc' = next
         /\ UNCHANGED waiters
    ELSE /\ pc' = [next EXCEPT ![Head(waiters)] = "notified"]
         /\ waiters' = Tail(waiters)

------------------------------------------------------------------------------
(* acquire finds a free slot; it does not look at who is waiting.          *)
AcquireFree(r) ==
  /\ pc[r] = "idle"
  /\ SlotFree
  /\ active' = active + 1
  /\ pc' = [pc EXCEPT ![r] = "holding"]
  /\ UNCHANGED <<queued, waiters>>

\* Fault: the queue limit is off by one.
AcquireQueued_OneMore(r) ==
  /\ pc[r] = "idle"
  /\ ~SlotFree
  /\ queued <= MaxQueued
  /\ queued' = queued + 1
  /\ waiters' = Append(waiters, r)
  /\ pc' = [pc EXCEPT ![r] = "pending"]
  /\ UNCHANGED active

(* acquire finds every slot taken, and room in the queue.                  *)
AcquireQueued(r) ==
  /\ pc[r] = "idle"
  /\ ~SlotFree
  /\ QueueRoom
  /\ queued' = queued + 1
  /\ waiters' = Append(waiters, r)
  /\ pc' = [pc EXCEPT ![r] = "pending"]
  /\ UNCHANGED active

\* Fault: wait() instead of wait_for(predicate), the slot is not looked at again.
WakeGranted_Unchecked(r) ==
  /\ pc[r] = "notified"
  /\ queued' = queued - 1
  /\ active' = active + 1
  /\ pc' = [pc EXCEPT ![r] = "holding"]
  /\ UNCHANGED waiters

(* A notified task runs and its predicate holds: it takes the slot.        *)
WakeGranted(r) ==
  /\ pc[r] = "notified"
  /\ SlotFree
  /\ queued' = queued - 1
  /\ active' = active + 1
  /\ pc' = [pc EXCEPT ![r] = "holding"]
  /\ UNCHANGED waiters

(* A notified task runs and a newcomer has taken the slot meanwhile: the   *)
(* predicate is false and it waits again, behind everybody, on its old     *)
(* timer.                                                                  *)
WakeBeaten(r) ==
  /\ pc[r] = "notified"
  /\ ~SlotFree
  /\ waiters' = Append(waiters, r)
  /\ pc' = [pc EXCEPT ![r] = "pending"]
  /\ UNCHANGED <<active, queued>>

(* The timer of wait_for cancels the task; a future that is not done yet   *)
(* becomes done and no notification will find it.                          *)
ExpirePending(r) ==
  /\ pc[r] = "pending"
  /\ \E i \in 1 .. Len(waiters) :
       /\ waiters[i] = r
       /\ waiters' = DropAt(waiters, i)
  /\ pc' = [pc EXCEPT ![r] = "expired"]
  /\ UNCHANGED <<active, queued>>

ExpireNotified(r) ==
  /\ pc[r] = "notified"
  /\ pc' = [pc EXCEPT ![r] = "expired"]
  /\ UNCHANGED <<active, queued, waiters>>

(* The cancelled task runs: the wait raises, the queue counter goes down   *)
(* and the caller gets QueueSaturated.                                     *)
Reject(r) ==
  /\ pc[r] = "expired"
  /\ queued' = queued - 1
  /\ LET answered == [pc EXCEPT ![r] = "idle"]
     IN  IF NotifyPassedOn
           THEN Notify(answered)
           ELSE pc' = answered /\ UNCHANGED waiters
  /\ UNCHANGED active

\* Fault: release forgets to notify.
Release_Silent(r) ==
  /\ pc[r] = "holding"
  /\ active >= 1
  /\ active' = active - 1
  /\ pc' = [pc EXCEPT ![r] = "idle"]
  /\ UNCHANGED <<queued, waiters>>

(* The lease is released; a second release of a lease does nothing, which  *)
(* is why it is the holder that releases, and once.                        *)
Release(r) ==
  /\ pc[r] = "holding"
  /\ active >= 1
  /\ active' = active - 1
  /\ Notify([pc EXCEPT ![r] = "idle"])
  /\ UNCHANGED queued

Acquire(r) == AcquireFree(r) \/ AcquireQueued(r)
Wake(r)    == WakeGranted(r) \/ WakeBeaten(r)

\* Fault: the timer does not reach a caller whose future is pending.
Expire_OnlyNotified(r) == ExpireNotified(r)

Expire(r)  == ExpirePending(r) \/ ExpireNotified(r)

Next ==
  \E r \in Requests :
    \/ Acquire(r)
    \/ Wake(r)
    \/ Expire(r)
    \/ Reject(r)
    \/ Release(r)

(***************************************************************************)
(* The event loop runs every task that is ready and every timer that is    *)
(* due.  Nothing makes a caller arrive or a holder finish.                 *)
(***************************************************************************)
Fairness ==
  \A r \in Requests :
    /\ WF_vars(Wake(r))
    /\ WF_vars(Expire(r))
    /\ WF_vars(Reject(r))

Spec     == Init /\ [][Next]_vars
FairSpec == Spec /\ Fairness

------------------------------------------------------------------------------
(* Types of the variables.                                                 *)
TypeOK ==
  /\ active \in Nat
  /\ queued \in Nat
  /\ waiters \in Seq(Requests)
  /\ pc \in [Requests -> Positions]

(***************************************************************************)
(* The gate's books agree with who holds and who waits, whatever mix of    *)
(* grants, time-outs and cancellations led here: the condition holds the   *)
(* futures of exactly the pending callers, each once, so that release does *)
(* not notify somebody who is gone; _active counts the leases that are out *)
(* and _queued the callers inside the queue; and both stay within their    *)
(* limit although waiters and newcomers race for the slot.                 *)
(***************************************************************************)
WaitersArePending ==
  /\ \A i, j \in 1 .. Len(waiters) : waiters[i] = waiters[j] => i = j
  /\ \A r \in Requests : pc[r] = "pending" <=> \E i \in 1 .. Len(waiters) : waiters[i] = r

CountersExact ==
  /\ active = Cardinality(Holding)
  /\ queued = Cardinality(Parked)

WithinLimits ==
  /\ active <= MaxActive
  /\ queued <= MaxQueued

Bookkeeping == WaitersArePending /\ CountersExact /\ WithinLimits

(***************************************************************************)
(* No slot is forgotten: while a caller waits unnotified, there is, for    *)
(* every free slot, a caller already woken, who will take it, or who was   *)
(* cancelled by its timer and is about to hand the notification on.        *)
(* Otherwise callers would sit out their time beside a free slot and be    *)
(* rejected, where the class promises to reject excess work only.          *)
(***************************************************************************)
NoForgottenSlot ==
  waiters # <<>> => active + Cardinality(Woken) >= MaxActive

(***************************************************************************)
(* Whoever queues is eventually granted a slot or turned away, even if no  *)
(* holder ever releases.                                                   *)
(***************************************************************************)
QueuedIsAnswered ==
  \A r \in Requests : r \in Parked ~> r \notin Parked

(***************************************************************************)
(* Refinement: the gate implements Admission.                              *)
(***************************************************************************)
StageOf(r) ==
  CASE pc[r] = "idle"    -> "idle"
    [] pc[r] = "holding" -> "active"
    [] OTHER             -> "queued"

Promise == INSTANCE Admission WITH stage <- [r \in Requests |-> StageOf(r)]

PromiseKept == Promise!Spec

==============================================================================
