------------------------------ MODULE Admission ------------------------------
(***************************************************************************)
(* What admission control promises, free of how it is implemented: at most *)
(* MaxActive requests hold a slot, at most MaxQueued wait for one, nobody  *)
(* has to queue while a slot is free, and a request that waits is either   *)
(* granted a slot or turned away.                                          *)
(*                                                                         *)
(* ConcurrencyGate (the asyncio condition variable of operations/traffic)  *)
(* and ChatService (the lease life cycle of the request handlers in api.py)*)
(* are both shown to implement this specification.                         *)
(***************************************************************************)
EXTENDS Naturals, FiniteSets

CONSTANTS
  Requests,     \* concurrent chat requests
  MaxActive,    \* MAAS_MAX_CONCURRENT_TURNS
  MaxQueued     \* MAAS_MAX_QUEUED_TURNS

VARIABLE stage  \* stage[r]: where request r stands with admission control

Stages == {"idle", "queued", "active"}

Queued == {r \in Requests : stage[r] = "queued"}
Active == {r \in Requests : stage[r] = "active"}

SlotFree  == Cardinality(Active) < MaxActive
QueueRoom == Cardinality(Queued) < MaxQueued

Move(r, from, to) ==
  /\ stage[r] = from
  /\ stage' = [stage EXCEPT ![r] = to]

Init == stage = [r \in Requests |-> "idle"]

\* A free slot goes to whoever asks first, waiting or newly arrived.
Admit(r)   == SlotFree /\ Move(r, "idle", "active")
Enqueue(r) == ~SlotFree /\ QueueRoom /\ Move(r, "idle", "queued")
Grant(r)   == SlotFree /\ Move(r, "queued", "active")
TurnAway(r) == Move(r, "queued", "idle")
Finish(r)  == Move(r, "active", "idle")

\* The process dies: every slot and every place in the queue is given up.
Abandon == stage' = [r \in Requests |-> "idle"]

Next ==
  \/ \E r \in Requests : Admit(r) \/ Enqueue(r) \/ Grant(r) \/ TurnAway(r) \/ Finish(r)
  \/ Abandon

Spec == Init /\ [][Next]_stage
==============================================================================
