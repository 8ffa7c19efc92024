---------------------------- MODULE TrafficMonitor -----------------------------
(***************************************************************************)
(* The beginning of a chat request: chat in api.py notes the visitor with  *)
(* the TrafficMonitor, which counts the different visitors of a UTC day,   *)
(* and then asks the visitor's rate limiter.  Neither suspends, so both    *)
(* are one step, but the monitor's clock is the calendar.                  *)
(***************************************************************************)
EXTENDS RateLimiter, FiniteSets

CONSTANT
  Midnights   \* the ticks at which a new day begins

ASSUME MidnightAssumption == IsFiniteSet(Midnights) /\ Midnights \subseteq Nat

VARIABLES
  visitorDay,      \* _visitor_day
  visitorKeys,     \* _visitor_keys
  uniqueClients,   \* the gauge maas_unique_chat_clients_today
  asked            \* observer: the last day on which the visitor asked, if any

monitorVars == <<visitorDay, visitorKeys, uniqueClients, asked>>

\* The UTC date, counted from the start of the process; never before it.
Today == Cardinality({m \in Midnights : 0 < m /\ m <= now})
Never == -1

MonitorInit ==
  /\ Init
  /\ visitorDay = 0
  /\ visitorKeys = {}
  /\ uniqueClients = 0
  /\ asked = [k \in Keys |-> Never]

\* Fault: yesterday's visitors are kept.
Remembered_All == visitorKeys

(* The set belongs to one day and is cleared on the next.                  *)
Remembered == IF Today # visitorDay THEN {} ELSE visitorKeys

(* observe_chat_client(k).                                                 *)
ObserveChatClient(k) ==
  /\ visitorDay' = Today
  /\ visitorKeys' = Remembered \union {k}
  /\ uniqueClients' = Cardinality(visitorKeys')
  /\ asked' = [asked EXCEPT ![k] = Today]

(* A visitor posts a message: it counts, also if the limiter refuses it.   *)
Post(k) == ObserveChatClient(k) /\ Check(k)

MonitorNext == (Tick /\ UNCHANGED monitorVars) \/ \E k \in Keys : Post(k)

MonitorSpec == MonitorInit /\ [][MonitorNext]_<<vars, monitorVars>>

------------------------------------------------------------------------------
(***************************************************************************)
(* The gauge is the number of different visitors of the latest day on      *)
(* which anybody asked, also of those who were refused: nobody counts      *)
(* twice, nobody of the day before counts, and nobody is forgotten.        *)
(***************************************************************************)
VisitorsCounted ==
  /\ uniqueClients = Cardinality({k \in Keys : asked[k] = visitorDay})
  /\ \A k \in Keys : asked[k] <= visitorDay
  /\ visitorDay <= Today
==============================================================================
