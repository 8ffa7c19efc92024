--------------------------- MODULE MCConcurrencyGate ---------------------------
(* ConcurrencyGate on a handful of callers; the configurations give the    *)
(* constants their values.  One caller more than the gate and its queue    *)
(* hold is enough to reach every branch of acquire.                        *)
EXTENDS ConcurrencyGate
==============================================================================
