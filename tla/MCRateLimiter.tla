---------------------------- MODULE MCRateLimiter ----------------------------
(* Model values of the rate limiter's runs.                                *)
EXTENDS TrafficMonitor, TLC

Symmetry == Permutations(Keys)
==============================================================================
