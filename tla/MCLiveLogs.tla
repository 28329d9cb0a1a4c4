---------------------------- MODULE MCLiveLogs ----------------------------
(* Instances of LiveLogs for TLC: two viewers with different filters.      *)
EXTENDS LiveLogs, TLC
CONSTANTS v, w, p, q

MCFilter == (v :> {"a"}) @@ (w :> {})
=============================================================================
