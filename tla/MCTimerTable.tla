--------------------------- MODULE MCTimerTable ---------------------------
(* Instances of TimerTable for TLC.                                        *)
EXTENDS TimerTable, TLC

CONSTANTS t1, t2, k1, k2   \* two threads, two timers

\* t1 sets and takes back both timers.
OneSetter == (t1 :> {k1, k2}) @@ (t2 :> {})
\* t1 sets and takes back timer k1.
OneTimer  == (t1 :> {k1}) @@ (t2 :> {})
Nobody == (t1 :> {}) @@ (t2 :> {})

=============================================================================
