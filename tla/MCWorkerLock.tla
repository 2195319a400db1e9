----------------------------- MODULE MCWorkerLock -----------------------------
(* Two instances; on the first, two timer firings of one worker and one of      *)
(* another; on the second, one of the first worker.                             *)
EXTENDS WorkerLock, TLC

CONSTANTS i1, i2, sms, ads, a1, a2, a3, b1, x1, x2, x3

TwoInstances == [t \in Ticks |-> IF t = b1 THEN i2 ELSE i1]
TwoWorkers == [t \in Ticks |-> IF t = a3 THEN ads ELSE sms]

\* Sessions are interchangeable, and so are two firings of one timer.  (Not used
\* where liveness is checked.)
Symmetry == Permutations({x1, x2, x3}) \cup Permutations({a1, a2})

===============================================================================
