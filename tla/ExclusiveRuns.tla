---------------------------- MODULE ExclusiveRuns ----------------------------
(***************************************************************************)
(* What workers/claim.ts promises its callers: of the ticks of one worker, *)
(* on however many server instances, at most one runs under the worker's   *)
(* lock.  A run can lose its lock; it may then overlap another, but it     *)
(* never gets the lock back.                                               *)
(***************************************************************************)
CONSTANTS
  Ticks,    \* timer firings that may be in flight at once
  Worker    \* the name of the worker each of them runs

VARIABLES
  running,  \* ticks whose fn() runs, or is about to
  guarded   \* those among them that hold the lock

vars == <<running, guarded>>

Init == running = {} /\ guarded = {}

Begin(t) ==
  /\ t \notin running
  /\ \A u \in guarded : Worker[u] # Worker[t]
  /\ running' = running \cup {t}
  /\ guarded' = guarded \cup {t}

\* Some runs end, some lose their lock.
EndOrLose ==
  /\ running' \subseteq running
  /\ guarded' \subseteq guarded \cap running'

Next == (\E t \in Ticks : Begin(t)) \/ EndOrLose

Spec == Init /\ [][Next]_vars

\* At most one run of a worker is under its lock.
OneGuarded ==
  /\ guarded \subseteq running
  /\ \A t, u \in guarded : Worker[t] = Worker[u] => t = u

=============================================================================
