------------------------------ MODULE WorkerLock ------------------------------
(***************************************************************************)
(* workers/claim.ts: withWorkerLock() runs a worker's tick under a         *)
(* PostgreSQL session advisory lock, so that of the server instances that  *)
(* start the same setInterval workers only one runs a given tick.          *)
(*                                                                         *)
(* All the locks of one process live on one dedicated session.  The server *)
(* side of a session and what the process believes of it are separate      *)
(* here: a session may be gone at the server while ticks still run under   *)
(* it, and be there for a while after the process has thrown it away.      *)
(***************************************************************************)
EXTENDS Naturals

CONSTANTS
  Instances,  \* server processes
  Names,      \* workers
  Ticks,      \* timer firings that may be in flight at once
  Host,       \* the instance each of them fires on
  Worker,     \* and the worker it runs
  Sessions,   \* database sessions; one that is gone may be numbered anew
  None,       \* no session
  MaxDepth,   \* bound: how often one session may hold one lock
  Faults      \* what may go wrong here, see FaultKinds

FaultKinds == {"crash", "session", "query"}

ASSUME TicksAssumption ==
  Host \in [Ticks -> Instances] /\ Worker \in [Ticks -> Names]
ASSUME NoneAssumption == None \notin Sessions
ASSUME DepthAssumption == MaxDepth \in Nat \ {0}
ASSUME FaultsAssumption == Faults \subseteq FaultKinds

VARIABLES
  \* --- at the database server ---
  open,      \* sessions it has
  owner,     \* for each worker's lock, the session that holds it
  depth,     \* and how many times (session locks are re-entrant)
  \* --- in each process ---
  session,   \* createWorkerLock's session
  heldHere,  \* its heldHere set
  given,     \* sessions destroyed by it, or given back to the pool to be ended
  closed,    \* close() has run: the process is shutting down
  \* --- in each call of withWorkerLock ---
  pc, c

server  == <<open, owner, depth>>
process == <<session, heldHere, given, closed>>
vars    == <<open, owner, depth, session, heldHere, given, closed, pc, c>>

\* "granted": the server took the lock, its answer is on the way.
Points == {"idle", "connect", "claim", "granted", "run", "unlock"}

\* Every variable keeps its type; a lock nobody holds has depth 0.
TypeOK ==
  /\ open \subseteq Sessions
  /\ owner \in [Names -> open \cup {None}]
  /\ depth \in [Names -> 0..MaxDepth]
  /\ \A n \in Names : owner[n] = None <=> depth[n] = 0
  /\ session \in [Instances -> Sessions \cup {None}]
  /\ heldHere \in [Instances -> SUBSET Names]
  /\ given \subseteq Sessions
  /\ closed \in [Instances -> BOOLEAN]
  /\ pc \in [Ticks -> Points]
  /\ c \in [Ticks -> Sessions \cup {None}]

Init ==
  /\ open = {}
  /\ owner = [n \in Names |-> None]
  /\ depth = [n \in Names |-> 0]
  /\ session = [i \in Instances |-> None]
  /\ heldHere = [i \in Instances |-> {}]
  /\ given = {}
  /\ closed = [i \in Instances |-> FALSE]
  /\ pc = [t \in Ticks |-> "idle"]
  /\ c = [t \in Ticks |-> None]

-------------------------------------------------------------------------------
(* Helpers *)

GoTo(t, point) == pc' = [pc EXCEPT ![t] = point]

\* heldHere.delete(name), and the call returns.
KeepHeld(t) == heldHere
FreeHeld(t) == [heldHere EXCEPT ![Host[t]] = @ \ {Worker[t]}]

Return(t) ==
  /\ GoTo(t, "idle")
  /\ c' = [c EXCEPT ![t] = None]
  /\ heldHere' = FreeHeld(t)

Waiting(i) == {t \in Ticks : Host[t] = i /\ pc[t] = "connect"}

\* The server has no such session and no process remembers it.
Fresh(s) ==
  /\ s \notin open
  /\ \A i \in Instances : session[i] # s
  /\ \A t \in Ticks : c[t] # s

\* The server frees the locks of these sessions.
FreeLocks(gone) ==
  /\ owner' = [n \in Names |-> IF owner[n] \in gone THEN None ELSE owner[n]]
  /\ depth' = [n \in Names |-> IF owner[n] \in gone THEN 0 ELSE depth[n]]

\* discard(): the session is destroyed; it is forgotten only if it is still the
\* one in use.
DropAny(i, s) == None
DropCurrent(i, s) == IF session[i] = s THEN None ELSE session[i]

Discard(i, s) ==
  /\ session' = [session EXCEPT ![i] = DropCurrent(i, s)]
  /\ given' = given \cup {s}

-------------------------------------------------------------------------------
(* withWorkerLock *)

NotChecked(t) == TRUE
NotHeldHere(t) == Worker[t] \notin heldHere[Host[t]]

\* A timer fires: the in-process guard, then the session, if there is one.
Fire(t) ==
  LET i == Host[t] IN
  /\ pc[t] = "idle"
  /\ ~closed[i]
  /\ NotHeldHere(t)
  /\ heldHere' = [heldHere EXCEPT ![i] = @ \cup {Worker[t]}]
  /\ c' = [c EXCEPT ![t] = session[i]]
  /\ GoTo(t, IF session[i] = None THEN "connect" ELSE "claim")
  /\ UNCHANGED <<server, session, given, closed>>

\* pool.connect() resolves: every call that waits for it gets this session.
Connect(i, s) ==
  /\ Waiting(i) # {}
  /\ Fresh(s)
  /\ open' = open \cup {s}
  /\ session' = [session EXCEPT ![i] = s]
  /\ given' = given \ {s}
  /\ c' = [t \in Ticks |-> IF t \in Waiting(i) THEN s ELSE c[t]]
  /\ pc' = [t \in Ticks |-> IF t \in Waiting(i) THEN "claim" ELSE pc[t]]
  /\ UNCHANGED <<owner, depth, heldHere, closed>>

\* ... or rejects: "lock_unavailable" to all of them.
ConnectFails(i) ==
  /\ "query" \in Faults
  /\ Waiting(i) # {}
  /\ pc' = [t \in Ticks |-> IF t \in Waiting(i) THEN "idle" ELSE pc[t]]
  /\ heldHere' = [heldHere EXCEPT ![i] = @ \ {Worker[t] : t \in Waiting(i)}]
  /\ UNCHANGED <<server, session, given, closed, c>>

\* pg_try_advisory_lock: true for a lock that is free or the session's own.
Grant(t) ==
  LET n == Worker[t] IN
  /\ pc[t] = "claim"
  /\ c[t] \in open
  /\ owner[n] \in {None, c[t]}
  /\ depth[n] < MaxDepth
  /\ owner' = [owner EXCEPT ![n] = c[t]]
  /\ depth' = [depth EXCEPT ![n] = @ + 1]
  /\ GoTo(t, "granted")
  /\ UNCHANGED <<open, process, c>>

\* "held_elsewhere"
Refuse(t) ==
  /\ pc[t] = "claim"
  /\ c[t] \in open
  /\ owner[Worker[t]] \notin {None, c[t]}
  /\ Return(t)
  /\ UNCHANGED <<server, session, given, closed>>

Answer(t) ==
  /\ pc[t] = "granted"
  /\ GoTo(t, "run")
  /\ UNCHANGED <<server, process, c>>

\* The query rejects, the lock taken or not: "lock_unavailable", and the session
\* is kept.  (The session holds one lock at most MaxDepth times.)
ClaimFails(t) ==
  /\ \/ pc[t] = "claim" /\ ("query" \in Faults \/ c[t] \notin open)
     \/ pc[t] = "granted" /\ "query" \in Faults /\ depth[Worker[t]] < MaxDepth
  /\ Return(t)
  /\ UNCHANGED <<server, session, given, closed>>

FnEnds(t) ==
  /\ pc[t] = "run"
  /\ GoTo(t, "unlock")
  /\ UNCHANGED <<server, process, c>>

\* pg_advisory_unlock(name) on the call's own session: false, not an error, when
\* that session does not hold the lock.
UnlocksAll(t) == {n \in Names : owner[n] = c[t]}
UnlocksAnyones(t) == {Worker[t]}
Unlocks(t) == {n \in {Worker[t]} : owner[n] = c[t]}

Unlock(t) ==
  /\ pc[t] = "unlock"
  /\ c[t] \in open
  /\ depth' = [n \in Names |-> IF n \in Unlocks(t) THEN depth[n] - 1 ELSE depth[n]]
  /\ owner' = [n \in Names |->
                 IF n \in Unlocks(t) /\ depth[n] = 1 THEN None ELSE owner[n]]
  /\ Return(t)
  /\ UNCHANGED <<open, session, given, closed>>

\* The session is destroyed, and with it the locks of every other tick on it.
UnlockFails(t) ==
  /\ pc[t] = "unlock"
  /\ "query" \in Faults \/ c[t] \notin open
  /\ Discard(Host[t], c[t])
  /\ Return(t)
  /\ UNCHANGED <<server, closed>>

-------------------------------------------------------------------------------
(* The session's end, and the process's *)

\* The session's "error" event.
SessionError(i) ==
  /\ session[i] # None
  /\ "session" \in Faults \/ session[i] \notin open
  /\ Discard(i, session[i])
  /\ UNCHANGED <<server, heldHere, closed, pc, c>>

\* The server ends a session and frees its locks: one the process gave up, or
\* any (failover, restart, a broken connection).
ServerDrops(s) ==
  /\ s \in open
  /\ s \in given \/ "session" \in Faults
  /\ open' = open \ {s}
  /\ FreeLocks({s})
  /\ UNCHANGED <<process, pc, c>>

\* gracefulShutdown: the timers are stopped, then close() unlocks everything,
\* whatever still runs (an error is swallowed), and pool.end() ends the session.
\* close() waits for a session that is being connected.
Close(i) ==
  /\ ~closed[i]
  /\ Waiting(i) = {}
  /\ closed' = [closed EXCEPT ![i] = TRUE]
  /\ session' = [session EXCEPT ![i] = None]
  /\ given' = given \cup ({session[i]} \ {None})
  /\ \/ FreeLocks({session[i]} \ {None})
     \/ "query" \in Faults /\ UNCHANGED <<owner, depth>>
  /\ UNCHANGED <<open, heldHere, pc, c>>

\* The process exits, or is killed, and another one is started in its place.
Exit(i) ==
  /\ closed[i] \/ "crash" \in Faults
  /\ pc' = [t \in Ticks |-> IF Host[t] = i THEN "idle" ELSE pc[t]]
  /\ c' = [t \in Ticks |-> IF Host[t] = i THEN None ELSE c[t]]
  /\ session' = [session EXCEPT ![i] = None]
  /\ heldHere' = [heldHere EXCEPT ![i] = {}]
  /\ closed' = [closed EXCEPT ![i] = FALSE]
  /\ given' = given \cup ({session[i]} \ {None})
  /\ UNCHANGED server

Call(t) ==
  Grant(t) \/ Refuse(t) \/ Answer(t) \/ ClaimFails(t)
    \/ FnEnds(t) \/ Unlock(t) \/ UnlockFails(t)

Next ==
  \/ \E t \in Ticks : Fire(t) \/ Call(t)
  \/ \E i \in Instances :
       \/ \E s \in Sessions : Connect(i, s)
       \/ ConnectFails(i) \/ SessionError(i) \/ Close(i) \/ Exit(i)
  \/ \E s \in Sessions : ServerDrops(s)

\* Timers keep firing and calls progress, a process that shuts down exits, a
\* broken session is noticed, the server ends the sessions it is told to.
Fairness ==
  /\ \A t \in Ticks : WF_vars(Fire(t)) /\ WF_vars(Call(t))
  /\ \A i \in Instances :
       /\ WF_vars(\E s \in Sessions : Connect(i, s))
       /\ WF_vars(session[i] \notin open /\ SessionError(i))
       /\ WF_vars(closed[i] /\ Exit(i))
  /\ \A s \in Sessions : WF_vars(s \in given /\ ServerDrops(s))

SafetySpec == Init /\ [][Next]_vars
Spec == SafetySpec /\ Fairness

-------------------------------------------------------------------------------
(* Properties *)

Running(t) == pc[t] \in {"granted", "run"}
Held(t) == Running(t) /\ owner[Worker[t]] = c[t]

\* What the callers are promised: of all the ticks of one worker at most one runs
\* under the lock, across instances, broken sessions, failing queries and
\* restarts, and whoever lost the lock never gets it back (claim.ts:1-18).
Promise == INSTANCE ExclusiveRuns
  WITH running <- {t \in Ticks : Running(t)}, guarded <- {t \in Ticks : Held(t)}

KeepsPromise == Promise!Spec

\* No session is forgotten with its locks: every session the server has is in use
\* by some process or will be ended ("destroying it is what releases the lock
\* server-side", claim.ts:111), although an old tick may discard its session long
\* after the process has taken a new one.
NoLeakedSession ==
  \A s \in open : s \in given \/ \E i \in Instances : session[i] = s

\* A tick loses its lock only when its session ends or its process shuts down,
\* never because another worker's tick on the same session finished
\* (claim.ts:12-17).
LostOnlyWithSession ==
  [][\A t \in Ticks : Held(t) /\ Running(t)' =>
       Held(t)' \/ c[t] \notin open' \/ closed'[Host[t]] # closed[Host[t]]]_vars

\* The steps that are no fault, failure or new shutdown.
Untroubled ==
  \/ \E t \in Ticks :
       \/ Fire(t) \/ Grant(t) \/ Refuse(t) \/ Answer(t) \/ FnEnds(t) \/ Unlock(t)
       \/ c[t] \notin open /\ (ClaimFails(t) \/ UnlockFails(t))
  \/ \E i \in Instances :
       \/ \E s \in Sessions : Connect(i, s)
       \/ session[i] \notin open /\ SessionError(i)
       \/ closed[i] /\ Exit(i)
  \/ \E s \in Sessions : s \in given /\ ServerDrops(s)

\* Once the troubles are over, whatever they were, every worker runs again and
\* again somewhere: no lock and no heldHere entry outlives the calls and sessions
\* it belongs to (claim.ts:15-16, 94, 99, 114).
EveryWorkerRuns ==
  <>[][Untroubled]_vars =>
    \A n \in Names : []<>(\E t \in Ticks : Worker[t] = n /\ pc[t] = "run")

\* "Run fn only if no other instance is running the worker `name` right now."
\* (claim.ts:135).  A shutdown gives the locks back while the ticks still run.
NoOtherInstanceRuns ==
  \A t, u \in Ticks :
    pc[t] = "run" /\ pc[u] = "run" /\ Worker[t] = Worker[u] => Host[t] = Host[u]

===============================================================================
