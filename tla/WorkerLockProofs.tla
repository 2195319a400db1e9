--------------------------- MODULE WorkerLockProofs ---------------------------
(***************************************************************************)
(* Proofs about WorkerLock, for any number of instances, workers, timer    *)
(* firings and sessions, and any of the faults.                            *)
(***************************************************************************)
EXTENDS WorkerLock, TLAPS

-------------------------------------------------------------------------------
(* Types *)

ProcessTyped ==
  /\ session \in [Instances -> Sessions \cup {None}]
  /\ heldHere \in [Instances -> SUBSET Names]
  /\ given \subseteq Sessions
  /\ closed \in [Instances -> BOOLEAN]

CallsTyped ==
  /\ pc \in [Ticks -> Points]
  /\ c \in [Ticks -> Sessions \cup {None}]
  \* A call has a session from the connection on.
  /\ \A t \in Ticks : c[t] = None <=> pc[t] \in {"idle", "connect"}

ServerTyped ==
  /\ open \subseteq Sessions
  /\ owner \in [Names -> open \cup {None}]
  /\ depth \in [Names -> 0..MaxDepth]
  /\ \A n \in Names : owner[n] = None <=> depth[n] = 0

Inv0 == ServerTyped /\ ProcessTyped /\ CallsTyped

LEMMA InitInv0 == Init => Inv0
BY TicksAssumption, DepthAssumption
DEF Init, Inv0, ServerTyped, ProcessTyped, CallsTyped, Points

LEMMA CallsStep ==
  ASSUME Inv0, [Next]_vars
  PROVE  CallsTyped'
<1> USE TicksAssumption, NoneAssumption DEF Inv0, ProcessTyped, CallsTyped, Points
<1>1. ASSUME NEW t \in Ticks, Fire(t)
      PROVE  CallsTyped'
  BY <1>1
  DEF Fire, NotHeldHere, GoTo, server, process
<1>2. ASSUME NEW t \in Ticks, Grant(t)
      PROVE  CallsTyped'
  BY <1>2
  DEF Grant, GoTo, server, process
<1>3. ASSUME NEW t \in Ticks, Refuse(t)
      PROVE  CallsTyped'
  BY <1>3
  DEF Refuse, Return, FreeHeld, GoTo, server, process
<1>4. ASSUME NEW t \in Ticks, Answer(t)
      PROVE  CallsTyped'
  BY <1>4
  DEF Answer, GoTo, server, process
<1>5. ASSUME NEW t \in Ticks, ClaimFails(t)
      PROVE  CallsTyped'
  BY <1>5
  DEF ClaimFails, Return, FreeHeld, GoTo, server, process
<1>6. ASSUME NEW t \in Ticks, FnEnds(t)
      PROVE  CallsTyped'
  BY <1>6
  DEF FnEnds, GoTo, server, process
<1>7. ASSUME NEW t \in Ticks, Unlock(t)
      PROVE  CallsTyped'
  BY <1>7
  DEF Unlock, Unlocks, Return, FreeHeld, GoTo, server, process
<1>8. ASSUME NEW t \in Ticks, UnlockFails(t)
      PROVE  CallsTyped'
  BY <1>8
  DEF UnlockFails, Discard, DropCurrent, Return, FreeHeld, GoTo, server,
      process
<1>9. ASSUME NEW i \in Instances, NEW s \in Sessions, Connect(i, s)
      PROVE  CallsTyped'
  BY <1>9
  DEF Connect, Fresh, Waiting, server, process
<1>10. ASSUME NEW i \in Instances, ConnectFails(i)
      PROVE  CallsTyped'
  BY <1>10
  DEF ConnectFails, Waiting, server, process
<1>11. ASSUME NEW i \in Instances, SessionError(i)
      PROVE  CallsTyped'
  BY <1>11
  DEF SessionError, Discard, DropCurrent, server, process
<1>12. ASSUME NEW i \in Instances, Close(i)
      PROVE  CallsTyped'
  BY <1>12
  DEF Close, FreeLocks, Waiting, server, process
<1>13. ASSUME NEW i \in Instances, Exit(i)
      PROVE  CallsTyped'
  BY <1>13
  DEF Exit, server, process
<1>14. ASSUME NEW s \in Sessions, ServerDrops(s)
      PROVE  CallsTyped'
  BY <1>14
  DEF ServerDrops, FreeLocks, server, process
<1>15. CASE UNCHANGED vars
  BY <1>15 DEF vars
<1> QED
  BY <1>1, <1>2, <1>3, <1>4, <1>5, <1>6, <1>7, <1>8, <1>9, <1>10, <1>11,
     <1>12, <1>13, <1>14, <1>15 DEF Next, Call

LEMMA ProcessStep ==
  ASSUME Inv0, [Next]_vars
  PROVE  ProcessTyped'
<1> USE TicksAssumption, NoneAssumption DEF Inv0, ProcessTyped, CallsTyped, Points
<1>1. ASSUME NEW t \in Ticks, Fire(t)
      PROVE  ProcessTyped'
  BY <1>1
  DEF Fire, NotHeldHere, GoTo, server, process
<1>2. ASSUME NEW t \in Ticks, Grant(t)
      PROVE  ProcessTyped'
  BY <1>2
  DEF Grant, GoTo, server, process
<1>3. ASSUME NEW t \in Ticks, Refuse(t)
      PROVE  ProcessTyped'
  BY <1>3
  DEF Refuse, Return, FreeHeld, GoTo, server, process
<1>4. ASSUME NEW t \in Ticks, Answer(t)
      PROVE  ProcessTyped'
  BY <1>4
  DEF Answer, GoTo, server, process
<1>5. ASSUME NEW t \in Ticks, ClaimFails(t)
      PROVE  ProcessTyped'
  BY <1>5
  DEF ClaimFails, Return, FreeHeld, GoTo, server, process
<1>6. ASSUME NEW t \in Ticks, FnEnds(t)
      PROVE  ProcessTyped'
  BY <1>6
  DEF FnEnds, GoTo, server, process
<1>7. ASSUME NEW t \in Ticks, Unlock(t)
      PROVE  ProcessTyped'
  BY <1>7
  DEF Unlock, Unlocks, Return, FreeHeld, GoTo, server, process
<1>8. ASSUME NEW t \in Ticks, UnlockFails(t)
      PROVE  ProcessTyped'
  BY <1>8
  DEF UnlockFails, Discard, DropCurrent, Return, FreeHeld, GoTo, server,
      process
<1>9. ASSUME NEW i \in Instances, NEW s \in Sessions, Connect(i, s)
      PROVE  ProcessTyped'
  BY <1>9
  DEF Connect, Fresh, Waiting, server, process
<1>10. ASSUME NEW i \in Instances, ConnectFails(i)
      PROVE  ProcessTyped'
  BY <1>10
  DEF ConnectFails, Waiting, server, process
<1>11. ASSUME NEW i \in Instances, SessionError(i)
      PROVE  ProcessTyped'
  BY <1>11
  DEF SessionError, Discard, DropCurrent, server, process
<1>12. ASSUME NEW i \in Instances, Close(i)
      PROVE  ProcessTyped'
  BY <1>12
  DEF Close, FreeLocks, Waiting, server, process
<1>13. ASSUME NEW i \in Instances, Exit(i)
      PROVE  ProcessTyped'
  BY <1>13
  DEF Exit, server, process
<1>14. ASSUME NEW s \in Sessions, ServerDrops(s)
      PROVE  ProcessTyped'
  BY <1>14
  DEF ServerDrops, FreeLocks, server, process
<1>15. CASE UNCHANGED vars
  BY <1>15 DEF vars
<1> QED
  BY <1>1, <1>2, <1>3, <1>4, <1>5, <1>6, <1>7, <1>8, <1>9, <1>10, <1>11,
     <1>12, <1>13, <1>14, <1>15 DEF Next, Call

LEMMA ServerStep ==
  ASSUME Inv0, [Next]_vars
  PROVE  ServerTyped'
<1> USE TicksAssumption, NoneAssumption, DepthAssumption
    DEF Inv0, ServerTyped, ProcessTyped, CallsTyped
<1>1. ASSUME NEW t \in Ticks, Fire(t)
      PROVE  ServerTyped'
  BY <1>1
  DEF Fire, NotHeldHere, GoTo, server, process
<1>2. ASSUME NEW t \in Ticks, Grant(t)
      PROVE  ServerTyped'
  BY <1>2
  DEF Grant, GoTo, server, process
<1>3. ASSUME NEW t \in Ticks, Refuse(t)
      PROVE  ServerTyped'
  BY <1>3
  DEF Refuse, Return, FreeHeld, GoTo, server, process
<1>4. ASSUME NEW t \in Ticks, Answer(t)
      PROVE  ServerTyped'
  BY <1>4
  DEF Answer, GoTo, server, process
<1>5. ASSUME NEW t \in Ticks, ClaimFails(t)
      PROVE  ServerTyped'
  BY <1>5
  DEF ClaimFails, Return, FreeHeld, GoTo, server, process
<1>6. ASSUME NEW t \in Ticks, FnEnds(t)
      PROVE  ServerTyped'
  BY <1>6
  DEF FnEnds, GoTo, server, process
<1>7. ASSUME NEW t \in Ticks, Unlock(t)
      PROVE  ServerTyped'
  BY <1>7
  DEF Unlock, Unlocks, Return, FreeHeld, GoTo, server, process
<1>8. ASSUME NEW t \in Ticks, UnlockFails(t)
      PROVE  ServerTyped'
  BY <1>8
  DEF UnlockFails, Discard, DropCurrent, Return, FreeHeld, GoTo, server,
      process
<1>9. ASSUME NEW i \in Instances, NEW s \in Sessions, Connect(i, s)
      PROVE  ServerTyped'
  BY <1>9
  DEF Connect, Fresh, Waiting, server, process
<1>10. ASSUME NEW i \in Instances, ConnectFails(i)
      PROVE  ServerTyped'
  BY <1>10
  DEF ConnectFails, Waiting, server, process
<1>11. ASSUME NEW i \in Instances, SessionError(i)
      PROVE  ServerTyped'
  BY <1>11
  DEF SessionError, Discard, DropCurrent, server, process
<1>12. ASSUME NEW i \in Instances, Close(i)
      PROVE  ServerTyped'
  BY <1>12
  DEF Close, FreeLocks, Waiting, server, process
<1>13. ASSUME NEW i \in Instances, Exit(i)
      PROVE  ServerTyped'
  BY <1>13
  DEF Exit, server, process
<1>14. ASSUME NEW s \in Sessions, ServerDrops(s)
      PROVE  ServerTyped'
  BY <1>14
  DEF ServerDrops, FreeLocks, server, process
<1>15. CASE UNCHANGED vars
  BY <1>15 DEF vars
<1> QED
  BY <1>1, <1>2, <1>3, <1>4, <1>5, <1>6, <1>7, <1>8, <1>9, <1>10, <1>11,
     <1>12, <1>13, <1>14, <1>15 DEF Next, Call

-------------------------------------------------------------------------------
(* What keeps two runs of a worker apart *)

\* On one instance a worker has one call at a time.
CallsInv ==
  /\ \A t \in Ticks : pc[t] # "idle" => Worker[t] \in heldHere[Host[t]]
  /\ \A t, u \in Ticks :
       /\ pc[t] # "idle" /\ pc[u] # "idle"
       /\ Host[t] = Host[u] /\ Worker[t] = Worker[u]
       => t = u

\* A session belongs to one instance, also when it is only remembered by a call.
SessionsInv ==
  /\ \A i, j \in Instances : session[i] = session[j] /\ session[i] # None => i = j
  /\ \A t \in Ticks, i \in Instances :
       c[t] = session[i] /\ c[t] # None => Host[t] = i
  /\ \A t, u \in Ticks : c[t] = c[u] /\ c[t] # None => Host[t] = Host[u]

\* A session that is replaced has been given up before.
GivenInv ==
  /\ \A t \in Ticks : pc[t] = "connect" => session[Host[t]] = None
  /\ NoLeakedSession

Inv == Inv0 /\ CallsInv /\ SessionsInv /\ GivenInv

LEMMA CallsInvStep ==
  ASSUME Inv0, CallsInv, [Next]_vars
  PROVE  CallsInv'
<1> USE TicksAssumption DEF Inv0, ProcessTyped, CallsTyped, CallsInv
<1>1. ASSUME NEW t \in Ticks, Fire(t)
      PROVE  CallsInv'
  BY <1>1
  DEF Fire, NotHeldHere, GoTo, server, process
<1>2. ASSUME NEW t \in Ticks, Grant(t)
      PROVE  CallsInv'
  BY <1>2
  DEF Grant, GoTo, server, process
<1>3. ASSUME NEW t \in Ticks, Refuse(t)
      PROVE  CallsInv'
  BY <1>3
  DEF Refuse, Return, FreeHeld, GoTo, server, process
<1>4. ASSUME NEW t \in Ticks, Answer(t)
      PROVE  CallsInv'
  BY <1>4
  DEF Answer, GoTo, server, process
<1>5. ASSUME NEW t \in Ticks, ClaimFails(t)
      PROVE  CallsInv'
  BY <1>5
  DEF ClaimFails, Return, FreeHeld, GoTo, server, process
<1>6. ASSUME NEW t \in Ticks, FnEnds(t)
      PROVE  CallsInv'
  BY <1>6
  DEF FnEnds, GoTo, server, process
<1>7. ASSUME NEW t \in Ticks, Unlock(t)
      PROVE  CallsInv'
  BY <1>7
  DEF Unlock, Unlocks, Return, FreeHeld, GoTo, server, process
<1>8. ASSUME NEW t \in Ticks, UnlockFails(t)
      PROVE  CallsInv'
  BY <1>8
  DEF UnlockFails, Discard, DropCurrent, Return, FreeHeld, GoTo, server,
      process
<1>9. ASSUME NEW i \in Instances, NEW s \in Sessions, Connect(i, s)
      PROVE  CallsInv'
  BY <1>9
  DEF Connect, Fresh, Waiting, server, process
<1>10. ASSUME NEW i \in Instances, ConnectFails(i)
      PROVE  CallsInv'
  BY <1>10
  DEF ConnectFails, Waiting, server, process
<1>11. ASSUME NEW i \in Instances, SessionError(i)
      PROVE  CallsInv'
  BY <1>11
  DEF SessionError, Discard, DropCurrent, server, process
<1>12. ASSUME NEW i \in Instances, Close(i)
      PROVE  CallsInv'
  BY <1>12
  DEF Close, FreeLocks, Waiting, server, process
<1>13. ASSUME NEW i \in Instances, Exit(i)
      PROVE  CallsInv'
  BY <1>13
  DEF Exit, server, process
<1>14. ASSUME NEW s \in Sessions, ServerDrops(s)
      PROVE  CallsInv'
  BY <1>14
  DEF ServerDrops, FreeLocks, server, process
<1>15. CASE UNCHANGED vars
  BY <1>15 DEF vars
<1> QED
  BY <1>1, <1>2, <1>3, <1>4, <1>5, <1>6, <1>7, <1>8, <1>9, <1>10, <1>11,
     <1>12, <1>13, <1>14, <1>15 DEF Next, Call

LEMMA SessionsInvStep ==
  ASSUME Inv0, SessionsInv, [Next]_vars
  PROVE  SessionsInv'
<1> USE TicksAssumption, NoneAssumption
    DEF Inv0, ProcessTyped, CallsTyped, SessionsInv
<1>1. ASSUME NEW t \in Ticks, Fire(t)
      PROVE  SessionsInv'
  BY <1>1
  DEF Fire, NotHeldHere, GoTo, server, process
<1>2. ASSUME NEW t \in Ticks, Grant(t)
      PROVE  SessionsInv'
  BY <1>2
  DEF Grant, GoTo, server, process
<1>3. ASSUME NEW t \in Ticks, Refuse(t)
      PROVE  SessionsInv'
  BY <1>3
  DEF Refuse, Return, FreeHeld, GoTo, server, process
<1>4. ASSUME NEW t \in Ticks, Answer(t)
      PROVE  SessionsInv'
  BY <1>4
  DEF Answer, GoTo, server, process
<1>5. ASSUME NEW t \in Ticks, ClaimFails(t)
      PROVE  SessionsInv'
  BY <1>5
  DEF ClaimFails, Return, FreeHeld, GoTo, server, process
<1>6. ASSUME NEW t \in Ticks, FnEnds(t)
      PROVE  SessionsInv'
  BY <1>6
  DEF FnEnds, GoTo, server, process
<1>7. ASSUME NEW t \in Ticks, Unlock(t)
      PROVE  SessionsInv'
  BY <1>7
  DEF Unlock, Unlocks, Return, FreeHeld, GoTo, server, process
<1>8. ASSUME NEW t \in Ticks, UnlockFails(t)
      PROVE  SessionsInv'
  BY <1>8
  DEF UnlockFails, Discard, DropCurrent, Return, FreeHeld, GoTo, server,
      process
<1>9. ASSUME NEW i \in Instances, NEW s \in Sessions, Connect(i, s)
      PROVE  SessionsInv'
  BY <1>9
  DEF Connect, Fresh, Waiting, server, process
<1>10. ASSUME NEW i \in Instances, ConnectFails(i)
      PROVE  SessionsInv'
  BY <1>10
  DEF ConnectFails, Waiting, server, process
<1>11. ASSUME NEW i \in Instances, SessionError(i)
      PROVE  SessionsInv'
  BY <1>11
  DEF SessionError, Discard, DropCurrent, server, process
<1>12. ASSUME NEW i \in Instances, Close(i)
      PROVE  SessionsInv'
  BY <1>12
  DEF Close, FreeLocks, Waiting, server, process
<1>13. ASSUME NEW i \in Instances, Exit(i)
      PROVE  SessionsInv'
  BY <1>13
  DEF Exit, server, process
<1>14. ASSUME NEW s \in Sessions, ServerDrops(s)
      PROVE  SessionsInv'
  BY <1>14
  DEF ServerDrops, FreeLocks, server, process
<1>15. CASE UNCHANGED vars
  BY <1>15 DEF vars
<1> QED
  BY <1>1, <1>2, <1>3, <1>4, <1>5, <1>6, <1>7, <1>8, <1>9, <1>10, <1>11,
     <1>12, <1>13, <1>14, <1>15 DEF Next, Call

LEMMA GivenInvStep ==
  ASSUME Inv0, GivenInv, [Next]_vars
  PROVE  GivenInv'
<1> USE TicksAssumption, NoneAssumption
    DEF Inv0, ServerTyped, ProcessTyped, CallsTyped, GivenInv, NoLeakedSession
<1>1. ASSUME NEW t \in Ticks, Fire(t)
      PROVE  GivenInv'
  BY <1>1
  DEF Fire, NotHeldHere, GoTo, server, process
<1>2. ASSUME NEW t \in Ticks, Grant(t)
      PROVE  GivenInv'
  BY <1>2
  DEF Grant, GoTo, server, process
<1>3. ASSUME NEW t \in Ticks, Refuse(t)
      PROVE  GivenInv'
  BY <1>3
  DEF Refuse, Return, FreeHeld, GoTo, server, process
<1>4. ASSUME NEW t \in Ticks, Answer(t)
      PROVE  GivenInv'
  BY <1>4
  DEF Answer, GoTo, server, process
<1>5. ASSUME NEW t \in Ticks, ClaimFails(t)
      PROVE  GivenInv'
  BY <1>5
  DEF ClaimFails, Return, FreeHeld, GoTo, server, process
<1>6. ASSUME NEW t \in Ticks, FnEnds(t)
      PROVE  GivenInv'
  BY <1>6
  DEF FnEnds, GoTo, server, process
<1>7. ASSUME NEW t \in Ticks, Unlock(t)
      PROVE  GivenInv'
  BY <1>7
  DEF Unlock, Unlocks, Return, FreeHeld, GoTo, server, process
<1>8. ASSUME NEW t \in Ticks, UnlockFails(t)
      PROVE  GivenInv'
  BY <1>8
  DEF UnlockFails, Discard, DropCurrent, Return, FreeHeld, GoTo, server,
      process
<1>9. ASSUME NEW i \in Instances, NEW s \in Sessions, Connect(i, s)
      PROVE  GivenInv'
  BY <1>9
  DEF Connect, Fresh, Waiting, server, process
<1>10. ASSUME NEW i \in Instances, ConnectFails(i)
      PROVE  GivenInv'
  BY <1>10
  DEF ConnectFails, Waiting, server, process
<1>11. ASSUME NEW i \in Instances, SessionError(i)
      PROVE  GivenInv'
  BY <1>11
  DEF SessionError, Discard, DropCurrent, server, process
<1>12. ASSUME NEW i \in Instances, Close(i)
      PROVE  GivenInv'
  BY <1>12
  DEF Close, FreeLocks, Waiting, server, process
<1>13. ASSUME NEW i \in Instances, Exit(i)
      PROVE  GivenInv'
  BY <1>13
  DEF Exit, server, process
<1>14. ASSUME NEW s \in Sessions, ServerDrops(s)
      PROVE  GivenInv'
  BY <1>14
  DEF ServerDrops, FreeLocks, server, process
<1>15. CASE UNCHANGED vars
  BY <1>15 DEF vars
<1> QED
  BY <1>1, <1>2, <1>3, <1>4, <1>5, <1>6, <1>7, <1>8, <1>9, <1>10, <1>11,
     <1>12, <1>13, <1>14, <1>15 DEF Next, Call

LEMMA Invariance == SafetySpec => []Inv
<1>1. Init => Inv
  <2> SUFFICES ASSUME Init PROVE Inv
    OBVIOUS
  <2>1. Inv0
    BY InitInv0
  <2>2. CallsInv /\ SessionsInv /\ GivenInv
    BY TicksAssumption
    DEF Init, CallsInv, SessionsInv, GivenInv, NoLeakedSession
  <2> QED
    BY <2>1, <2>2 DEF Inv
<1>2. Inv /\ [Next]_vars => Inv'
  <2> SUFFICES ASSUME Inv, [Next]_vars PROVE Inv'
    OBVIOUS
  <2>1. Inv0'
    BY CallsStep, ProcessStep, ServerStep DEF Inv, Inv0
  <2>2. CallsInv' /\ SessionsInv' /\ GivenInv'
    BY CallsInvStep, SessionsInvStep, GivenInvStep DEF Inv
  <2> QED
    BY <2>1, <2>2 DEF Inv
<1> QED
  BY <1>1, <1>2, PTL DEF SafetySpec


\* What a step may do to the lock of a run that goes on.
LEMMA LostOnlyStep ==
  ASSUME Inv, [Next]_vars
  PROVE  \A t \in Ticks : Held(t) /\ Running(t)' =>
           Held(t)' \/ c[t] \notin open' \/ closed'[Host[t]] # closed[Host[t]]
<1> SUFFICES ASSUME NEW r \in Ticks, Held(r), Running(r)'
             PROVE  \/ Held(r)' \/ c[r] \notin open'
                    \/ closed'[Host[r]] # closed[Host[r]]
  OBVIOUS
<1> DEFINE Excused == \/ Held(r)' \/ c[r] \notin open'
                      \/ closed'[Host[r]] # closed[Host[r]]
<1> USE TicksAssumption, NoneAssumption
    DEF Inv, Inv0, ServerTyped, ProcessTyped, CallsTyped, CallsInv, SessionsInv,
        Held, Running
<1>1. ASSUME NEW t \in Ticks, Fire(t)
      PROVE  Excused
  BY <1>1
  DEF Fire, NotHeldHere, GoTo, server, process
<1>2. ASSUME NEW t \in Ticks, Grant(t)
      PROVE  Excused
  BY <1>2
  DEF Grant, GoTo, server, process
<1>3. ASSUME NEW t \in Ticks, Refuse(t)
      PROVE  Excused
  BY <1>3
  DEF Refuse, Return, FreeHeld, GoTo, server, process
<1>4. ASSUME NEW t \in Ticks, Answer(t)
      PROVE  Excused
  BY <1>4
  DEF Answer, GoTo, server, process
<1>5. ASSUME NEW t \in Ticks, ClaimFails(t)
      PROVE  Excused
  BY <1>5
  DEF ClaimFails, Return, FreeHeld, GoTo, server, process
<1>6. ASSUME NEW t \in Ticks, FnEnds(t)
      PROVE  Excused
  BY <1>6
  DEF FnEnds, GoTo, server, process
<1>7. ASSUME NEW t \in Ticks, Unlock(t)
      PROVE  Excused
  BY <1>7
  DEF Unlock, Unlocks, Return, FreeHeld, GoTo, server, process
<1>8. ASSUME NEW t \in Ticks, UnlockFails(t)
      PROVE  Excused
  BY <1>8
  DEF UnlockFails, Discard, DropCurrent, Return, FreeHeld, GoTo, server,
      process
<1>9. ASSUME NEW i \in Instances, NEW s \in Sessions, Connect(i, s)
      PROVE  Excused
  BY <1>9
  DEF Connect, Fresh, Waiting, server, process
<1>10. ASSUME NEW i \in Instances, ConnectFails(i)
      PROVE  Excused
  BY <1>10
  DEF ConnectFails, Waiting, server, process
<1>11. ASSUME NEW i \in Instances, SessionError(i)
      PROVE  Excused
  BY <1>11
  DEF SessionError, Discard, DropCurrent, server, process
<1>12. ASSUME NEW i \in Instances, Close(i)
      PROVE  Excused
  <2>1. CASE c[r] = session[i]
    <3>1. Host[r] = i
      BY <2>1
    <3>2. closed'[i] # closed[i]
      BY <1>12 DEF Close
    <3> QED
      BY <3>1, <3>2
  <2>2. CASE c[r] # session[i]
    <3>1. pc' = pc /\ c' = c
      BY <1>12 DEF Close
    <3>2. owner'[Worker[r]] = owner[Worker[r]]
      BY <1>12, <2>2 DEF Close, FreeLocks
    <3> QED
      BY <3>1, <3>2
  <2> QED
    BY <2>1, <2>2
<1>13. ASSUME NEW i \in Instances, Exit(i)
      PROVE  Excused
  BY <1>13
  DEF Exit, server, process
<1>14. ASSUME NEW s \in Sessions, ServerDrops(s)
      PROVE  Excused
  BY <1>14
  DEF ServerDrops, FreeLocks, server, process
<1>15. CASE UNCHANGED vars
  BY <1>15 DEF vars
<1> QED
  BY <1>1, <1>2, <1>3, <1>4, <1>5, <1>6, <1>7, <1>8, <1>9, <1>10, <1>11,
     <1>12, <1>13, <1>14, <1>15 DEF Next, Call

-------------------------------------------------------------------------------
(* Theorems *)

\* Every variable keeps its type; a lock nobody holds has depth 0.
THEOREM TypeCorrect == SafetySpec => []TypeOK
<1>1. Inv => TypeOK
  BY DEF Inv, Inv0, ServerTyped, ProcessTyped, CallsTyped, TypeOK
<1> QED
  BY Invariance, <1>1, PTL

\* Every session the server has is in use or will be ended: discard() never
\* forgets a session that still holds locks (claim.ts:52-60, 111).
THEOREM NoSessionLeaks == SafetySpec => []NoLeakedSession
<1>1. Inv => NoLeakedSession
  BY DEF Inv, GivenInv
<1> QED
  BY Invariance, <1>1, PTL

\* A run loses its lock only with its session or at its process's shutdown.
THEOREM LostOnlySo == SafetySpec => LostOnlyWithSession
<1> DEFINE A == \A t \in Ticks : Held(t) /\ Running(t)' =>
                  Held(t)' \/ c[t] \notin open' \/ closed'[Host[t]] # closed[Host[t]]
<1>1. Inv /\ [Next]_vars => [A]_vars
  <2> SUFFICES ASSUME Inv, [Next]_vars PROVE A
    OBVIOUS
  <2> QED
    BY LostOnlyStep
<1> QED
  BY Invariance, <1>1, PTL DEF SafetySpec, LostOnlyWithSession

\* The runs and the runs under their lock, as the abstract specification has them.
Runs == {t \in Ticks : Running(t)}
Guarded == {t \in Ticks : Held(t)}

\* A claim that is granted finds no run of the worker under its lock.
LEMMA GrantBegins ==
  ASSUME Inv, NEW t \in Ticks, Grant(t)
  PROVE  Promise!Begin(t)
<1> USE TicksAssumption, NoneAssumption, DepthAssumption
    DEF Inv, Inv0, ServerTyped, ProcessTyped, CallsTyped, CallsInv, SessionsInv
<1>1. t \notin Runs
  BY DEF Grant, Running, Runs
<1>2. ASSUME NEW u \in Guarded PROVE Worker[u] # Worker[t]
  BY DEF Grant, Held, Running, Guarded
<1>3. Runs' = Runs \cup {t}
  BY DEF Grant, GoTo, Running, Runs
<1>4. ASSUME NEW u \in Ticks, u # t PROVE Held(u)' <=> Held(u)
  <2>1. pc'[u] = pc[u] /\ c'[u] = c[u]
    BY <1>4 DEF Grant, GoTo
  <2>2. CASE Worker[u] # Worker[t]
    BY <2>1, <2>2 DEF Grant, Held, Running
  <2>3. CASE Worker[u] = Worker[t]
    BY <1>4, <2>1, <2>3 DEF Grant, Held, Running
  <2> QED
    BY <2>2, <2>3
<1>5. Held(t)'
  BY DEF Grant, GoTo, Held, Running
<1>6. Guarded' = Guarded \cup {t}
  BY <1>4, <1>5 DEF Guarded
<1> QED
  BY <1>1, <1>2, <1>3, <1>6 DEF Promise!Begin, Runs, Guarded

\* Any other step only ends runs or takes locks away from them.
LEMMA OthersEndOrLose ==
  ASSUME Inv, [Next]_vars, NEW r \in Ticks,
         \A t \in Ticks : ~Grant(t)
  PROVE  (Running(r)' => Running(r)) /\ (Held(r)' => Held(r))
<1> DEFINE Goal == (Running(r)' => Running(r)) /\ (Held(r)' => Held(r))
<1> USE TicksAssumption, NoneAssumption
    DEF Inv, Inv0, ServerTyped, ProcessTyped, CallsTyped, CallsInv, SessionsInv,
        Held, Running
<1>1. ASSUME NEW t \in Ticks, Fire(t)
      PROVE  Goal
  BY <1>1
  DEF Fire, NotHeldHere, GoTo, server, process
<1>2. ASSUME NEW t \in Ticks, Grant(t)
      PROVE  Goal
  BY <1>2
  DEF Grant, GoTo, server, process
<1>3. ASSUME NEW t \in Ticks, Refuse(t)
      PROVE  Goal
  BY <1>3
  DEF Refuse, Return, FreeHeld, GoTo, server, process
<1>4. ASSUME NEW t \in Ticks, Answer(t)
      PROVE  Goal
  BY <1>4
  DEF Answer, GoTo, server, process
<1>5. ASSUME NEW t \in Ticks, ClaimFails(t)
      PROVE  Goal
  BY <1>5
  DEF ClaimFails, Return, FreeHeld, GoTo, server, process
<1>6. ASSUME NEW t \in Ticks, FnEnds(t)
      PROVE  Goal
  BY <1>6
  DEF FnEnds, GoTo, server, process
<1>7. ASSUME NEW t \in Ticks, Unlock(t)
      PROVE  Goal
  BY <1>7
  DEF Unlock, Unlocks, Return, FreeHeld, GoTo, server, process
<1>8. ASSUME NEW t \in Ticks, UnlockFails(t)
      PROVE  Goal
  BY <1>8
  DEF UnlockFails, Discard, DropCurrent, Return, FreeHeld, GoTo, server,
      process
<1>9. ASSUME NEW i \in Instances, NEW s \in Sessions, Connect(i, s)
      PROVE  Goal
  BY <1>9
  DEF Connect, Fresh, Waiting, server, process
<1>10. ASSUME NEW i \in Instances, ConnectFails(i)
      PROVE  Goal
  BY <1>10
  DEF ConnectFails, Waiting, server, process
<1>11. ASSUME NEW i \in Instances, SessionError(i)
      PROVE  Goal
  BY <1>11
  DEF SessionError, Discard, DropCurrent, server, process
<1>12. ASSUME NEW i \in Instances, Close(i)
      PROVE  Goal
  BY <1>12
  DEF Close, FreeLocks, Waiting, server, process
<1>13. ASSUME NEW i \in Instances, Exit(i)
      PROVE  Goal
  BY <1>13
  DEF Exit, server, process
<1>14. ASSUME NEW s \in Sessions, ServerDrops(s)
      PROVE  Goal
  BY <1>14
  DEF ServerDrops, FreeLocks, server, process
<1>15. CASE UNCHANGED vars
  BY <1>15 DEF vars
<1> QED
  BY <1>1, <1>2, <1>3, <1>4, <1>5, <1>6, <1>7, <1>8, <1>9, <1>10, <1>11,
     <1>12, <1>13, <1>14, <1>15 DEF Next, Call

\* The runs of a worker are one at a time under its lock: WorkerLock implements
\* ExclusiveRuns (claim.ts:1-18).
THEOREM Implements == SafetySpec => KeepsPromise
<1>1. Init => Promise!Init
  BY DEF Init, Promise!Init, Running, Held
<1>2. Inv /\ [Next]_vars => [Promise!Next]_(Promise!vars)
  <2> SUFFICES ASSUME Inv, [Next]_vars PROVE Promise!Next
    OBVIOUS
  <2>1. CASE \E t \in Ticks : Grant(t)
    BY <2>1, GrantBegins DEF Promise!Next
  <2>2. CASE \A t \in Ticks : ~Grant(t)
    <3>1. \A r \in Ticks : (Running(r)' => Running(r)) /\ (Held(r)' => Held(r))
      BY <2>2, OthersEndOrLose
    <3>2. Runs' \subseteq Runs
      BY <3>1 DEF Runs
    <3>3. Guarded' \subseteq Guarded \cap Runs'
      BY <3>1 DEF Runs, Guarded, Held
    <3>4. Promise!EndOrLose
      BY <3>2, <3>3 DEF Promise!EndOrLose, Runs, Guarded
    <3> QED
      BY <3>4 DEF Promise!Next
  <2> QED
    BY <2>1, <2>2
<1> QED
  BY Invariance, <1>1, <1>2, PTL DEF SafetySpec, KeepsPromise, Promise!Spec

\* So on any number of instances no two ticks of a worker run under its lock.
THEOREM OneRunUnderLock == SafetySpec => []Promise!OneGuarded
<1>1. Promise!Init => Promise!OneGuarded
  BY DEF Promise!Init, Promise!OneGuarded
<1>2. Promise!OneGuarded /\ [Promise!Next]_(Promise!vars) => Promise!OneGuarded'
  BY DEF Promise!OneGuarded, Promise!Next, Promise!Begin, Promise!EndOrLose,
         Promise!vars
<1>3. KeepsPromise => []Promise!OneGuarded
  BY <1>1, <1>2, PTL DEF KeepsPromise, Promise!Spec
<1> QED
  BY <1>3, Implements

===============================================================================
