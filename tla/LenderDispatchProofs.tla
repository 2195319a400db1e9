------------------------- MODULE LenderDispatchProofs -------------------------
(***************************************************************************)
(* Proofs about LenderDispatch, for any number of lenders, handlers and    *)
(* workers, any mix of channels and any limits.                            *)
(***************************************************************************)
EXTENDS LenderDispatch, TLAPS

USE DEF OnceQueued

-------------------------------------------------------------------------------
(* Types *)

HopPoints == {"connector", "email", "sheet", "append", "record"}

\* A handler that is sending has a lender in hand.
HandlersInv ==
  /\ HandlersTyped
  /\ \A p \in Procs : pc[p] \in HopPoints => cur[p] \in Lenders

Inv0 == RowsTyped /\ HandlersInv /\ HistoryTyped

\* A handler that returns or dies stays well typed.
LEMMA DoneTyped ==
  ASSUME HandlersInv, NEW p \in Procs, Done(p)
  PROVE  HandlersInv'
BY DEF HandlersInv, HopPoints, HandlersTyped, Points, Kinds, Done, GoTo

\* So does one that an exception sends on.
LEMMA ThrowsTyped ==
  ASSUME HandlersInv, NEW p \in Procs, Throws(p)
  PROVE  HandlersInv'
BY DEF HandlersInv, HopPoints, HandlersTyped, Points, Kinds, Throws, GoTo

LEMMA InitInv0 == Init => Inv0
<1> SUFFICES ASSUME Init PROVE Inv0
  OBVIOUS
<1>1. RowsTyped
  <2>1. signed \in BOOLEAN /\ sheet \in [Lenders -> BOOLEAN]
    BY Zenon DEF Init
  <2>2. /\ stage \in Stages /\ lock \in LockStates /\ job \in JobStates
        /\ pkg \in [Lenders -> PackageStates]
    BY Zenon DEF Init, Stages, LockStates, JobStates, PackageStates
  <2>3. attempts \in 0..(MaxUnsigned + MaxSpared + 1)
    <3>1. attempts = 0
      BY Zenon DEF Init
    <3> QED
      BY <3>1, AttemptsAssumption
  <2>4. selected \subseteq Lenders
    BY Zenon DEF Init
  <2> QED
    BY <2>1, <2>2, <2>3, <2>4 DEF RowsTyped
<1>2. HandlersInv
  BY DEF Init, HandlersInv, HopPoints, HandlersTyped, Kinds, Points
<1>3. HistoryTyped
  <2>1. stolen \in BOOLEAN /\ excused \subseteq Lenders /\ unclaimed \subseteq Lenders
    BY Zenon DEF Init
  <2>2. mails = [l \in Lenders |-> 0] /\ rows = [l \in Lenders |-> 0]
    BY Zenon DEF Init
  <2>3. mails \in [Lenders -> 0..TwoOrMore] /\ rows \in [Lenders -> 0..TwoOrMore]
    BY <2>2 DEF TwoOrMore
  <2> QED
    BY <2>1, <2>3, Zenon DEF HistoryTyped
<1> QED
  BY <1>1, <1>2, <1>3 DEF Inv0

\* Requests only start handlers.
LEMMA RequestInv0 ==
  ASSUME Inv0, NEW p \in Senders, Request(p)
  PROVE  Inv0'
<1> USE RequestsAssumption
    DEF Inv0, HandlersInv, HopPoints, HandlersTyped, HistoryTyped, RowsTyped, Points,
        Kinds, RequestKinds, Procs, Start, GoTo, Excuse, database, history
<1>1. ASSUME NEW chosen \in SUBSET Lenders, RequestSend(p, chosen)
      PROVE  Inv0'
  BY <1>1 DEF RequestSend
<1>2. ASSUME NEW l \in Lenders,
             RequestResend(p, l) \/ RequestApi(p, l) \/ RequestMark(p, l)
      PROVE  Inv0'
  BY <1>2 DEF RequestResend, RequestApi, RequestMark
<1>3. CASE FinalizeSigned(p)
  BY <1>3 DEF FinalizeSigned
<1> QED
  BY <1>1, <1>2, <1>3 DEF Request

\* What a handler does leaves its own state well typed ...
LEMMA ProgressHandlers ==
  ASSUME Inv0, NEW p \in Procs, Progress(p)
  PROVE  HandlersInv'
<1>0. HandlersInv /\ RowsTyped
  BY DEF Inv0
<1>1. CASE ClaimLock(p)
  BY <1>0, <1>1 DEF ClaimLock, HandlersInv, HopPoints, HandlersTyped, Points, GoTo
<1>2. CASE LockBusy(p)
  BY <1>0, <1>2, DoneTyped DEF LockBusy
<1>3. CASE ClaimLost(p)
  BY <1>0, <1>3, DoneTyped DEF ClaimLost
<1>4. CASE Release(p)
  BY <1>0, <1>4, DoneTyped DEF Release, HandlersInv, HopPoints,
      HandlersTyped, Points, GoTo
<1>5. CASE PassGate(p)
  BY <1>0, <1>5 DEF PassGate, HandlersInv, HopPoints, HandlersTyped, Points, GoTo
<1>6. CASE HoldBack(p)
  BY <1>0, <1>6, DoneTyped DEF HoldBack
<1>7. CASE SelectLenders(p)
  BY <1>0, <1>7 DEF SelectLenders, Unsent, RowsTyped, HandlersInv, HopPoints,
      HandlersTyped, Points, GoTo
<1>8. CASE SelectThrows(p)
  BY <1>0, <1>8, DoneTyped DEF SelectThrows
<1>9. CASE MarkRow(p)
  BY <1>0, <1>9 DEF MarkRow, HandlersInv, HopPoints, HandlersTyped, Points, GoTo
<1>10. CASE EnqueueJob(p)
  BY <1>0, <1>10, DoneTyped DEF EnqueueJob
<1>11. CASE EnterDispatch(p)
  BY <1>0, <1>11 DEF EnterDispatch, MayEnter, HandlersInv, HopPoints, HandlersTyped,
      Points, GoTo
<1>12. CASE FailDispatch(p)
  BY <1>0, <1>12 DEF FailDispatch, Throws, HandlersInv, HopPoints, HandlersTyped,
      Points, GoTo
<1>13. CASE FinishDispatch(p)
  BY <1>0, <1>13 DEF FinishDispatch, HandlersInv, HopPoints, HandlersTyped, Points, GoTo
<1>14. ASSUME NEW l \in Lenders, TakeNext(p, l)
      PROVE  HandlersInv'
  BY <1>0, <1>14 DEF TakeNext, FirstHop, HandlersInv, HopPoints, HandlersTyped,
      Points, GoTo
<1>15. ASSUME NEW n \in 0..2, NEW r \in BOOLEAN, NEW t \in BOOLEAN,
             ConnectorSend(p, n, r, t)
      PROVE  HandlersInv'
  BY <1>0, <1>15 DEF ConnectorSend, Deliver, Arrive, HandlersInv, HopPoints,
      HandlersTyped, Points, GoTo
<1>16. ASSUME NEW n \in 0..2, NEW r \in BOOLEAN, EmailSend(p, n, r)
      PROVE  HandlersInv'
  BY <1>0, <1>16 DEF EmailSend, Deliver, Arrive, HandlersInv, HopPoints,
      HandlersTyped, Points, GoTo
<1>e. ASSUME NEW n \in 0..1, EmailThrows(p, n)
      PROVE  HandlersInv'
  BY <1>0, <1>e DEF EmailThrows, Throws, Arrive, HandlersInv, HopPoints,
      HandlersTyped, Points, GoTo
<1>17. CASE SheetClaim(p)
  BY <1>0, <1>17 DEF SheetClaim, AlreadyClaimed, RowsTyped, HandlersInv, HopPoints,
      HandlersTyped, Points, GoTo
<1>18. ASSUME NEW d \in BOOLEAN, SheetUnavailable(p, d)
      PROVE  HandlersInv'
  BY <1>0, <1>18 DEF SheetUnavailable, HandlersInv, HopPoints, HandlersTyped, Points,
      GoTo
<1>19. ASSUME NEW n \in 0..1, NEW r \in BOOLEAN, NEW f \in BOOLEAN,
             SheetAppend(p, n, r, f)
      PROVE  HandlersInv'
  BY <1>0, <1>19 DEF SheetAppend, HandlersInv, HopPoints, HandlersTyped, Points, GoTo
<1>20. ASSUME NEW saved \in BOOLEAN, Record(p, saved)
      PROVE  HandlersInv'
  BY <1>0, <1>20 DEF Record, HandlersInv, HopPoints, HandlersTyped, Points, GoTo
<1>21. CASE Advance(p)
  BY <1>0, <1>21, DoneTyped DEF Advance, AfterAdvance, HandlersInv,
      HopPoints, HandlersTyped, Points, GoTo
<1>22. CASE AdvanceFails(p)
  BY <1>0, <1>22, DoneTyped DEF AdvanceFails, AfterAdvance, HandlersInv,
      HopPoints, HandlersTyped, Points, GoTo
<1>23. CASE \E a \in BOOLEAN : Requeue(p, a)
  BY <1>0, <1>23, DoneTyped, ThrowsTyped DEF Requeue, AfterRequeue,
      HandlersInv, HopPoints, HandlersTyped, Points, GoTo
<1>29. CASE \E a \in BOOLEAN : GiveUp(p, a)
  BY <1>0, <1>29, DoneTyped, ThrowsTyped DEF GiveUp, EndJob
<1>24. CASE WorkerSelect(p)
  BY <1>0, <1>24 DEF WorkerSelect, RowsTyped, HandlersInv, HopPoints, HandlersTyped,
      Points, GoTo
<1>25. CASE \E a \in BOOLEAN : NoFinalizedLenders(p, a)
  BY <1>0, <1>25, DoneTyped, ThrowsTyped DEF NoFinalizedLenders, EndJob
<1>26. CASE \E a \in BOOLEAN : AllFailed(p, a)
  BY <1>0, <1>26, DoneTyped, ThrowsTyped DEF AllFailed, EndJob
<1>27. CASE JobThrows(p) \/ (\E saved \in BOOLEAN : CatchJob(p, saved))
  BY <1>0, <1>27, DoneTyped, ThrowsTyped DEF JobThrows, CatchJob
<1>28. CASE \E a \in BOOLEAN : Settle(p, a)
  BY <1>0, <1>28, DoneTyped, ThrowsTyped DEF Settle, EndJob
<1> QED
  BY <1>e, <1>1, <1>2, <1>3, <1>4, <1>5, <1>6, <1>7, <1>8, <1>9, <1>10, <1>11,
     <1>12, <1>13, <1>14, <1>15, <1>16, <1>17, <1>18, <1>19, <1>20, <1>21,
     <1>22, <1>23, <1>24, <1>25, <1>26, <1>27, <1>28, <1>29 DEF Progress

\* A worker that is about to give the job up, or in the catch of its run.
Leaving(p) == pc[p] \in {"giveUp", "catch"}

JobInv ==
  /\ \A p \in Procs : kind[p] = "worker" =>
       /\ p \in Workers
       /\ CASE pc[p] = "giveUp" -> job = "pending"
            [] pc[p] = "catch" -> job # "none"
            [] OTHER -> job = "running"
  /\ \A p, q \in Procs : kind[p] = "worker" /\ kind[q] = "worker" => p = q
  /\ \A p \in Procs : Leaving(p) => kind[p] = "worker"
  /\ job = "running" => MaySpare
  /\ job = "pending" =>
       \/ MaySpare
       \/ attempts = MaxUnsigned + MaxSpared /\ \E p \in Procs : Leaving(p)
  /\ (\E p \in Procs : Leaving(p)) => attempts <= MaxUnsigned + MaxSpared
  /\ job = "none" => attempts = 0

\* ... and the rows of the database, of which only the job has a bound that
\* depends on who owns it ...
LEMMA ProgressRows ==
  ASSUME Inv0, JobInv, NEW p \in Procs, Progress(p)
  PROVE  RowsTyped'
<1> USE DEF RowsTyped, LockStates, database
<1>0. RowsTyped /\ HandlersInv
  BY DEF Inv0
<1>1. CASE ClaimLock(p) \/ LockBusy(p) \/ ClaimLost(p) \/ Release(p)
  BY <1>0, <1>1 DEF ClaimLock, LockBusy, ClaimLost, Release
<1>2. CASE PassGate(p) \/ HoldBack(p) \/ SelectLenders(p) \/ SelectThrows(p)
  BY <1>0, <1>2 DEF PassGate, HoldBack, SelectLenders, SelectThrows
<1>3. CASE MarkRow(p)
  BY <1>0, <1>3 DEF MarkRow, PackageStates
<1>4. CASE EnqueueJob(p)
  BY <1>0, <1>4 DEF EnqueueJob, JobStates
<1>5. CASE EnterDispatch(p) \/ FailDispatch(p) \/ FinishDispatch(p)
  BY <1>0, <1>5 DEF EnterDispatch, MayEnter, FailDispatch, Throws, FinishDispatch
<1>6. ASSUME NEW l \in Lenders, TakeNext(p, l)
      PROVE  RowsTyped'
  BY <1>0, <1>6 DEF TakeNext
<1>7. ASSUME NEW n \in 0..2, NEW r \in BOOLEAN, NEW t \in BOOLEAN,
             ConnectorSend(p, n, r, t)
      PROVE  RowsTyped'
  BY <1>0, <1>7 DEF ConnectorSend, Deliver, Arrive
<1>8. ASSUME NEW n \in 0..2, NEW r \in BOOLEAN, EmailSend(p, n, r)
      PROVE  RowsTyped'
  BY <1>0, <1>8 DEF EmailSend, Deliver, Arrive
<1>e. ASSUME NEW n \in 0..1, EmailThrows(p, n)
      PROVE  RowsTyped'
  BY <1>0, <1>e DEF EmailThrows, Throws, Arrive
<1>9. CASE SheetClaim(p)
  BY <1>0, <1>9 DEF SheetClaim
<1>10. ASSUME NEW d \in BOOLEAN, SheetUnavailable(p, d)
      PROVE  RowsTyped'
  BY <1>0, <1>10 DEF SheetUnavailable, HandlersInv, HopPoints
<1>11. ASSUME NEW n \in 0..1, NEW r \in BOOLEAN, NEW f \in BOOLEAN,
             SheetAppend(p, n, r, f)
      PROVE  RowsTyped'
  BY <1>0, <1>11 DEF SheetAppend
<1>12. ASSUME NEW saved \in BOOLEAN, Record(p, saved)
      PROVE  RowsTyped'
  BY <1>0, <1>12 DEF Record, Outcome, PackageStates
<1>13. CASE Advance(p)
  BY <1>0, <1>13 DEF Advance, AfterAdvance, Stages
<1>14. CASE AdvanceFails(p)
  BY <1>0, <1>14 DEF AdvanceFails, AfterAdvance
<1>15. CASE \E a \in BOOLEAN : Requeue(p, a)
  <2>1. MaySpare
    BY <1>0, <1>15 DEF Requeue, Throws, JobInv, OpenJobs
  <2> QED
    BY <1>0, <1>15, <2>1, AttemptsAssumption DEF Requeue, Throws, NextAttempts,
        MaySpare, JobStates
<1>16. CASE WorkerSelect(p)
  BY <1>0, <1>16 DEF WorkerSelect
<1>17. CASE \E a \in BOOLEAN :
           \/ GiveUp(p, a) \/ NoFinalizedLenders(p, a)
           \/ AllFailed(p, a) \/ Settle(p, a)
  BY <1>0, <1>17 DEF GiveUp, EndJob, Throws, NoFinalizedLenders, JobStates, AllFailed,
      Settle
<1>18. CASE JobThrows(p)
  BY <1>0, <1>18 DEF JobThrows
<1>19. ASSUME NEW saved \in BOOLEAN, CatchJob(p, saved)
       PROVE  RowsTyped'
  <2>1. attempts <= MaxUnsigned + MaxSpared
    BY <1>19 DEF CatchJob, JobInv, Leaving
  <2> QED
    BY <1>0, <1>19, <2>1, AttemptsAssumption DEF CatchJob, NextAttempts, AfterThrow,
        JobStates
<1> QED
  BY <1>e, <1>1, <1>2, <1>3, <1>4, <1>5, <1>6, <1>7, <1>8, <1>9, <1>10, <1>11,
     <1>12, <1>13, <1>14, <1>15, <1>16, <1>17, <1>18, <1>19 DEF Progress

\* ... and what the lenders got.
LEMMA ProgressHistory ==
  ASSUME Inv0, NEW p \in Procs, Progress(p)
  PROVE  HistoryTyped'
<1> USE DEF HistoryTyped, history
<1>0. HistoryTyped /\ HandlersInv /\ RowsTyped
  BY DEF Inv0
<1>1. CASE ClaimLock(p)
  BY <1>0, <1>1 DEF ClaimLock
<1>2. CASE \/ LockBusy(p) \/ ClaimLost(p) \/ Release(p)
         \/ PassGate(p) \/ HoldBack(p) \/ SelectLenders(p)
         \/ SelectThrows(p) \/ MarkRow(p) \/ EnqueueJob(p)
         \/ EnterDispatch(p) \/ FailDispatch(p) \/ FinishDispatch(p)
  BY <1>0, <1>2 DEF LockBusy, ClaimLost, Release, PassGate, HoldBack, SelectLenders,
      SelectThrows, MarkRow, EnqueueJob, EnterDispatch, MayEnter, FailDispatch,
      Throws, FinishDispatch
<1>3. ASSUME NEW l \in Lenders, TakeNext(p, l)
      PROVE  HistoryTyped'
  BY <1>0, <1>3 DEF TakeNext
<1>4. ASSUME NEW n \in 0..2, NEW r \in BOOLEAN, NEW t \in BOOLEAN,
             ConnectorSend(p, n, r, t)
      PROVE  HistoryTyped'
  BY <1>0, <1>4 DEF ConnectorSend, Deliver, Arrive, Count, TwoOrMore, Excuse,
      HandlersInv, HopPoints
<1>5. ASSUME NEW n \in 0..2, NEW r \in BOOLEAN, EmailSend(p, n, r)
      PROVE  HistoryTyped'
  BY <1>0, <1>5 DEF EmailSend, Deliver, Arrive, Count, TwoOrMore, Excuse, HandlersInv,
      HopPoints
<1>e. ASSUME NEW n \in 0..1, EmailThrows(p, n)
      PROVE  HistoryTyped'
  BY <1>0, <1>e DEF EmailThrows, Throws, Arrive, Count, TwoOrMore, Excuse,
      HandlersInv, HopPoints
<1>6. CASE SheetClaim(p)
  BY <1>0, <1>6 DEF SheetClaim
<1>7. ASSUME NEW d \in BOOLEAN, SheetUnavailable(p, d)
      PROVE  HistoryTyped'
  BY <1>0, <1>7 DEF SheetUnavailable, Unclaim, Excuse, HandlersInv, HopPoints
<1>8. ASSUME NEW n \in 0..1, NEW r \in BOOLEAN, NEW f \in BOOLEAN,
             SheetAppend(p, n, r, f)
      PROVE  HistoryTyped'
  BY <1>0, <1>8 DEF SheetAppend, Unclaim, Count, TwoOrMore, Excuse, HandlersInv,
      HopPoints
<1>9. ASSUME NEW saved \in BOOLEAN, Record(p, saved)
      PROVE  HistoryTyped'
  BY <1>0, <1>9 DEF Record, Excuse, HandlersInv, HopPoints
<1>10. CASE \/ Advance(p) \/ AdvanceFails(p)
           \/ \E a \in BOOLEAN : \/ Requeue(p, a) \/ GiveUp(p, a)
                                 \/ NoFinalizedLenders(p, a) \/ AllFailed(p, a)
                                 \/ Settle(p, a)
  BY <1>0, <1>10 DEF Advance, AfterAdvance, AdvanceFails, Requeue, Throws, GiveUp,
      EndJob, NoFinalizedLenders, AllFailed, Settle
<1>11. CASE WorkerSelect(p)
  BY <1>0, <1>11 DEF WorkerSelect, Excuse, RowsTyped
<1>12. CASE JobThrows(p) \/ (\E saved \in BOOLEAN : CatchJob(p, saved))
  BY <1>0, <1>12 DEF JobThrows, CatchJob, Throws
<1> QED
  BY <1>e, <1>1, <1>2, <1>3, <1>4, <1>5, <1>6, <1>7, <1>8, <1>9, <1>10, <1>11,
     <1>12 DEF Progress

\* A step of one handler moves no other.
Alone(p) ==
  \A q \in Procs \ {p} :
    /\ pc'[q] = pc[q] /\ kind'[q] = kind[q] /\ todo'[q] = todo[q]
    /\ cur'[q] = cur[q] /\ ok'[q] = ok[q] /\ got'[q] = got[q]

LEMMA ProgressAlone ==
  ASSUME Inv0, NEW p \in Procs, Progress(p)
  PROVE  Alone(p)
<1> USE DEF Alone, Done, GoTo
<1>0. HandlersTyped
  BY DEF Inv0, HandlersInv
<1>1. CASE ClaimLock(p) \/ LockBusy(p) \/ ClaimLost(p)
  BY <1>0, <1>1 DEF ClaimLock, LockBusy, ClaimLost, HandlersTyped
<1>2. CASE Release(p) \/ MarkRow(p) \/ EnqueueJob(p)
  BY <1>0, <1>2 DEF Release, MarkRow, EnqueueJob, HandlersTyped
<1>3. CASE PassGate(p) \/ HoldBack(p) \/ SelectLenders(p) \/ SelectThrows(p)
  BY <1>0, <1>3 DEF PassGate, HoldBack, SelectLenders, SelectThrows, HandlersTyped
<1>4. CASE EnterDispatch(p) \/ FailDispatch(p) \/ FinishDispatch(p)
  BY <1>0, <1>4 DEF EnterDispatch, MayEnter, FailDispatch, Throws, FinishDispatch,
      HandlersTyped
<1>5. ASSUME NEW l \in Lenders, TakeNext(p, l)
      PROVE  Alone(p)
  BY <1>0, <1>5 DEF TakeNext, HandlersTyped
<1>6. ASSUME NEW n \in 0..2, NEW r \in BOOLEAN, NEW t \in BOOLEAN,
             ConnectorSend(p, n, r, t)
      PROVE  Alone(p)
  BY <1>0, <1>6 DEF ConnectorSend, Deliver, Arrive, HandlersTyped
<1>7. ASSUME NEW n \in 0..2, NEW r \in BOOLEAN, EmailSend(p, n, r)
      PROVE  Alone(p)
  BY <1>0, <1>7 DEF EmailSend, Deliver, Arrive, HandlersTyped
<1>e. ASSUME NEW n \in 0..1, EmailThrows(p, n)
      PROVE  Alone(p)
  BY <1>0, <1>e DEF EmailThrows, Throws, Arrive, HandlersTyped
<1>8. CASE SheetClaim(p)
  BY <1>0, <1>8 DEF SheetClaim, AlreadyClaimed, HandlersTyped
<1>9. ASSUME NEW d \in BOOLEAN, SheetUnavailable(p, d)
      PROVE  Alone(p)
  BY <1>0, <1>9 DEF SheetUnavailable, HandlersTyped
<1>10. ASSUME NEW n \in 0..1, NEW r \in BOOLEAN, NEW f \in BOOLEAN,
             SheetAppend(p, n, r, f)
      PROVE  Alone(p)
  BY <1>0, <1>10 DEF SheetAppend, HandlersTyped
<1>11. ASSUME NEW saved \in BOOLEAN, Record(p, saved)
      PROVE  Alone(p)
  BY <1>0, <1>11 DEF Record, HandlersTyped
<1>12. CASE Advance(p) \/ AdvanceFails(p)
  BY <1>0, <1>12 DEF Advance, AfterAdvance, AdvanceFails, HandlersTyped
<1>13. CASE \/ WorkerSelect(p)
           \/ \E a \in BOOLEAN : \/ Requeue(p, a) \/ GiveUp(p, a)
                                 \/ NoFinalizedLenders(p, a)
  BY <1>0, <1>13 DEF Requeue, Throws, AfterRequeue, GiveUp, EndJob, WorkerSelect,
      NoFinalizedLenders, HandlersTyped
<1>14. CASE \E a \in BOOLEAN : AllFailed(p, a) \/ Settle(p, a)
  BY <1>0, <1>14 DEF AllFailed, EndJob, Throws, Settle, HandlersTyped
<1>15. CASE JobThrows(p) \/ (\E saved \in BOOLEAN : CatchJob(p, saved))
  BY <1>0, <1>15 DEF JobThrows, CatchJob, Throws, HandlersTyped
<1> QED
  BY <1>e, <1>1, <1>2, <1>3, <1>4, <1>5, <1>6, <1>7, <1>8, <1>9, <1>10, <1>11,
     <1>12, <1>13, <1>14, <1>15 DEF Progress

\* A step that leaves the job alone, gives it no new owner and is not about leaving
\* it, other than by an exception.
KeepsJob(p) ==
  /\ UNCHANGED <<job, attempts>>
  /\ kind'[p] = "worker" => kind[p] = "worker"
  /\ ~Leaving(p) /\ pc'[p] # "giveUp"
  /\ pc'[p] = "catch" => kind'[p] = "worker"

LEMMA JobKept ==
  ASSUME Inv0, JobInv, NEW p \in Procs, KeepsJob(p),
         \A q \in Procs \ {p} : pc'[q] = pc[q] /\ kind'[q] = kind[q]
  PROVE  JobInv'
<1>1. kind'[p] = "worker" => p \in Workers /\ kind[p] = "worker" /\ job' = "running"
  BY DEF JobInv, KeepsJob, Leaving
<1>2. \A q \in Procs : Leaving(q)' => kind'[q] = "worker"
  BY DEF JobInv, KeepsJob, Leaving
<1>3. attempts \in Nat /\ (job' \in OpenJobs => attempts <= MaxUnsigned + MaxSpared)
  BY AttemptsAssumption DEF Inv0, RowsTyped, JobInv, KeepsJob, MaySpare, OpenJobs
<1>4. (\E q \in Procs : Leaving(q)') => attempts' <= MaxUnsigned + MaxSpared
  BY <1>1, <1>2, <1>3 DEF JobInv, KeepsJob, Leaving, OpenJobs
<1>5. (\E q \in Procs : Leaving(q)) => \E q \in Procs : Leaving(q)'
  BY DEF KeepsJob, Leaving
<1>6. /\ job' = "pending" => \/ MaySpare'
                             \/ /\ attempts' = MaxUnsigned + MaxSpared
                                /\ \E q \in Procs : Leaving(q)'
      /\ job' = "running" => MaySpare'
      /\ job' = "none" => attempts' = 0
  BY <1>5 DEF JobInv, KeepsJob, MaySpare
<1> QED
  BY <1>1, <1>2, <1>4, <1>6 DEF JobInv, KeepsJob, Leaving

\* A worker that ends writes the job's next state.
LEMMA JobEnds ==
  ASSUME Inv0, JobInv, NEW p \in Procs, kind[p] = "worker", Done(p),
         \/ job' \in {"running", "completed", "failed", "pending"}
         \/ job' = "none" /\ attempts' = 0,
         job' \in OpenJobs => MaySpare'
  PROVE  JobInv'
<1>1. \A q \in Procs \ {p} : pc'[q] = pc[q] /\ kind'[q] = kind[q]
  BY DEF Inv0, HandlersInv, HandlersTyped, Done, GoTo
<1>2. kind'[p] # "worker" /\ pc'[p] = "idle"
  BY DEF Inv0, HandlersInv, HandlersTyped, Done, GoTo
<1> QED
  BY <1>1, <1>2 DEF JobInv, Leaving, OpenJobs

\* A worker whose update lost its answer, or whose query failed, goes to its catch.
LEMMA JobThrown ==
  ASSUME Inv0, JobInv, NEW p \in Procs, kind[p] = "worker", Throws(p),
         job' \in {"running", "completed", "failed", "pending"},
         job' = "running" => MaySpare',
         attempts' \in Nat, attempts' <= MaxUnsigned + MaxSpared
  PROVE  JobInv'
<1>1. \A q \in Procs \ {p} : pc'[q] = pc[q] /\ kind'[q] = kind[q]
  BY DEF Inv0, HandlersInv, HandlersTyped, Throws, GoTo
<1>2. kind'[p] = "worker" /\ pc'[p] = "catch" /\ p \in Workers
  BY DEF Inv0, HandlersInv, HandlersTyped, Throws, GoTo, JobInv
<1>3. attempts' < MaxUnsigned + MaxSpared \/ attempts' = MaxUnsigned + MaxSpared
  BY AttemptsAssumption
<1> QED
  BY <1>1, <1>2, <1>3 DEF JobInv, Leaving, MaySpare

\* What a handler or tick does to the job.
LEMMA ProgressJob ==
  ASSUME Inv0, JobInv, NEW p \in Procs, Progress(p)
  PROVE  JobInv'
<1> USE DEF KeepsJob, Leaving, GoTo, Done, database
<1>0. HandlersTyped /\ RowsTyped
  BY DEF Inv0, HandlersInv
<1>a. \A q \in Procs \ {p} : pc'[q] = pc[q] /\ kind'[q] = kind[q]
  BY ProgressAlone DEF Alone
<1>b. KeepsJob(p) => JobInv'
  BY <1>a, JobKept
<1>1. CASE ClaimLock(p) \/ LockBusy(p) \/ ClaimLost(p)
  BY <1>0, <1>1, <1>b DEF ClaimLock, LockBusy, ClaimLost, HandlersTyped
<1>2. CASE Release(p) \/ MarkRow(p)
  BY <1>0, <1>2, <1>b DEF Release, MarkRow, HandlersTyped
<1>3. CASE PassGate(p) \/ HoldBack(p) \/ SelectLenders(p) \/ SelectThrows(p)
  BY <1>0, <1>3, <1>b DEF PassGate, HoldBack, SelectLenders, SelectThrows, HandlersTyped
<1>4. CASE EnterDispatch(p) \/ FailDispatch(p) \/ FinishDispatch(p)
  BY <1>0, <1>4, <1>b DEF EnterDispatch, MayEnter, FailDispatch, Throws,
      FinishDispatch, HandlersTyped
<1>5. ASSUME NEW l \in Lenders, TakeNext(p, l)
      PROVE  JobInv'
  BY <1>0, <1>5, <1>b DEF TakeNext, FirstHop, HandlersTyped
<1>6. ASSUME NEW n \in 0..2, NEW r \in BOOLEAN, NEW t \in BOOLEAN,
             ConnectorSend(p, n, r, t)
      PROVE  JobInv'
  BY <1>0, <1>6, <1>b DEF ConnectorSend, Deliver, Arrive, HandlersTyped
<1>7. ASSUME NEW n \in 0..2, NEW r \in BOOLEAN, EmailSend(p, n, r)
      PROVE  JobInv'
  BY <1>0, <1>7, <1>b DEF EmailSend, Deliver, Arrive, HandlersTyped
<1>e. ASSUME NEW n \in 0..1, EmailThrows(p, n)
      PROVE  JobInv'
  BY <1>0, <1>e, <1>b DEF EmailThrows, Throws, Arrive, HandlersTyped
<1>8. CASE SheetClaim(p)
  BY <1>0, <1>8, <1>b DEF SheetClaim, HandlersTyped
<1>9. ASSUME NEW d \in BOOLEAN, SheetUnavailable(p, d)
      PROVE  JobInv'
  BY <1>0, <1>9, <1>b DEF SheetUnavailable, HandlersTyped
<1>10. ASSUME NEW n \in 0..1, NEW r \in BOOLEAN, NEW f \in BOOLEAN,
             SheetAppend(p, n, r, f)
      PROVE  JobInv'
  BY <1>0, <1>10, <1>b DEF SheetAppend, HandlersTyped
<1>11. ASSUME NEW saved \in BOOLEAN, Record(p, saved)
      PROVE  JobInv'
  BY <1>0, <1>11, <1>b DEF Record, HandlersTyped
<1>12. CASE Advance(p) \/ AdvanceFails(p)
  BY <1>0, <1>12, <1>b DEF Advance, AdvanceFails, AfterAdvance, HandlersTyped
<1>13. CASE WorkerSelect(p)
  BY <1>0, <1>13, <1>b DEF WorkerSelect, HandlersTyped
<1>14. CASE EnqueueJob(p)
  <2>1. kind'[p] # "worker" /\ ~Leaving(p) /\ pc'[p] = "idle"
    BY <1>0, <1>14 DEF EnqueueJob, HandlersTyped
  <2>2. CASE job # "none"
    BY <1>14, <2>1, <2>2, <1>b DEF EnqueueJob
  <2>3. CASE job = "none"
    <3>1. job' = "pending" /\ attempts' = 0
      BY <1>14, <2>3 DEF EnqueueJob, JobInv
    <3>2. \A q \in Procs : kind'[q] # "worker" /\ ~Leaving(q)'
      BY <1>a, <2>1, <2>3 DEF JobInv
    <3> QED
      BY <3>1, <3>2, AttemptsAssumption DEF JobInv, MaySpare, OpenJobs
  <2> QED
    BY <2>2, <2>3
<1>15. ASSUME NEW a \in BOOLEAN, Requeue(p, a)
       PROVE  JobInv'
  <2>1. kind[p] = "worker" /\ job' = "pending" /\ attempts' = attempts + 1
    BY <1>15 DEF Requeue, NextAttempts
  <2>2. attempts < MaxUnsigned + MaxSpared
    BY <1>15 DEF Requeue, JobInv, OpenJobs, MaySpare
  <2>3. attempts' \in Nat /\ attempts' <= MaxUnsigned + MaxSpared
    BY <1>0, <2>1, <2>2, AttemptsAssumption DEF RowsTyped
  <2>4. CASE ~a
    <3>1. Throws(p)
      BY <1>15, <2>4 DEF Requeue
    <3> QED
      BY <2>1, <2>3, <3>1, JobThrown
  <2>5. CASE a /\ attempts + 1 >= MaxUnsigned
    <3>1. kind'[p] = "worker" /\ pc'[p] = "giveUp"
      BY <1>0, <1>15, <2>5 DEF Requeue, AfterRequeue, NextAttempts, HandlersTyped
    <3>2. attempts' < MaxUnsigned + MaxSpared \/ attempts' = MaxUnsigned + MaxSpared
      BY <2>3, AttemptsAssumption
    <3> QED
      BY <1>a, <2>1, <2>3, <3>1, <3>2 DEF JobInv, MaySpare
  <2>6. CASE a /\ ~(attempts + 1 >= MaxUnsigned)
    <3>1. Done(p)
      BY <1>15, <2>6 DEF Requeue, AfterRequeue, NextAttempts
    <3>2. attempts' < MaxUnsigned + MaxSpared
      BY <1>0, <2>1, <2>6, AttemptsAssumption DEF RowsTyped
    <3> QED
      BY <2>1, <3>1, <3>2, JobEnds DEF MaySpare
  <2> QED
    BY <2>4, <2>5, <2>6
<1>16. ASSUME NEW a \in BOOLEAN,
              \/ GiveUp(p, a) \/ NoFinalizedLenders(p, a)
              \/ AllFailed(p, a) \/ Settle(p, a)
       PROVE  JobInv'
  <2>1. kind[p] = "worker" /\ job \in OpenJobs
    BY <1>16 DEF GiveUp, NoFinalizedLenders, AllFailed, Settle, JobInv, OpenJobs
  <2>2. attempts' = attempts /\ attempts \in Nat /\ attempts <= MaxUnsigned + MaxSpared
    BY <1>0, <1>16, <2>1, AttemptsAssumption
    DEF GiveUp, NoFinalizedLenders, AllFailed, Settle, EndJob, RowsTyped, JobInv,
        MaySpare
  <2>3. /\ job' \in {"completed", "failed"}
        /\ IF a THEN Done(p) ELSE Throws(p)
    BY <1>16 DEF GiveUp, NoFinalizedLenders, AllFailed, Settle, EndJob
  <2>4. job' \notin OpenJobs
    BY <2>3 DEF OpenJobs
  <2>5. CASE a
    BY <2>1, <2>3, <2>4, <2>5, JobEnds
  <2>6. CASE ~a
    <3>1. Throws(p)
      BY <2>3, <2>6
    <3>2. job' # "running"
      BY <2>3
    <3> QED
      BY <2>1, <2>2, <2>3, <3>1, <3>2, JobThrown
  <2> QED
    BY <2>5, <2>6
<1>17. CASE JobThrows(p)
  <2>1. kind[p] = "worker" /\ Throws(p) /\ job' = job /\ attempts' = attempts
    BY <1>17 DEF JobThrows
  <2>2. job \in OpenJobs /\ job \in {"running", "completed", "failed", "pending"}
    BY <1>17 DEF JobThrows, JobInv, OpenJobs
  <2>3. attempts \in Nat /\ attempts <= MaxUnsigned + MaxSpared
    BY <1>0, <2>2, AttemptsAssumption DEF RowsTyped, JobInv, MaySpare, OpenJobs
  <2>4. job' = "running" => MaySpare'
    BY <2>1 DEF JobInv, MaySpare
  <2> QED
    BY <2>1, <2>2, <2>3, <2>4, JobThrown
<1>18. ASSUME NEW saved \in BOOLEAN, CatchJob(p, saved)
       PROVE  JobInv'
  <2>1. kind[p] = "worker" /\ job # "none"
    BY <1>18 DEF CatchJob, JobInv
  <2>2. Done(p)
    BY <1>18 DEF CatchJob
  <2>3. CASE ~saved
    <3>1. UNCHANGED <<job, attempts>> /\ (job = "pending" => MaySpare)
      BY <1>18, <2>1, <2>3 DEF CatchJob, MayLeaveJob
    <3>2. job # "running" => (job' \in OpenJobs => MaySpare')
      BY <3>1 DEF OpenJobs, MaySpare
    <3>3. job = "running" => MaySpare'
      BY <1>18, <2>1, <3>1 DEF CatchJob, JobInv, MaySpare, OpenJobs
    <3> QED
      BY <1>0, <2>1, <2>2, <3>1, <3>2, <3>3, JobEnds DEF RowsTyped, JobStates
  <2>4. CASE saved
    <3>1. attempts' = attempts + 1 /\ job' = AfterThrow
      BY <1>18, <2>4 DEF CatchJob, NextAttempts
    <3>2. \/ job' = "failed"
          \/ job' = "pending" /\ attempts' < MaxUnsigned + MaxSpared
      BY <1>0, <3>1, AttemptsAssumption DEF AfterThrow, NextAttempts, RowsTyped
    <3> QED
      BY <2>1, <2>2, <3>2, JobEnds DEF MaySpare, OpenJobs
  <2> QED
    BY <2>3, <2>4
<1> QED
  BY <1>e, <1>1, <1>2, <1>3, <1>4, <1>5, <1>6, <1>7, <1>8, <1>9, <1>10, <1>11,
     <1>12, <1>13, <1>14, <1>15, <1>16, <1>17, <1>18 DEF Progress

Inv1 == Inv0 /\ JobInv

LEMMA InitInv1 == Init => Inv1
<1>1. Init => JobInv
  BY DEF Init, JobInv, Leaving
<1> QED
  BY <1>1, InitInv0 DEF Inv1

LEMMA StepInv1 == Inv1 /\ [Next]_vars => Inv1'
<1> SUFFICES ASSUME Inv1, [Next]_vars PROVE Inv1'
  OBVIOUS
<1> USE DEF Inv1
<1>1. ASSUME NEW p \in Senders, Request(p) PROVE Inv1'
  <2>1. /\ kind'[p] # "worker" /\ pc[p] = "idle" /\ ~Leaving(p)'
        /\ \A q \in Procs \ {p} : kind'[q] = kind[q] /\ pc'[q] = pc[q]
        /\ UNCHANGED <<job, attempts>>
    BY <1>1, RequestsAssumption
    DEF GoTo, Inv0, HandlersInv, HandlersTyped, Procs, Request, RequestKinds,
        RequestSend, RequestResend, RequestApi, RequestMark, FinalizeSigned, Start,
        Leaving, database
  <2>2. JobInv'
    BY <2>1 DEF JobInv, Leaving, MaySpare, Procs
  <2> QED
    BY <1>1, <2>2, RequestInv0
<1>2. ASSUME NEW w \in Workers, WorkerClaim(w) PROVE Inv1'
  <2>1. Inv0'
    BY <1>2 DEF Inv0, RowsTyped, JobStates, HandlersInv, HandlersTyped, HopPoints,
        Points, Kinds, HistoryTyped, Procs, WorkerClaim, GoTo, history
  <2>2. JobInv'
    <3>1. w \in Procs /\ pc'[w] = "gate" /\ kind'[w] = "worker"
      BY <1>2 DEF Inv0, HandlersInv, HandlersTyped, Procs, WorkerClaim, GoTo
    <3>2. \A q \in Procs \ {w} : kind'[q] = kind[q] /\ pc'[q] = pc[q]
      BY <1>2 DEF Inv0, HandlersInv, HandlersTyped, WorkerClaim, GoTo
    <3>3. job = "pending" /\ job' = "running" /\ attempts' = attempts
      BY <1>2 DEF WorkerClaim, ReadyJobs
    <3>4. \A q \in Procs : kind[q] # "worker" /\ ~Leaving(q)
      BY <1>2, <3>3 DEF WorkerClaim, Due, JobInv, Leaving
    <3>5. MaySpare
      BY <3>3, <3>4 DEF JobInv
    <3> QED
      BY <1>2, <3>1, <3>2, <3>3, <3>4, <3>5 DEF JobInv, Leaving, MaySpare
  <2> QED
    BY <2>1, <2>2
<1>3. ASSUME NEW p \in Procs, Progress(p) PROVE Inv1'
  BY <1>3, ProgressHandlers, ProgressRows, ProgressHistory, ProgressJob DEF Inv0
<1>4. ASSUME NEW p \in Procs, Crash(p) PROVE Inv1'
  <2>1. HandlersInv'
    BY <1>4, DoneTyped, ThrowsTyped DEF Inv0, Crash
  <2>2. HistoryTyped' /\ RowsTyped'
    BY <1>4 DEF Inv0, HandlersInv, HopPoints, HistoryTyped, RowsTyped, Crash, Excuse,
        database
  <2>3. JobInv'
    <3>1. /\ UNCHANGED <<job, attempts>>
          /\ kind[p] = "worker" /\ job = "pending" => MaySpare
      BY <1>4 DEF Crash, MayLeaveJob, database
    <3>2. kind'[p] # "worker" /\ pc'[p] = "idle"
      BY <1>4 DEF Inv0, HandlersInv, HandlersTyped, Crash, Done, GoTo
    <3>3. \A q \in Procs \ {p} : kind'[q] = kind[q] /\ pc'[q] = pc[q]
      BY <1>4 DEF Inv0, HandlersInv, HandlersTyped, Crash, Done, GoTo
    <3>4. CASE kind[p] = "worker"
      <4>1. \A q \in Procs : q # p => kind[q] # "worker" /\ ~Leaving(q)
        BY <3>4 DEF JobInv
      <4> QED
        BY <3>1, <3>2, <3>3, <3>4, <4>1 DEF JobInv, Leaving, MaySpare
    <3>5. CASE kind[p] # "worker"
      <4>1. ~Leaving(p)
        BY <3>5 DEF JobInv
      <4> QED
        BY <3>1, <3>2, <3>3, <3>5, <4>1 DEF JobInv, Leaving, MaySpare
    <3> QED
      BY <3>4, <3>5
  <2> QED
    BY <2>1, <2>2, <2>3 DEF Inv0
<1>5. CASE RequestResignature \/ MoveStage \/ LockAges
  <2>1. RowsTyped'
    BY <1>5 DEF Inv0, RowsTyped, Stages, LockStates, RequestResignature, MoveStage,
        Moves, LockAges
  <2>2. UNCHANGED <<pc, kind, todo, cur, ok, got, mails, rows, stolen, excused,
                    unclaimed, job, attempts>>
    BY <1>5 DEF RequestResignature, MoveStage, LockAges, process, history
  <2> QED
    BY <2>1, <2>2 DEF Inv0, HandlersInv, HandlersTyped, HistoryTyped, JobInv,
        Leaving, MaySpare
<1>6. CASE UNCHANGED vars
  BY <1>6 DEF vars, Inv0, RowsTyped, HandlersInv, HandlersTyped, HistoryTyped, JobInv,
      Leaving, MaySpare
<1> QED
  BY <1>1, <1>2, <1>3, <1>4, <1>5, <1>6 DEF Next

LEMMA Inv1Always == Spec => []Inv1
BY InitInv1, StepInv1, PTL DEF Spec, SafetySpec

\* Every variable keeps its type: the attempts of the job pass
\* MAX_UNSIGNED_ATTEMPTS only as often as giving it up failed, and once more when
\* that failure is counted (lenderPackageWorker.ts:57-79, 207-231).
THEOREM TypeCorrect == Spec => []TypeOK
<1>1. Inv1 => TypeOK
  BY DEF Inv1, Inv0, HandlersInv, TypeOK
<1> QED
  BY Inv1Always, <1>1, PTL

\* However many instances poll the queue, at most one works on the job, and the
\* row says so (lenderPackageWorker.ts:38-54).
THEOREM OneOwner == Spec => []JobHasOneOwner
<1>1. Inv1 => JobHasOneOwner
  BY DEF Inv1, JobInv, JobHasOneOwner, Procs
<1> QED
  BY Inv1Always, <1>1, PTL

-------------------------------------------------------------------------------
(* The lock *)

LockKinds == {"send", "resend", "api"}

\* Which kinds of handler get where.
KindAt(p) ==
  /\ pc[p] \in {"claim", "release"} => kind[p] \in LockKinds
  /\ pc[p] = "select" => kind[p] = "send"
  /\ pc[p] = "mark" => kind[p] = "mark"
  /\ pc[p] = "idle" => kind[p] = "none"
  /\ pc[p] \in {"giveUp", "catch"} => kind[p] = "worker"
  /\ pc[p] \in DispatchPoints \cup {"guard"} => kind[p] \in LockKinds \cup {"worker"}

KindInv == \A p \in Procs : KindAt(p)

LEMMA ProgressKind ==
  ASSUME Inv0, KindInv, NEW p \in Procs, Progress(p)
  PROVE  KindInv'
<1> USE DEF KindAt, LockKinds, DispatchPoints, Done, GoTo
<1>0. HandlersTyped /\ KindAt(p)
  BY DEF Inv0, HandlersInv, KindInv
<1>a. SUFFICES KindAt(p)'
  BY ProgressAlone DEF Alone, KindInv
<1>1. CASE ClaimLock(p) \/ LockBusy(p) \/ ClaimLost(p)
  BY <1>0, <1>1 DEF ClaimLock, LockBusy, ClaimLost, HandlersTyped
<1>2. CASE Release(p) \/ MarkRow(p) \/ EnqueueJob(p)
  BY <1>0, <1>2 DEF Release, MarkRow, EnqueueJob, HandlersTyped
<1>3. CASE PassGate(p) \/ HoldBack(p) \/ SelectLenders(p) \/ SelectThrows(p)
  BY <1>0, <1>3 DEF PassGate, HoldBack, SelectLenders, SelectThrows, HandlersTyped
<1>4. CASE EnterDispatch(p) \/ FailDispatch(p) \/ FinishDispatch(p)
  BY <1>0, <1>4 DEF EnterDispatch, MayEnter, FailDispatch, Throws, FinishDispatch,
      HandlersTyped
<1>5. ASSUME NEW l \in Lenders, TakeNext(p, l)
      PROVE  KindAt(p)'
  BY <1>0, <1>5 DEF TakeNext, FirstHop, HandlersTyped
<1>6. ASSUME NEW n \in 0..2, NEW r \in BOOLEAN, NEW t \in BOOLEAN,
             ConnectorSend(p, n, r, t)
      PROVE  KindAt(p)'
  BY <1>0, <1>6 DEF ConnectorSend, Deliver, Arrive, HandlersTyped
<1>7. ASSUME NEW n \in 0..2, NEW r \in BOOLEAN, EmailSend(p, n, r)
      PROVE  KindAt(p)'
  BY <1>0, <1>7 DEF EmailSend, Deliver, Arrive, HandlersTyped
<1>e. ASSUME NEW n \in 0..1, EmailThrows(p, n)
      PROVE  KindAt(p)'
  BY <1>0, <1>e DEF EmailThrows, Throws, Arrive, HandlersTyped
<1>8. CASE SheetClaim(p)
  BY <1>0, <1>8 DEF SheetClaim, AlreadyClaimed, HandlersTyped
<1>9. ASSUME NEW d \in BOOLEAN, SheetUnavailable(p, d)
      PROVE  KindAt(p)'
  BY <1>0, <1>9 DEF SheetUnavailable, HandlersTyped
<1>10. ASSUME NEW n \in 0..1, NEW r \in BOOLEAN, NEW f \in BOOLEAN,
             SheetAppend(p, n, r, f)
      PROVE  KindAt(p)'
  BY <1>0, <1>10 DEF SheetAppend, HandlersTyped
<1>11. ASSUME NEW saved \in BOOLEAN, Record(p, saved)
      PROVE  KindAt(p)'
  BY <1>0, <1>11 DEF Record, HandlersTyped
<1>12. CASE Advance(p) \/ AdvanceFails(p)
  BY <1>0, <1>12 DEF Advance, AfterAdvance, AdvanceFails, HandlersTyped
<1>13. CASE \/ WorkerSelect(p)
           \/ \E a \in BOOLEAN : \/ Requeue(p, a) \/ GiveUp(p, a)
                                 \/ NoFinalizedLenders(p, a)
  BY <1>0, <1>13 DEF Requeue, Throws, AfterRequeue, GiveUp, EndJob, WorkerSelect,
      NoFinalizedLenders, HandlersTyped
<1>14. CASE \E a \in BOOLEAN : AllFailed(p, a) \/ Settle(p, a)
  BY <1>0, <1>14 DEF AllFailed, EndJob, Throws, Settle, HandlersTyped
<1>15. CASE JobThrows(p) \/ (\E saved \in BOOLEAN : CatchJob(p, saved))
  BY <1>0, <1>15 DEF JobThrows, CatchJob, Throws, HandlersTyped
<1> QED
  BY <1>e, <1>1, <1>2, <1>3, <1>4, <1>5, <1>6, <1>7, <1>8, <1>9, <1>10, <1>11,
     <1>12, <1>13, <1>14, <1>15 DEF Progress

\* Unless it was stolen, the lock has one holder and is not free while held.
LockInv ==
  ~stolen =>
    /\ \A p \in Procs : HoldsLock(p) => lock # "free"
    /\ \A p, q \in Procs : HoldsLock(p) /\ HoldsLock(q) => p = q

\* A handler comes to hold the lock by ClaimLock alone, and frees it as it lets go.
KeepsLock(p) ==
  /\ HoldsLock(p)' => HoldsLock(p)
  /\ stolen' = stolen
  /\ \/ lock' = lock \/ lock' = "held"
     \/ HoldsLock(p) /\ ~HoldsLock(p)'

LEMMA ProgressKeepsLock ==
  ASSUME Inv0, KindInv, NEW p \in Procs, Progress(p), ~ClaimLock(p)
  PROVE  KeepsLock(p)
<1> USE DEF KeepsLock, HoldsLock, KindAt, LockKinds, DispatchPoints, Done, GoTo,
    database, history
<1>0. HandlersTyped /\ KindAt(p)
  BY DEF Inv0, HandlersInv, KindInv
<1>1. CASE ClaimLock(p)
  BY <1>1
<1>2. CASE LockBusy(p) \/ ClaimLost(p)
  BY <1>0, <1>2 DEF LockBusy, ClaimLost, HandlersTyped
<1>3. CASE Release(p)
  BY <1>0, <1>3 DEF Release, HandlersTyped
<1>4. CASE PassGate(p) \/ HoldBack(p) \/ SelectLenders(p) \/ SelectThrows(p)
  BY <1>0, <1>4 DEF PassGate, HoldBack, SelectLenders, SelectThrows, HandlersTyped
<1>5. CASE MarkRow(p) \/ EnqueueJob(p)
  BY <1>0, <1>5 DEF MarkRow, EnqueueJob, HandlersTyped
<1>6. CASE EnterDispatch(p)
  BY <1>0, <1>6 DEF EnterDispatch, MayEnter, HandlersTyped
<1>7. CASE FailDispatch(p)
  BY <1>0, <1>7 DEF FailDispatch, Throws, HandlersTyped
<1>8. CASE FinishDispatch(p)
  BY <1>0, <1>8 DEF FinishDispatch, HandlersTyped
<1>9. ASSUME NEW l \in Lenders, TakeNext(p, l)
      PROVE  KeepsLock(p)
  BY <1>0, <1>9 DEF TakeNext, HandlersTyped
<1>10. ASSUME NEW n \in 0..2, NEW r \in BOOLEAN, NEW t \in BOOLEAN,
             ConnectorSend(p, n, r, t)
      PROVE  KeepsLock(p)
  BY <1>0, <1>10 DEF ConnectorSend, Deliver, Arrive, HandlersTyped
<1>11. ASSUME NEW n \in 0..2, NEW r \in BOOLEAN, EmailSend(p, n, r)
      PROVE  KeepsLock(p)
  BY <1>0, <1>11 DEF EmailSend, Deliver, Arrive, HandlersTyped
<1>e. ASSUME NEW n \in 0..1, EmailThrows(p, n)
      PROVE  KeepsLock(p)
  BY <1>0, <1>e DEF EmailThrows, Throws, Arrive, HandlersTyped
<1>12. CASE SheetClaim(p)
  BY <1>0, <1>12 DEF SheetClaim, AlreadyClaimed, HandlersTyped
<1>13. ASSUME NEW d \in BOOLEAN, SheetUnavailable(p, d)
      PROVE  KeepsLock(p)
  BY <1>0, <1>13 DEF SheetUnavailable, HandlersTyped
<1>14. ASSUME NEW n \in 0..1, NEW r \in BOOLEAN, NEW f \in BOOLEAN,
             SheetAppend(p, n, r, f)
      PROVE  KeepsLock(p)
  BY <1>0, <1>14 DEF SheetAppend, HandlersTyped
<1>15. ASSUME NEW saved \in BOOLEAN, Record(p, saved)
      PROVE  KeepsLock(p)
  BY <1>0, <1>15 DEF Record, HandlersTyped
<1>16. CASE Advance(p) \/ AdvanceFails(p)
  BY <1>0, <1>16 DEF Advance, AfterAdvance, AdvanceFails, HandlersTyped
<1>17. CASE \/ WorkerSelect(p)
           \/ \E a \in BOOLEAN : \/ Requeue(p, a) \/ GiveUp(p, a)
                                 \/ NoFinalizedLenders(p, a)
  BY <1>0, <1>17 DEF Requeue, Throws, AfterRequeue, GiveUp, EndJob, WorkerSelect,
      NoFinalizedLenders, HandlersTyped
<1>18. CASE \E a \in BOOLEAN : AllFailed(p, a) \/ Settle(p, a)
  BY <1>0, <1>18 DEF AllFailed, EndJob, Throws, Settle, HandlersTyped
<1>19. CASE JobThrows(p) \/ (\E saved \in BOOLEAN : CatchJob(p, saved))
  BY <1>0, <1>19 DEF JobThrows, CatchJob, Throws, HandlersTyped
<1> QED
  BY <1>e, <1>1, <1>2, <1>3, <1>4, <1>5, <1>6, <1>7, <1>8, <1>9, <1>10, <1>11,
     <1>12, <1>13, <1>14, <1>15, <1>16, <1>17, <1>18, <1>19 DEF Progress

LEMMA ProgressLock ==
  ASSUME Inv0, KindInv, LockInv, NEW p \in Procs, Progress(p)
  PROVE  LockInv'
<1> SUFFICES ASSUME ~stolen' PROVE
      /\ \A q \in Procs : HoldsLock(q)' => lock' # "free"
      /\ \A q, r \in Procs : HoldsLock(q)' /\ HoldsLock(r)' => q = r
  BY DEF LockInv
<1>1. \A q \in Procs \ {p} : HoldsLock(q)' <=> HoldsLock(q)
  BY ProgressAlone DEF Alone, HoldsLock
<1>2. CASE ClaimLock(p)
  <2>1. lock' = "held" /\ ~stolen
    BY <1>2 DEF ClaimLock
  <2>2. \A q \in Procs : ~HoldsLock(q)
    BY <1>2, <2>1 DEF ClaimLock, Claimable, LockInv
  <2> QED
    BY <1>1, <2>1, <2>2
<1>3. CASE ~ClaimLock(p)
  <2>1. KeepsLock(p)
    BY <1>3, ProgressKeepsLock
  <2> QED
    BY <1>1, <2>1 DEF KeepsLock, LockInv
<1> QED
  BY <1>2, <1>3

Inv2 == Inv1 /\ KindInv /\ LockInv

LEMMA InitInv2 == Init => Inv2
<1>1. Init => KindInv /\ LockInv
  BY DEF Init, KindInv, KindAt, LockInv, HoldsLock, DispatchPoints
<1> QED
  BY <1>1, InitInv1 DEF Inv2

LEMMA StepInv2 == Inv2 /\ [Next]_vars => Inv2'
<1> SUFFICES ASSUME Inv2, [Next]_vars PROVE KindInv' /\ LockInv'
  BY StepInv1 DEF Inv2
<1>0. Inv0 /\ HandlersTyped /\ KindInv /\ LockInv
  BY DEF Inv2, Inv1, Inv0, HandlersInv
<1>1. ASSUME NEW p \in Senders, Request(p) PROVE KindInv' /\ LockInv'
  <2>1. UNCHANGED <<lock, stolen>> /\ KindAt(p)' /\ ~HoldsLock(p)'
    BY <1>0, <1>1
    DEF HandlersTyped, Procs, Request, RequestSend, RequestResend, RequestApi,
        RequestMark, FinalizeSigned, Start, GoTo, database, history, KindAt,
        LockKinds, DispatchPoints, HoldsLock
  <2>2. \A q \in Procs \ {p} : pc'[q] = pc[q] /\ kind'[q] = kind[q]
    BY <1>0, <1>1
    DEF HandlersTyped, Procs, Request, RequestSend, RequestResend, RequestApi,
        RequestMark, FinalizeSigned, Start, GoTo
  <2> QED
    BY <1>0, <2>1, <2>2 DEF KindInv, KindAt, LockInv, HoldsLock
<1>2. ASSUME NEW w \in Workers, WorkerClaim(w) PROVE KindInv' /\ LockInv'
  <2>1. UNCHANGED <<lock, stolen>> /\ KindAt(w)' /\ ~HoldsLock(w)'
    BY <1>0, <1>2
    DEF HandlersTyped, Procs, WorkerClaim, GoTo, history, KindAt, LockKinds,
        DispatchPoints, HoldsLock
  <2>2. \A q \in Procs \ {w} : pc'[q] = pc[q] /\ kind'[q] = kind[q]
    BY <1>0, <1>2 DEF HandlersTyped, Procs, WorkerClaim, GoTo
  <2> QED
    BY <1>0, <2>1, <2>2 DEF KindInv, KindAt, LockInv, HoldsLock
<1>3. ASSUME NEW p \in Procs, Progress(p) PROVE KindInv' /\ LockInv'
  BY <1>0, <1>3, ProgressKind, ProgressLock
<1>4. ASSUME NEW p \in Procs, Crash(p) PROVE KindInv' /\ LockInv'
  <2>1. UNCHANGED <<lock, stolen>> /\ KindAt(p)' /\ ~HoldsLock(p)'
    BY <1>0, <1>4
    DEF HandlersTyped, Crash, Done, GoTo, database, KindAt, LockKinds, DispatchPoints,
        HoldsLock
  <2>2. \A q \in Procs \ {p} : pc'[q] = pc[q] /\ kind'[q] = kind[q]
    BY <1>0, <1>4 DEF HandlersTyped, Crash, Done, GoTo
  <2> QED
    BY <1>0, <2>1, <2>2 DEF KindInv, KindAt, LockInv, HoldsLock
<1>5. CASE RequestResignature \/ MoveStage \/ LockAges \/ UNCHANGED vars
  <2>1. UNCHANGED <<pc, kind, stolen>> /\ (lock' = lock \/ lock' = "stale")
    BY <1>5 DEF RequestResignature, MoveStage, LockAges, process, history, vars
  <2> QED
    BY <1>0, <2>1 DEF KindInv, KindAt, LockInv, HoldsLock
<1> QED
  BY <1>1, <1>2, <1>3, <1>4, <1>5 DEF Next

LEMMA Inv2Always == Spec => []Inv2
BY InitInv2, StepInv2, PTL DEF Spec, SafetySpec

\* The ten-minute lock excludes, for any number of handlers, workers and lenders,
\* with handlers dying anywhere and releases or answers lost, unless it is taken
\* from a dispatch that outlived it (orchestrator.ts:247-289).
THEOREM LockExcludes == Spec => []LockedSendersExclusive
<1>1. Inv2 => LockedSendersExclusive
  BY DEF Inv2, LockInv, LockedSendersExclusive
<1> QED
  BY Inv2Always, <1>1, PTL

\* "A resend never overlaps another dispatch of this file" (resendToLender.ts:32) as
\* far as it is true: none by a request, only the worker's, unless the lock was
\* taken from a dispatch that outlived it.
THEOREM ResendOverlapsNoRequest ==
  Spec => [](~stolen =>
               \A p \in Procs, q \in Senders :
                 kind[p] = "resend" /\ Dispatching(p) /\ Dispatching(q) => p = q)
<1>1. ASSUME Inv2, ~stolen,
             NEW p \in Procs, NEW q \in Senders,
             kind[p] = "resend", Dispatching(p), Dispatching(q)
      PROVE  p = q
  <2>1. q \in Procs /\ kind[q] # "worker"
    BY <1>1, ProcsAssumption DEF Inv2, Inv1, JobInv, Procs
  <2>2. HoldsLock(p) /\ HoldsLock(q)
    BY <1>1, <2>1 DEF Inv2, KindInv, KindAt, LockKinds, Dispatching, HoldsLock
  <2> QED
    BY <1>1, <2>1, <2>2 DEF Inv2, LockInv
<1>2. Inv2 => (~stolen =>
                 \A p \in Procs, q \in Senders :
                   kind[p] = "resend" /\ Dispatching(p) /\ Dispatching(q) => p = q)
  BY <1>1
<1> QED
  BY Inv2Always, <1>2, PTL

\* When dispatches end within the lock's ten minutes, the lock of one at work is
\* neither old nor free.
FreshLockInv == ~stolen /\ \A p \in Procs : HoldsLock(p) => lock = "held"

LEMMA StepFreshLock ==
  ASSUME ~Stalls, Inv2, FreshLockInv, [Next]_vars
  PROVE  FreshLockInv'
<1>0. Inv0 /\ HandlersTyped /\ KindInv /\ LockInv
  BY DEF Inv2, Inv1, Inv0, HandlersInv
<1>1. ASSUME NEW p \in Procs, Progress(p) PROVE FreshLockInv'
  <2>1. \A q \in Procs \ {p} : HoldsLock(q)' <=> HoldsLock(q)
    BY <1>0, <1>1, ProgressAlone DEF Alone, HoldsLock
  <2>2. CASE ClaimLock(p)
    BY <2>2 DEF ClaimLock, Claimable, FreshLockInv
  <2>3. CASE ~ClaimLock(p)
    <3>1. KeepsLock(p)
      BY <1>0, <1>1, <2>3, ProgressKeepsLock
    <3> QED
      BY <1>0, <2>1, <3>1 DEF KeepsLock, LockInv, FreshLockInv
  <2> QED
    BY <2>2, <2>3
<1>2. ASSUME NEW p \in Procs, UNCHANGED <<lock, stolen>>, ~HoldsLock(p)',
             \A q \in Procs \ {p} : pc'[q] = pc[q] /\ kind'[q] = kind[q]
      PROVE  FreshLockInv'
  BY <1>2 DEF FreshLockInv, HoldsLock
<1>3. ASSUME NEW p \in Senders, Request(p) PROVE FreshLockInv'
  <2>1. UNCHANGED <<lock, stolen>> /\ ~HoldsLock(p)'
    BY <1>0, <1>3
    DEF HandlersTyped, Procs, Request, RequestSend, RequestResend, RequestApi,
        RequestMark, FinalizeSigned, Start, GoTo, database, history, DispatchPoints,
        HoldsLock
  <2>2. p \in Procs /\ \A q \in Procs \ {p} : pc'[q] = pc[q] /\ kind'[q] = kind[q]
    BY <1>0, <1>3
    DEF HandlersTyped, Procs, Request, RequestSend, RequestResend, RequestApi,
        RequestMark, FinalizeSigned, Start, GoTo
  <2> QED
    BY <1>2, <2>1, <2>2
<1>4. ASSUME NEW w \in Workers, WorkerClaim(w) PROVE FreshLockInv'
  <2>1. UNCHANGED <<lock, stolen>> /\ ~HoldsLock(w)'
    BY <1>0, <1>4 DEF HandlersTyped, Procs, WorkerClaim, GoTo, history, HoldsLock
  <2>2. w \in Procs /\ \A q \in Procs \ {w} : pc'[q] = pc[q] /\ kind'[q] = kind[q]
    BY <1>0, <1>4 DEF HandlersTyped, Procs, WorkerClaim, GoTo
  <2> QED
    BY <1>2, <2>1, <2>2
<1>5. ASSUME NEW p \in Procs, Crash(p) PROVE FreshLockInv'
  <2>1. UNCHANGED <<lock, stolen>> /\ ~HoldsLock(p)'
    BY <1>0, <1>5 DEF HandlersTyped, Crash, Done, GoTo, database, HoldsLock
  <2>2. \A q \in Procs \ {p} : pc'[q] = pc[q] /\ kind'[q] = kind[q]
    BY <1>0, <1>5 DEF HandlersTyped, Crash, Done, GoTo
  <2> QED
    BY <1>2, <2>1, <2>2
<1>6. CASE RequestResignature \/ MoveStage \/ LockAges \/ UNCHANGED vars
  <2>1. UNCHANGED <<pc, kind, stolen>>
    BY <1>6 DEF RequestResignature, MoveStage, LockAges, process, history, vars
  <2>2. lock' = lock \/ \A p \in Procs : ~HoldsLock(p)
    BY <1>6 DEF RequestResignature, MoveStage, LockAges, process, history, vars
  <2> QED
    BY <2>1, <2>2 DEF FreshLockInv, HoldsLock
<1> QED
  BY <1>1, <1>3, <1>4, <1>5, <1>6 DEF Next

\* When no dispatch outlives the ten minutes, the lock is never taken from one at
\* work: it excludes without exception, also across crashes and lost answers
\* (orchestrator.ts:227-234).
THEOREM NoStallsNoTheft ==
  ASSUME ~Stalls
  PROVE  Spec => [](~stolen /\ \A p, q \in Procs : HoldsLock(p) /\ HoldsLock(q) => p =
      q)
<1>1. Init => FreshLockInv
  BY DEF Init, FreshLockInv, HoldsLock
<1>2. Inv2 /\ FreshLockInv /\ [Next]_vars => FreshLockInv'
  BY StepFreshLock
<1>3. Inv2 /\ FreshLockInv =>
        ~stolen /\ \A p, q \in Procs : HoldsLock(p) /\ HoldsLock(q) => p = q
  BY DEF Inv2, LockInv, FreshLockInv
<1> QED
  BY InitInv2, StepInv2, <1>1, <1>2, <1>3, PTL DEF Spec, SafetySpec

-------------------------------------------------------------------------------
(* What was sent was delivered *)

MailsGrow == \A l \in Lenders : mails'[l] >= mails[l] /\ mails'[l] \in Nat

LEMMA ProgressMails ==
  ASSUME Inv0, NEW p \in Procs, Progress(p)
  PROVE  MailsGrow
<1> USE DEF MailsGrow, HistoryTyped, TwoOrMore
<1>0. HistoryTyped
  BY DEF Inv0
<1>1. CASE \/ ClaimLock(p) \/ LockBusy(p) \/ ClaimLost(p)
         \/ Release(p) \/ PassGate(p) \/ HoldBack(p)
         \/ SelectLenders(p) \/ SelectThrows(p) \/ MarkRow(p)
         \/ EnqueueJob(p) \/ EnterDispatch(p) \/ FailDispatch(p)
         \/ FinishDispatch(p)
  BY <1>0, <1>1 DEF ClaimLock, LockBusy, ClaimLost, Release, PassGate, HoldBack,
      SelectLenders, SelectThrows, MarkRow, EnqueueJob, EnterDispatch, MayEnter,
      FailDispatch, Throws, FinishDispatch, history
<1>2. ASSUME NEW l \in Lenders, TakeNext(p, l)
      PROVE  MailsGrow
  BY <1>0, <1>2 DEF TakeNext, history
<1>3. ASSUME NEW n \in 0..2, NEW r \in BOOLEAN, NEW t \in BOOLEAN,
             ConnectorSend(p, n, r, t)
      PROVE  MailsGrow
  BY <1>0, <1>3 DEF ConnectorSend, Deliver, Arrive, Count, history
<1>4. ASSUME NEW n \in 0..2, NEW r \in BOOLEAN, EmailSend(p, n, r)
      PROVE  MailsGrow
  BY <1>0, <1>4 DEF EmailSend, Deliver, Arrive, Count, history
<1>e. ASSUME NEW n \in 0..1, EmailThrows(p, n)
      PROVE  MailsGrow
  BY <1>0, <1>e DEF EmailThrows, Throws, Arrive, Count, history
<1>5. CASE SheetClaim(p)
  BY <1>0, <1>5 DEF SheetClaim, history
<1>6. ASSUME NEW d \in BOOLEAN, SheetUnavailable(p, d)
      PROVE  MailsGrow
  BY <1>0, <1>6 DEF SheetUnavailable, history
<1>7. ASSUME NEW n \in 0..1, NEW r \in BOOLEAN, NEW f \in BOOLEAN,
             SheetAppend(p, n, r, f)
      PROVE  MailsGrow
  BY <1>0, <1>7 DEF SheetAppend, history
<1>8. ASSUME NEW saved \in BOOLEAN, Record(p, saved)
      PROVE  MailsGrow
  BY <1>0, <1>8 DEF Record, history
<1>9. CASE \/ Advance(p) \/ AdvanceFails(p)
           \/ \E a \in BOOLEAN : Requeue(p, a) \/ GiveUp(p, a)
  <2>1. mails' = mails
    BY <1>9 DEF Advance, AdvanceFails, Requeue, Throws, GiveUp, EndJob, history
  <2> QED
    BY <1>0, <2>1
<1>10. CASE \/ WorkerSelect(p)
           \/ \E a \in BOOLEAN : NoFinalizedLenders(p, a)
  BY <1>0, <1>10 DEF WorkerSelect, NoFinalizedLenders, EndJob, Throws, history
<1>11. CASE \E a \in BOOLEAN : AllFailed(p, a) \/ Settle(p, a)
  BY <1>0, <1>11 DEF AllFailed, EndJob, Throws, Settle, history
<1>12. CASE JobThrows(p) \/ (\E saved \in BOOLEAN : CatchJob(p, saved))
  BY <1>0, <1>12 DEF JobThrows, CatchJob, Throws, history
<1> QED
  BY <1>e, <1>1, <1>2, <1>3, <1>4, <1>5, <1>6, <1>7, <1>8, <1>9, <1>10, <1>11,
     <1>12 DEF Progress

\* What a handler knows of deliveries is true (lenders that take a Google Sheet
\* row alone excepted), and it moves the stage, or ends the job well, only if
\* somebody was reached.
KnowsAt(p) ==
  /\ pc[p] \in {"sheet", "append"} /\ Channel[cur[p]] # "sheet" => mails[cur[p]] > 0
  /\ pc[p] = "record" /\ ok[p] /\ Channel[cur[p]] # "sheet" => mails[cur[p]] > 0
  /\ \A l \in got[p] : Channel[l] # "sheet" => mails[l] > 0
  /\ pc[p] \in {"advance", "settle"} /\ kind[p] # "mark" => got[p] # {}

LEMMA ProgressKnows ==
  ASSUME Inv0, KindInv, NEW p \in Procs, KnowsAt(p), Progress(p)
  PROVE  KnowsAt(p)'
<1> USE DEF KnowsAt, Done, GoTo
<1>0. /\ HandlersTyped /\ HistoryTyped /\ KindAt(p)
      /\ pc[p] \in HopPoints => cur[p] \in Lenders
  BY DEF Inv0, HandlersInv, KindInv
<1>1. CASE ClaimLock(p)
  BY <1>0, <1>1 DEF ClaimLock, HandlersTyped, history
<1>2. CASE LockBusy(p) \/ ClaimLost(p)
  BY <1>0, <1>2 DEF LockBusy, ClaimLost, HandlersTyped, history
<1>3. CASE Release(p)
  BY <1>0, <1>3 DEF Release, NobodyReached, HandlersTyped, history
<1>4. CASE PassGate(p) \/ HoldBack(p) \/ SelectLenders(p) \/ SelectThrows(p)
  BY <1>0, <1>4 DEF PassGate, HoldBack, SelectLenders, SelectThrows, HandlersTyped,
      history
<1>5. CASE MarkRow(p)
  BY <1>0, <1>5 DEF MarkRow, KindAt, HandlersTyped, history
<1>6. CASE EnqueueJob(p)
  BY <1>0, <1>6 DEF EnqueueJob, HandlersTyped, history
<1>7. CASE EnterDispatch(p)
  BY <1>0, <1>7 DEF EnterDispatch, MayEnter, HandlersTyped, history
<1>8. CASE FailDispatch(p)
  BY <1>0, <1>8 DEF FailDispatch, Throws, HandlersTyped, history
<1>9. CASE FinishDispatch(p)
  BY <1>0, <1>9 DEF FinishDispatch, NobodyReached, HandlersTyped, history
<1>10. ASSUME NEW l \in Lenders, TakeNext(p, l)
      PROVE  KnowsAt(p)'
  BY <1>0, <1>10 DEF TakeNext, FirstHop, ConnectorLender, HandlersTyped, history
<1>11. ASSUME NEW n \in 0..2, NEW r \in BOOLEAN, NEW t \in BOOLEAN,
             ConnectorSend(p, n, r, t)
      PROVE  KnowsAt(p)'
  BY <1>0, <1>11 DEF ConnectorSend, Deliver, Arrive, Count, TwoOrMore, HistoryTyped,
      HopPoints, HandlersTyped, history
<1>12. ASSUME NEW n \in 0..2, NEW r \in BOOLEAN, EmailSend(p, n, r)
      PROVE  KnowsAt(p)'
  BY <1>0, <1>12 DEF EmailSend, Deliver, Arrive, Count, TwoOrMore, HistoryTyped,
      HopPoints, HandlersTyped, history
<1>e. ASSUME NEW n \in 0..1, EmailThrows(p, n)
      PROVE  KnowsAt(p)'
  BY <1>0, <1>e DEF EmailThrows, Throws, Arrive, Count, TwoOrMore, HistoryTyped,
      HopPoints, HandlersTyped, history
<1>13. CASE SheetClaim(p)
  BY <1>0, <1>13 DEF SheetClaim, AlreadyClaimed, HandlersTyped, history
<1>14. ASSUME NEW d \in BOOLEAN, SheetUnavailable(p, d)
      PROVE  KnowsAt(p)'
  BY <1>0, <1>14 DEF SheetUnavailable, HandlersTyped, history
<1>15. ASSUME NEW n \in 0..1, NEW r \in BOOLEAN, NEW f \in BOOLEAN,
             SheetAppend(p, n, r, f)
      PROVE  KnowsAt(p)'
  BY <1>0, <1>15 DEF SheetAppend, HandlersTyped, history
<1>16. ASSUME NEW saved \in BOOLEAN, Record(p, saved)
      PROVE  KnowsAt(p)'
  BY <1>0, <1>16 DEF Record, HandlersTyped, history
<1>17. CASE Advance(p)
  BY <1>0, <1>17 DEF Advance, AfterAdvance, HandlersTyped, history
<1>18. CASE AdvanceFails(p)
  BY <1>0, <1>18 DEF AdvanceFails, AfterAdvance, HandlersTyped, history
<1>19. CASE \/ WorkerSelect(p)
           \/ \E a \in BOOLEAN : \/ Requeue(p, a) \/ GiveUp(p, a)
                                 \/ NoFinalizedLenders(p, a)
  BY <1>0, <1>19 DEF Requeue, Throws, AfterRequeue, GiveUp, EndJob, WorkerSelect,
      NoFinalizedLenders, HandlersTyped, history
<1>20. CASE \E a \in BOOLEAN : AllFailed(p, a) \/ Settle(p, a)
  BY <1>0, <1>20 DEF AllFailed, EndJob, Throws, Settle, HandlersTyped, history
<1>21. CASE JobThrows(p) \/ (\E saved \in BOOLEAN : CatchJob(p, saved))
  BY <1>0, <1>21 DEF JobThrows, CatchJob, Throws, HandlersTyped, history
<1> QED
  BY <1>e, <1>1, <1>2, <1>3, <1>4, <1>5, <1>6, <1>7, <1>8, <1>9, <1>10, <1>11,
     <1>12, <1>13, <1>14, <1>15, <1>16, <1>17, <1>18, <1>19, <1>20, <1>21
  DEF Progress

LEMMA ProgressSent ==
  ASSUME Inv0, SentMeansDelivered, NEW p \in Procs, KnowsAt(p), Progress(p)
  PROVE  SentMeansDelivered'
<1> USE DEF SentMeansDelivered
<1>0. RowsTyped /\ MailsGrow /\ (\A l \in Lenders : mails[l] \in Nat)
  BY ProgressMails DEF Inv0, HistoryTyped, TwoOrMore
<1>1. CASE pkg' = pkg
  BY <1>0, <1>1 DEF MailsGrow
<1>2. CASE MarkRow(p)
  BY <1>0, <1>2 DEF MarkRow, RowsTyped, history
<1>3. ASSUME NEW saved \in BOOLEAN, Record(p, saved)
      PROVE  SentMeansDelivered'
  BY <1>0, <1>3 DEF Record, Outcome, RowsTyped, KnowsAt
<1>4. pkg' = pkg \/ MarkRow(p) \/ (\E saved \in BOOLEAN : Record(p, saved))
  BY DEF Progress, ClaimLock, LockBusy, ClaimLost, Release, PassGate, HoldBack,
      SelectLenders, SelectThrows, EnqueueJob, EnterDispatch, FailDispatch, Throws,
      FinishDispatch, TakeNext, ConnectorSend, EmailSend, EmailThrows, Deliver,
      Arrive, SheetClaim, SheetUnavailable, SheetAppend, Advance, AdvanceFails,
      Requeue, AfterRequeue, GiveUp, EndJob, WorkerSelect, NoFinalizedLenders,
      AllFailed, JobThrows, CatchJob, Settle, database
<1> QED
  BY <1>1, <1>2, <1>3, <1>4

Knows == \A p \in Procs : KnowsAt(p)

Inv3 == Inv2 /\ Knows /\ SentMeansDelivered

LEMMA InitInv3 == Init => Inv3
<1>1. Init => Knows /\ SentMeansDelivered
  BY DEF Init, Knows, KnowsAt, SentMeansDelivered
<1> QED
  BY <1>1, InitInv2 DEF Inv3

LEMMA StepInv3 == Inv3 /\ [Next]_vars => Inv3'
<1> SUFFICES ASSUME Inv3, [Next]_vars PROVE Knows' /\ SentMeansDelivered'
  BY StepInv2 DEF Inv3
<1>0. Inv0 /\ HandlersTyped /\ KindInv /\ Knows /\ SentMeansDelivered
  BY DEF Inv3, Inv2, Inv1, Inv0, HandlersInv
<1>1. ASSUME NEW p \in Senders, Request(p) PROVE Knows' /\ SentMeansDelivered'
  <2>1. /\ UNCHANGED <<mails, pkg, cur, ok, got>> /\ pc'[p] \notin HopPoints
        /\ pc'[p] \notin {"advance", "settle"}
    BY <1>0, <1>1
    DEF HandlersTyped, Procs, Request, RequestSend, RequestResend, RequestApi,
        RequestMark, FinalizeSigned, Start, GoTo, database, history, HopPoints
  <2>2. \A q \in Procs \ {p} : pc'[q] = pc[q] /\ kind'[q] = kind[q]
    BY <1>0, <1>1
    DEF HandlersTyped, Procs, Request, RequestSend, RequestResend, RequestApi,
        RequestMark, FinalizeSigned, Start, GoTo
  <2>3. KnowsAt(p)'
    BY <1>0, <2>1 DEF Knows, KnowsAt, HopPoints, Procs
  <2> QED
    BY <1>0, <2>1, <2>2, <2>3 DEF Knows, KnowsAt, SentMeansDelivered
<1>2. ASSUME NEW w \in Workers, WorkerClaim(w) PROVE Knows' /\ SentMeansDelivered'
  <2>1. /\ UNCHANGED <<mails, pkg, cur, ok, got>> /\ pc'[w] \notin HopPoints
        /\ pc'[w] \notin {"advance", "settle"}
    BY <1>0, <1>2 DEF HandlersTyped, Procs, WorkerClaim, GoTo, history, HopPoints
  <2>2. \A q \in Procs \ {w} : pc'[q] = pc[q] /\ kind'[q] = kind[q]
    BY <1>0, <1>2 DEF HandlersTyped, Procs, WorkerClaim, GoTo
  <2>3. KnowsAt(w)'
    BY <1>0, <2>1 DEF Knows, KnowsAt, HopPoints, Procs
  <2> QED
    BY <1>0, <2>1, <2>2, <2>3 DEF Knows, KnowsAt, SentMeansDelivered
<1>3. ASSUME NEW p \in Procs, Progress(p) PROVE Knows' /\ SentMeansDelivered'
  <2>1. MailsGrow /\ Alone(p) /\ (\A l \in Lenders : mails[l] \in Nat)
    BY <1>0, <1>3, ProgressMails, ProgressAlone DEF Inv0, HistoryTyped, TwoOrMore
  <2>2. KnowsAt(p)' /\ SentMeansDelivered'
    BY <1>0, <1>3, ProgressKnows, ProgressSent DEF Knows
  <2>3. ASSUME NEW q \in Procs \ {p} PROVE KnowsAt(q)'
    <3>1. /\ pc'[q] = pc[q] /\ kind'[q] = kind[q] /\ cur'[q] = cur[q]
          /\ ok'[q] = ok[q] /\ got'[q] = got[q] /\ got[q] \subseteq Lenders
          /\ KnowsAt(q) /\ (pc[q] \in HopPoints => cur[q] \in Lenders)
      BY <1>0, <2>1 DEF Alone, HandlersTyped, Knows, Inv0, HandlersInv
    <3> QED
      BY <2>1, <3>1 DEF KnowsAt, HopPoints, MailsGrow
  <2> QED
    BY <2>2, <2>3 DEF Knows
<1>4. ASSUME NEW p \in Procs, Crash(p) PROVE Knows' /\ SentMeansDelivered'
  <2>1. UNCHANGED <<mails, pkg>> /\ KnowsAt(p)'
    BY <1>0, <1>4
    DEF HandlersTyped, Crash, Done, GoTo, database, KnowsAt
  <2>2. Alone(p)
    BY <1>0, <1>4 DEF HandlersTyped, Crash, Done, GoTo, Alone
  <2> QED
    BY <1>0, <2>1, <2>2 DEF Knows, KnowsAt, SentMeansDelivered, Alone
<1>5. CASE RequestResignature \/ MoveStage \/ LockAges \/ UNCHANGED vars
  <2>1. UNCHANGED <<pc, kind, cur, ok, got, mails, pkg>>
    BY <1>5 DEF RequestResignature, MoveStage, LockAges, process, history, vars
  <2> QED
    BY <1>0, <2>1 DEF Knows, KnowsAt, SentMeansDelivered
<1> QED
  BY <1>1, <1>2, <1>3, <1>4, <1>5 DEF Next

LEMMA Inv3Always == Spec => []Inv3
BY InitInv3, StepInv3, PTL DEF Spec, SafetySpec

\* A lender's package is recorded 'sent' only after one reached it, however many
\* dispatches, lock or no lock, write the row at once (dispatchToSelected.ts:405-429).
THEOREM RecordedMeansDelivered == Spec => []SentMeansDelivered
<1>1. Inv3 => SentMeansDelivered
  BY DEF Inv3
<1> QED
  BY Inv3Always, <1>1, PTL

\* The job is marked completed only by a worker that knows of a lender it reached.
LEMMA CompletedSteps ==
  ASSUME [Next]_vars, job' = "completed"
  PROVE  job = "completed" \/ \E p \in Procs, a \in BOOLEAN : Settle(p, a)
<1>1. ASSUME NEW p \in Procs, Progress(p)
      PROVE  job' = job \/ job' # "completed" \/ \E a \in BOOLEAN : Settle(p, a)
  BY <1>1
  DEF Progress, ClaimLock, LockBusy, ClaimLost, Release, PassGate, HoldBack,
      SelectLenders, SelectThrows, MarkRow, EnqueueJob, EnterDispatch, FailDispatch,
      FinishDispatch, TakeNext, ConnectorSend, EmailSend, EmailThrows, Deliver,
      SheetClaim, SheetUnavailable, SheetAppend, Record, Advance, AdvanceFails,
      Requeue, GiveUp, EndJob, WorkerSelect, NoFinalizedLenders, AllFailed, JobThrows,
      CatchJob, AfterThrow, database
<1>2. ASSUME NEW p \in Senders, Request(p) PROVE job' = job
  BY <1>2 DEF Request, RequestSend, RequestResend, RequestApi, RequestMark,
      FinalizeSigned, database
<1>3. ASSUME NEW w \in Workers, WorkerClaim(w) PROVE job' = "running"
  BY <1>3 DEF WorkerClaim
<1>4. ASSUME NEW p \in Procs, Crash(p) PROVE job' = job
  BY <1>4 DEF Crash, database
<1>5. CASE RequestResignature \/ MoveStage \/ LockAges \/ UNCHANGED vars
  BY <1>5 DEF RequestResignature, MoveStage, LockAges, vars
<1> QED
  BY <1>1, <1>2, <1>3, <1>4, <1>5 DEF Next

\* No step takes a package back.
LEMMA StepMails ==
  ASSUME Inv0, [Next]_vars
  PROVE  MailsGrow
<1>0. \A l \in Lenders : mails[l] \in Nat
  BY DEF Inv0, HistoryTyped, TwoOrMore
<1>1. ASSUME NEW p \in Procs, Progress(p) PROVE MailsGrow
  BY <1>1, ProgressMails
<1>2. mails' = mails \/ \E p \in Procs : Progress(p)
  BY DEF Next, Request, RequestSend, RequestResend, RequestApi, RequestMark,
     FinalizeSigned, WorkerClaim, Crash, RequestResignature, MoveStage, LockAges,
     history, vars
<1> QED
  BY <1>0, <1>1, <1>2 DEF MailsGrow

\* A completed job has reached a lender, whatever became of earlier runs and of the
\* selection (lenderPackageWorker.ts:150-177); Google Sheet lenders are excepted.
THEOREM CompletedReached == Spec => []CompletedMeansReached
<1> DEFINE Reaches ==
      job = "completed" => \E l \in Lenders : Channel[l] = "sheet" \/ mails[l] > 0
<1>1. Init => Reaches
  BY DEF Init
<1>2. Inv3 /\ Reaches /\ [Next]_vars => Reaches'
  <2> SUFFICES ASSUME Inv3, Reaches, [Next]_vars, job' = "completed"
               PROVE  \E l \in Lenders : Channel[l] = "sheet" \/ mails'[l] > 0
    OBVIOUS
  <2>1. MailsGrow /\ \A l \in Lenders : mails[l] \in Nat
    BY StepMails DEF Inv3, Inv2, Inv1, Inv0, HistoryTyped, TwoOrMore
  <2>2. \E l \in Lenders : Channel[l] = "sheet" \/ mails[l] > 0
    <3>1. CASE job = "completed"
      BY <3>1
    <3>2. ASSUME NEW p \in Procs, NEW a \in BOOLEAN, Settle(p, a)
          PROVE  \E l \in Lenders : Channel[l] = "sheet" \/ mails[l] > 0
      <4>1. KnowsAt(p) /\ got[p] \subseteq Lenders /\ got[p] # {}
        BY <3>2 DEF Inv3, Knows, KnowsAt, Settle, Inv2, Inv1, Inv0, HandlersInv,
            HandlersTyped
      <4> QED
        BY <4>1 DEF KnowsAt
    <3> QED
      BY <3>1, <3>2, CompletedSteps
  <2> QED
    BY <2>1, <2>2 DEF MailsGrow
<1>3. Reaches => CompletedMeansReached
  BY DEF CompletedMeansReached, Reached
<1> QED
  BY InitInv3, StepInv3, <1>1, <1>2, <1>3, PTL DEF Spec, SafetySpec

-------------------------------------------------------------------------------
(* The stage of the application *)

\* Every step that moves the stage is staff's or the end of a dispatch.
LEMMA StageSteps ==
  ASSUME [Next]_vars
  PROVE  stage' = stage \/ MoveStage \/ (\E p \in Procs : Advance(p))
<1>1. ASSUME NEW p \in Procs, Progress(p)
      PROVE  stage' = stage \/ Advance(p)
  BY <1>1
  DEF Progress, ClaimLock, LockBusy, ClaimLost, Release, PassGate, HoldBack,
      SelectLenders, SelectThrows, MarkRow, EnqueueJob, EnterDispatch, FailDispatch,
      Throws, FinishDispatch, TakeNext, ConnectorSend, EmailSend, EmailThrows,
      Deliver, Arrive, SheetClaim, SheetUnavailable, SheetAppend, Record,
      AdvanceFails, Requeue, AfterRequeue, GiveUp, EndJob, WorkerSelect,
      NoFinalizedLenders, AllFailed, JobThrows, CatchJob, Settle, database
<1>2. ASSUME NEW p \in Senders, Request(p) PROVE stage' = stage
  BY <1>2 DEF Request, RequestSend, RequestResend, RequestApi, RequestMark,
      FinalizeSigned, database
<1>3. ASSUME NEW w \in Workers, WorkerClaim(w) PROVE stage' = stage
  BY <1>3 DEF WorkerClaim
<1>4. ASSUME NEW p \in Procs, Crash(p) PROVE stage' = stage
  BY <1>4 DEF Crash, database
<1>5. CASE RequestResignature \/ LockAges \/ UNCHANGED vars
  BY <1>5 DEF RequestResignature, LockAges, vars
<1> QED
  BY <1>1, <1>2, <1>3, <1>4, <1>5 DEF Next

\* With no lender that takes a Google Sheet row alone, a file goes Off to Lender
\* only by hand or once a package has reached some lender (lenderPackageWorker.ts:149-177).
THEOREM NothingSentNothingMoved ==
  ASSUME \A l \in Lenders : Channel[l] # "sheet"
  PROVE  Spec => OffToLenderOnlyAfterDelivery
<1>1. ASSUME Inv3, [Next]_vars, stage # "Off to Lender", stage' = "Off to Lender"
      PROVE  \/ MoveStage
             \/ \E p \in Procs : kind[p] = "mark" /\ Advance(p)
             \/ \E l \in Lenders : Reached(l)
  <2>1. ASSUME NEW p \in Procs, Advance(p), kind[p] # "mark"
        PROVE  \E l \in Lenders : Reached(l)
    <3>1. KnowsAt(p) /\ got[p] \subseteq Lenders /\ got[p] # {}
      BY <1>1, <2>1 DEF Inv3, Knows, KnowsAt, Advance, Inv2, Inv1, Inv0, HandlersInv,
          HandlersTyped
    <3> QED
      BY <3>1 DEF KnowsAt, Reached
  <2> QED
    BY <1>1, <2>1, StageSteps
<1> QED
  BY <1>1, Inv3Always, PTL DEF Spec, SafetySpec, OffToLenderOnlyAfterDelivery

\* "Once an application is parked in Fraud it must stop moving" (fraudGuard.ts:2-9)
\* as far as it is true: Submit by API never moves the card of such a file,
\* however late it ends (applications.routes.ts:2051).
THEOREM ApiSparesFraud ==
  Spec => [][stage = "Fraud" /\ stage' # "Fraud" =>
               MoveStage \/ \E p \in Procs : kind[p] # "api" /\ Advance(p)]_vars
<1>1. [Next]_vars =>
        (stage = "Fraud" /\ stage' # "Fraud" =>
           MoveStage \/ \E p \in Procs : kind[p] # "api" /\ Advance(p))
  BY StageSteps DEF Advance, KeptStages
<1> QED
  BY <1>1, PTL DEF Spec, SafetySpec

-------------------------------------------------------------------------------
(* No second package without a cause *)

Carrying(p, l) ==
  /\ cur[p] = l
  /\ pc[p] \in {"sheet", "append"} \/ (pc[p] = "record" /\ ok[p])

\* Where a lender stands whose second package nothing would account for: if one
\* has gone out, the row says so or is about to; if somebody is about to send one,
\* it is a Send, and none has gone out.
Fresh(l) ==
  /\ mails[l] <= 1
  /\ mails[l] = 1 => Sent(l) \/ \E p \in Procs : Carrying(p, l)
  /\ \A p \in Procs : l \in todo[p] /\ kind[p] # "mark" =>
       kind[p] = "send" /\ mails[l] = 0 /\ cur[p] # l
         /\ pc[p] \in DispatchPoints \cup {"guard"}
  /\ \A p \in Procs : cur[p] = l =>
       /\ kind[p] = "send" /\ pc[p] \in HopPoints
       /\ pc[p] \in {"connector", "email"} \/ (pc[p] = "record" /\ ~ok[p])
            => mails[l] = 0

FreshInv == ~stolen => \A l \in Lenders \ excused : Fresh(l)

\* The handler that holds the lock is the only one that has the lender to send to
\* or in hand.
LEMMA OnlyHolder ==
  ASSUME LockInv, ~stolen, NEW l \in Lenders, Fresh(l),
         NEW p \in Procs, HoldsLock(p), NEW q \in Procs, q # p
  PROVE  (l \notin todo[q] \/ kind[q] = "mark") /\ cur[q] # l
<1>1. ~HoldsLock(q)
  BY DEF LockInv
<1> QED
  BY <1>1 DEF Fresh, HoldsLock, DispatchPoints, HopPoints

\* A step that neither sends nor records, nor takes up a lender.
Quiet(p, l) ==
  /\ pc[p] \notin HopPoints
  /\ mails'[l] = mails[l]
  /\ pkg'[l] = pkg[l] \/ Sent(l)'
  /\ cur'[p] # l
  /\ \/ l \notin todo'[p] \/ kind'[p] = "mark"
     \/ /\ l \in todo[p] /\ kind'[p] = kind[p]
        /\ pc'[p] \in DispatchPoints \cup {"guard"}

LEMMA QuietFresh ==
  ASSUME NEW l \in Lenders, Fresh(l), NEW p \in Procs, Alone(p), Quiet(p, l)
  PROVE  Fresh(l)'
<1>1. cur[p] # l
  BY DEF Fresh, Quiet
<1>2. mails'[l] = 1 => Sent(l)' \/ \E q \in Procs : Carrying(q, l)'
  <2>1. ASSUME NEW q \in Procs, Carrying(q, l) PROVE Carrying(q, l)'
    BY <1>1, <2>1 DEF Carrying, Alone
  <2> QED
    BY <2>1 DEF Fresh, Quiet, Sent
<1>3. ASSUME NEW q \in Procs, l \in todo'[q], kind'[q] # "mark"
      PROVE  /\ kind'[q] = "send" /\ mails'[l] = 0 /\ cur'[q] # l
             /\ pc'[q] \in DispatchPoints \cup {"guard"}
  <2>1. CASE q = p
    BY <1>3, <2>1 DEF Fresh, Quiet
  <2>2. CASE q # p
    BY <1>3, <2>2 DEF Fresh, Quiet, Alone
  <2> QED
    BY <2>1, <2>2
<1>4. ASSUME NEW q \in Procs, cur'[q] = l
      PROVE  /\ kind'[q] = "send" /\ pc'[q] \in HopPoints
             /\ pc'[q] \in {"connector", "email"} \/ (pc'[q] = "record" /\ ~ok'[q])
                  => mails'[l] = 0
  BY <1>4 DEF Fresh, Quiet, Alone
<1>5. mails'[l] <= 1
  BY DEF Fresh, Quiet
<1> QED
  BY <1>2, <1>3, <1>4, <1>5 DEF Fresh

LEMMA ProgressQuiet ==
  ASSUME Inv0, KindInv, NEW p \in Procs, Progress(p),
         NEW l \in Lenders \ excused', Fresh(l), pc[p] \notin HopPoints,
         ~SelectLenders(p), ~(\E x \in Lenders : TakeNext(p, x))
  PROVE  Quiet(p, l)
<1> USE DEF Quiet, DispatchPoints, HopPoints, Done, GoTo, history, database
<1>0. /\ HandlersTyped /\ RowsTyped /\ KindAt(p) /\ cur[p] # l
      /\ l \in todo[p] /\ kind[p] # "mark" =>
           kind[p] = "send" /\ pc[p] \in DispatchPoints \cup {"guard"}
  BY DEF Inv0, HandlersInv, KindInv, Fresh
<1>00. l # NoLender
  BY NoLenderAssumption
<1>1. CASE ClaimLock(p)
  BY <1>0, <1>00, <1>1 DEF ClaimLock, KindAt, LockKinds, HandlersTyped
<1>2. CASE LockBusy(p) \/ ClaimLost(p)
  BY <1>0, <1>00, <1>2 DEF LockBusy, ClaimLost, HandlersTyped
<1>3. CASE Release(p)
  BY <1>0, <1>00, <1>3 DEF Release, HandlersTyped
<1>4. CASE PassGate(p) \/ HoldBack(p) \/ SelectThrows(p)
  BY <1>0, <1>00, <1>4 DEF PassGate, HoldBack, SelectThrows, HandlersTyped
<1>5. CASE SelectLenders(p)
  BY <1>5
<1>6. CASE MarkRow(p)
  BY <1>0, <1>00, <1>6 DEF MarkRow, KindAt, Sent, RowsTyped, HandlersTyped
<1>7. CASE EnqueueJob(p)
  BY <1>0, <1>00, <1>7 DEF EnqueueJob, HandlersTyped
<1>8. CASE EnterDispatch(p)
  BY <1>0, <1>00, <1>8 DEF EnterDispatch, MayEnter, HandlersTyped
<1>9. CASE FailDispatch(p)
  BY <1>0, <1>00, <1>9 DEF FailDispatch, Throws, HandlersTyped
<1>10. CASE FinishDispatch(p)
  BY <1>0, <1>00, <1>10 DEF FinishDispatch, NobodyReached, HandlersTyped
<1>11. ASSUME NEW x \in Lenders, TakeNext(p, x)
      PROVE  Quiet(p, l)
  BY <1>11
<1>12. ASSUME NEW n \in 0..2, NEW r \in BOOLEAN, NEW t \in BOOLEAN,
             ConnectorSend(p, n, r, t)
      PROVE  Quiet(p, l)
  BY <1>0, <1>00, <1>12 DEF ConnectorSend, HandlersTyped
<1>13. ASSUME NEW n \in 0..2, NEW r \in BOOLEAN, EmailSend(p, n, r)
      PROVE  Quiet(p, l)
  BY <1>0, <1>00, <1>13 DEF EmailSend, HandlersTyped
<1>e. ASSUME NEW n \in 0..1, EmailThrows(p, n)
      PROVE  Quiet(p, l)
  BY <1>0, <1>00, <1>e DEF EmailThrows, Throws, HandlersTyped
<1>14. CASE SheetClaim(p)
  BY <1>0, <1>00, <1>14 DEF SheetClaim, AlreadyClaimed, HandlersTyped
<1>15. ASSUME NEW d \in BOOLEAN, SheetUnavailable(p, d)
      PROVE  Quiet(p, l)
  BY <1>0, <1>00, <1>15 DEF SheetUnavailable, HandlersTyped
<1>16. ASSUME NEW n \in 0..1, NEW r \in BOOLEAN, NEW f \in BOOLEAN,
             SheetAppend(p, n, r, f)
      PROVE  Quiet(p, l)
  BY <1>0, <1>00, <1>16 DEF SheetAppend, HandlersTyped
<1>17. ASSUME NEW saved \in BOOLEAN, Record(p, saved)
      PROVE  Quiet(p, l)
  BY <1>0, <1>00, <1>17 DEF Record, HandlersTyped
<1>18. CASE Advance(p)
  BY <1>0, <1>00, <1>18 DEF Advance, AfterAdvance, HandlersTyped
<1>19. CASE AdvanceFails(p)
  BY <1>0, <1>00, <1>19 DEF AdvanceFails, AfterAdvance, HandlersTyped
<1>20. CASE \E a \in BOOLEAN : Requeue(p, a) \/ GiveUp(p, a)
  BY <1>0, <1>00, <1>20 DEF Requeue, Throws, AfterRequeue, GiveUp, EndJob, HandlersTyped
<1>21. CASE WorkerSelect(p)
  BY <1>0, <1>00, <1>21 DEF WorkerSelect, Excuse, HandlersTyped
<1>22. CASE \E a \in BOOLEAN : NoFinalizedLenders(p, a) \/ AllFailed(p, a)
  BY <1>0, <1>00, <1>22 DEF NoFinalizedLenders, EndJob, Throws, AllFailed, HandlersTyped
<1>23. CASE JobThrows(p) \/ (\E saved \in BOOLEAN : CatchJob(p, saved))
  BY <1>0, <1>00, <1>23 DEF JobThrows, CatchJob, Throws, HandlersTyped
<1>24. CASE \E a \in BOOLEAN : Settle(p, a)
  BY <1>0, <1>00, <1>24 DEF Settle, EndJob, Throws, HandlersTyped
<1> QED
  BY <1>e, <1>1, <1>2, <1>3, <1>4, <1>5, <1>6, <1>7, <1>8, <1>9, <1>10, <1>11,
     <1>12, <1>13, <1>14, <1>15, <1>16, <1>17, <1>18, <1>19, <1>20, <1>21,
     <1>22, <1>23, <1>24 DEF Progress

\* A Send that takes the lock's word for it: who is not 'sent' got nothing.
LEMMA SelectFresh ==
  ASSUME Inv0, KindInv, LockInv, ~stolen, NEW p \in Procs, SelectLenders(p),
         NEW l \in Lenders, Fresh(l)
  PROVE  Fresh(l)'
<1>1. /\ HandlersTyped /\ HistoryTyped /\ kind[p] = "send" /\ HoldsLock(p)
      /\ cur[p] # l /\ l \notin todo[p]
  BY DEF Inv0, HandlersInv, KindInv, KindAt, SelectLenders, HoldsLock, Fresh,
      HopPoints, DispatchPoints
<1>2. /\ UNCHANGED <<mails, pkg, cur, ok, kind>>
      /\ todo' = [todo EXCEPT ![p] = Unsent]
      /\ pc' = [pc EXCEPT ![p] = IF Unsent = {} THEN "release" ELSE "guard"]
  BY DEF SelectLenders, GoTo, database, history
<1>3. l \in Unsent => mails[l] = 0
  <2>1. ASSUME NEW q \in Procs PROVE ~Carrying(q, l)
    <3>1. CASE q = p
      BY <1>1, <3>1 DEF Carrying
    <3>2. CASE q # p
      BY <1>1, <3>2, OnlyHolder DEF Carrying
    <3> QED
      BY <3>1, <3>2
  <2> QED
    BY <1>1, <2>1 DEF Unsent, Fresh, HistoryTyped, TwoOrMore
<1>4. \A q \in Procs : Carrying(q, l) => Carrying(q, l)'
  BY <1>1, <1>2 DEF Carrying, HandlersTyped
<1>5. ASSUME NEW q \in Procs, l \in todo'[q], kind'[q] # "mark"
      PROVE  /\ kind'[q] = "send" /\ mails'[l] = 0 /\ cur'[q] # l
             /\ pc'[q] \in DispatchPoints \cup {"guard"}
  <2>1. CASE q = p
    BY <1>1, <1>2, <1>3, <1>5, <2>1 DEF HandlersTyped
  <2>2. CASE q # p
    BY <1>1, <1>2, <1>5, <2>2 DEF HandlersTyped, Fresh
  <2> QED
    BY <2>1, <2>2
<1>6. ASSUME NEW q \in Procs, cur'[q] = l
      PROVE  /\ kind'[q] = "send" /\ pc'[q] \in HopPoints
             /\ pc'[q] \in {"connector", "email"} \/ (pc'[q] = "record" /\ ~ok'[q])
                  => mails'[l] = 0
  <2>1. q # p
    BY <1>1, <1>2, <1>6
  <2> QED
    BY <1>1, <1>2, <1>6, <2>1 DEF HandlersTyped, Fresh
<1>7. mails'[l] <= 1 /\ (mails'[l] = 1 => Sent(l)' \/ \E q \in Procs : Carrying(q, l)')
  BY <1>2, <1>4 DEF Fresh, Sent
<1> QED
  BY <1>5, <1>6, <1>7 DEF Fresh

\* The next four step lemmas have one shape: what the step does to the handler
\* itself, and that nobody else has the lender in hand.
LEMMA TakeFresh ==
  ASSUME Inv0, KindInv, NEW p \in Procs, NEW x \in Lenders, TakeNext(p, x),
         NEW l \in Lenders, Fresh(l)
  PROVE  Fresh(l)'
<1>1. HandlersTyped /\ cur[p] # l
  BY DEF Inv0, HandlersInv, TakeNext, Fresh, HopPoints
<1>2. /\ UNCHANGED <<mails, pkg, ok, kind>>
      /\ x \in todo[p]
      /\ todo' = [todo EXCEPT ![p] = @ \ {x}]
      /\ cur' = [cur EXCEPT ![p] = x]
      /\ pc' = [pc EXCEPT ![p] = FirstHop(p, x)]
      /\ kind[p] # "mark"
  BY DEF TakeNext, GoTo, database, history, KindInv, KindAt, DispatchPoints, LockKinds
<1>3. FirstHop(p, x) \in {"connector", "email", "sheet"}
  BY DEF FirstHop
<1>4. \A q \in Procs : Carrying(q, l) => Carrying(q, l)'
  BY <1>1, <1>2 DEF Carrying, HandlersTyped
<1>5. ASSUME NEW q \in Procs, l \in todo'[q], kind'[q] # "mark"
      PROVE  /\ kind'[q] = "send" /\ mails'[l] = 0 /\ cur'[q] # l
             /\ pc'[q] \in DispatchPoints \cup {"guard"}
  <2>1. CASE q = p
    BY <1>1, <1>2, <1>3, <1>5, <2>1 DEF HandlersTyped, Fresh, DispatchPoints
  <2>2. CASE q # p
    BY <1>1, <1>2, <1>5, <2>2 DEF HandlersTyped, Fresh
  <2> QED
    BY <2>1, <2>2
<1>6. ASSUME NEW q \in Procs, cur'[q] = l
      PROVE  /\ kind'[q] = "send" /\ pc'[q] \in HopPoints
             /\ pc'[q] \in {"connector", "email"} \/ (pc'[q] = "record" /\ ~ok'[q])
                  => mails'[l] = 0
  <2>1. CASE q = p
    BY <1>1, <1>2, <1>3, <1>6, <2>1 DEF HandlersTyped, Fresh, HopPoints
  <2>2. CASE q # p
    BY <1>1, <1>2, <1>6, <2>2 DEF HandlersTyped, Fresh
  <2> QED
    BY <2>1, <2>2
<1>7. mails'[l] <= 1 /\ (mails'[l] = 1 => Sent(l)' \/ \E q \in Procs : Carrying(q, l)')
  BY <1>2, <1>4 DEF Fresh, Sent
<1> QED
  BY <1>5, <1>6, <1>7 DEF Fresh

\* With another lender in hand, a step of the dispatch is nothing to this one.
LEMMA OtherLender ==
  ASSUME Inv0, NEW p \in Procs, Progress(p), NEW l \in Lenders, Fresh(l),
         pc[p] \in HopPoints, cur[p] # l, kind[p] # "mark"
  PROVE  Fresh(l)'
<1>0. HandlersTyped /\ RowsTyped /\ HistoryTyped /\ Alone(p) /\ l # NoLender
  BY ProgressAlone, NoLenderAssumption DEF Inv0, HandlersInv
<1>1. /\ mails'[l] = mails[l] /\ pkg'[l] = pkg[l] /\ cur'[p] # l
      /\ kind'[p] = kind[p] /\ todo'[p] \subseteq todo[p]
      /\ l \in todo'[p] => pc'[p] \in DispatchPoints
  BY <1>0
  DEF HopPoints, DispatchPoints, GoTo, HandlersTyped, RowsTyped, HistoryTyped,
      history, database, Progress, ClaimLock, LockBusy, ClaimLost, Release, PassGate,
      HoldBack, SelectLenders, SelectThrows, MarkRow, EnqueueJob, EnterDispatch,
      MayEnter, FailDispatch, Throws, FinishDispatch, TakeNext, ConnectorSend,
      EmailSend, EmailThrows, Deliver, Arrive, SheetClaim, SheetUnavailable,
      SheetAppend, Record, Advance, AdvanceFails, Requeue, AfterRequeue, GiveUp,
      EndJob, WorkerSelect, NoFinalizedLenders, AllFailed, JobThrows, CatchJob, Settle
<1>2. \A q \in Procs : Carrying(q, l) => Carrying(q, l)'
  BY <1>0 DEF Carrying, Alone
<1>3. ASSUME NEW q \in Procs, l \in todo'[q], kind'[q] # "mark"
      PROVE  /\ kind'[q] = "send" /\ mails'[l] = 0 /\ cur'[q] # l
             /\ pc'[q] \in DispatchPoints \cup {"guard"}
  BY <1>0, <1>1, <1>3 DEF Alone, Fresh
<1>4. ASSUME NEW q \in Procs, cur'[q] = l
      PROVE  /\ kind'[q] = "send" /\ pc'[q] \in HopPoints
             /\ pc'[q] \in {"connector", "email"} \/ (pc'[q] = "record" /\ ~ok'[q])
                  => mails'[l] = 0
  BY <1>0, <1>1, <1>4 DEF Alone, Fresh
<1>5. mails'[l] <= 1 /\ (mails'[l] = 1 => Sent(l)' \/ \E q \in Procs : Carrying(q, l)')
  BY <1>1, <1>2 DEF Fresh, Sent
<1> QED
  BY <1>3, <1>4, <1>5 DEF Fresh

\* What one step does with the lender in hand.
HandStep(p, l) ==
  /\ kind'[p] = kind[p] /\ todo'[p] \subseteq todo[p]
  /\ mails'[l] \in 0..1
  /\ \/ /\ cur'[p] = l /\ pc'[p] \in HopPoints
        /\ pc'[p] \in {"connector", "email"} \/ (pc'[p] = "record" /\ ~ok'[p])
             => mails'[l] = 0
     \/ cur'[p] # l /\ (mails'[l] = 1 => Sent(l)')

LEMMA ProgressHand ==
  ASSUME Inv0, NEW p \in Procs, Progress(p), pc[p] \in HopPoints,
         NEW l \in Lenders \ excused', cur[p] = l, Fresh(l)
  PROVE  HandStep(p, l)
<1> USE DEF HandStep, HopPoints, GoTo
<1>0. /\ HandlersTyped /\ HistoryTyped /\ RowsTyped /\ l # NoLender
      /\ mails[l] \in 0..1
      /\ pc[p] \in {"connector", "email"} \/ (pc[p] = "record" /\ ~ok[p])
           => mails[l] = 0
  BY NoLenderAssumption DEF Inv0, HandlersInv, HistoryTyped, TwoOrMore, Fresh
<1>1. ASSUME NEW n \in 0..2, NEW r \in BOOLEAN, NEW t \in BOOLEAN,
             ConnectorSend(p, n, r, t)
      PROVE  HandStep(p, l)
  <2>1. mails[l] = 0 /\ n <= 1 /\ (r <=> n = 1)
    BY <1>0, <1>1 DEF ConnectorSend, Deliver, Arrive, Excuse
  <2>2. mails'[l] = n
    BY <1>0, <1>1, <2>1 DEF ConnectorSend, Deliver, Arrive, HistoryTyped, Count,
        TwoOrMore
  <2>3. /\ cur'[p] = l /\ ok'[p] = r /\ kind'[p] = kind[p] /\ todo'[p] = todo[p]
        /\ pc'[p] \in {"email", "record"} /\ (r => pc'[p] = "record")
    BY <1>0, <1>1 DEF ConnectorSend, Deliver, Arrive, HandlersTyped
  <2> QED
    BY <2>1, <2>2, <2>3
<1>2. ASSUME NEW n \in 0..2, NEW r \in BOOLEAN, EmailSend(p, n, r)
      PROVE  HandStep(p, l)
  <2>1. mails[l] = 0 /\ n <= 1 /\ (r <=> n = 1)
    BY <1>0, <1>2 DEF EmailSend, Deliver, Arrive, Excuse
  <2>2. mails'[l] = n
    BY <1>0, <1>2, <2>1 DEF EmailSend, Deliver, Arrive, HistoryTyped, Count, TwoOrMore
  <2>3. /\ cur'[p] = l /\ ok'[p] = r /\ kind'[p] = kind[p] /\ todo'[p] = todo[p]
        /\ pc'[p] \in {"sheet", "record"} /\ (~r => pc'[p] = "record")
    BY <1>0, <1>2 DEF EmailSend, Deliver, Arrive, HandlersTyped
  <2> QED
    BY <2>1, <2>2, <2>3
<1>e. ASSUME NEW n \in 0..1, EmailThrows(p, n)
      PROVE  HandStep(p, l)
  <2>1. mails[l] = 0 /\ n = 0
    BY <1>0, <1>e DEF EmailThrows, Excuse
  <2>2. mails'[l] = 0
    BY <1>0, <1>e, <2>1 DEF EmailThrows, Arrive, HistoryTyped, Count, TwoOrMore
  <2>3. cur'[p] # l /\ kind'[p] = kind[p] /\ todo'[p] = {}
    BY <1>0, <1>e DEF EmailThrows, Throws, HandlersTyped
  <2> QED
    BY <2>2, <2>3
<1>3. CASE SheetClaim(p)
  <2>1. /\ UNCHANGED <<mails, cur, kind, todo>>
        /\ pc'[p] \in {"record", "append"} /\ (pc'[p] = "record" => ok'[p])
    BY <1>0, <1>3 DEF SheetClaim, AlreadyClaimed, HandlersTyped, RowsTyped, history
  <2> QED
    BY <1>0, <2>1
<1>4. ASSUME NEW d \in BOOLEAN, SheetUnavailable(p, d) PROVE HandStep(p, l)
  BY <1>4 DEF SheetUnavailable, Excuse
<1>5. ASSUME NEW n \in 0..1, NEW r \in BOOLEAN, NEW f \in BOOLEAN,
             SheetAppend(p, n, r, f)
      PROVE  HandStep(p, l)
  <2>1. r
    BY <1>5 DEF SheetAppend, Excuse
  <2> QED
    BY <1>0, <1>5, <2>1 DEF SheetAppend, HandlersTyped
<1>6. ASSUME NEW saved \in BOOLEAN, Record(p, saved) PROVE HandStep(p, l)
  <2>1. /\ UNCHANGED <<mails, kind, todo>> /\ cur'[p] # l
    BY <1>0, <1>6 DEF Record, HandlersTyped
  <2>2. ok[p] => saved
    BY <1>6 DEF Record, Excuse
  <2>3. ok[p] => Sent(l)'
    BY <1>0, <1>6, <2>2 DEF Record, Outcome, RowsTyped, Sent
  <2>4. ~ok[p] => mails[l] = 0
    BY <1>0, <1>6 DEF Record
  <2> QED
    BY <1>0, <2>1, <2>3, <2>4
<1> QED
  BY <1>e, <1>1, <1>2, <1>3, <1>4, <1>5, <1>6
  DEF Progress, ClaimLock, LockBusy, ClaimLost, Release, PassGate, HoldBack,
      SelectLenders, SelectThrows, MarkRow, EnqueueJob, EnterDispatch, MayEnter,
      FailDispatch, Throws, FinishDispatch, TakeNext, Advance, AdvanceFails, Requeue,
      AfterRequeue, GiveUp, EndJob, WorkerSelect, NoFinalizedLenders, AllFailed,
      JobThrows, CatchJob, Settle

LEMMA HandFresh ==
  ASSUME LockInv, ~stolen, NEW l \in Lenders, Fresh(l), NEW p \in Procs,
         pc[p] \in HopPoints, cur[p] = l, Alone(p), HandStep(p, l)
  PROVE  Fresh(l)'
<1>1. kind[p] = "send" /\ HoldsLock(p) /\ l \notin todo[p]
  BY DEF Fresh, HoldsLock, HopPoints, DispatchPoints
<1>2. \A q \in Procs \ {p} : (l \notin todo[q] \/ kind[q] = "mark") /\ cur[q] # l
  BY <1>1, OnlyHolder
<1>3. ASSUME NEW q \in Procs PROVE l \notin todo'[q] \/ kind'[q] = "mark"
  BY <1>1, <1>2 DEF Alone, HandStep
<1>4. ASSUME NEW q \in Procs, cur'[q] = l
      PROVE  /\ kind'[q] = "send" /\ pc'[q] \in HopPoints
             /\ pc'[q] \in {"connector", "email"} \/ (pc'[q] = "record" /\ ~ok'[q])
                  => mails'[l] = 0
  BY <1>1, <1>2, <1>4 DEF Alone, HandStep
<1>5. mails'[l] <= 1
  BY DEF HandStep
<1>6. mails'[l] = 1 => Sent(l)' \/ Carrying(p, l)'
  BY DEF HandStep, Carrying, HopPoints
<1> QED
  BY <1>3, <1>4, <1>5, <1>6 DEF Fresh

Inv4 == Inv2 /\ FreshInv

LEMMA InitInv4 == Init => Inv4
<1>1. ASSUME Init, NEW l \in Lenders PROVE Fresh(l)
  <2>1. mails = [x \in Lenders |-> 0] /\ cur = [p \in Procs |-> NoLender]
    BY <1>1, Zenon DEF Init
  <2>2. todo = [p \in Procs |-> {}]
    BY <1>1, Zenon DEF Init
  <2>3. mails[l] = 0 /\ \A p \in Procs : cur[p] # l /\ todo[p] = {}
    BY <2>1, <2>2, NoLenderAssumption
  <2> QED
    BY <2>3 DEF Fresh
<1>2. Init => FreshInv
  BY <1>1, Zenon DEF FreshInv
<1> QED
  BY <1>2, InitInv2 DEF Inv4

\* Starting a handler takes up no lender that is not accounted for.
LEMMA RequestFresh ==
  ASSUME Inv0, NEW p \in Senders, Request(p), NEW l \in Lenders \ excused', Fresh(l)
  PROVE  Fresh(l)'
<1>0. HandlersTyped /\ p \in Procs
  BY DEF Inv0, HandlersInv, Procs
<1>1. Alone(p) /\ UNCHANGED <<mails, pkg, cur>> /\ pc[p] = "idle"
  BY <1>0 DEF HandlersTyped, Request, RequestSend, RequestResend, RequestApi,
      RequestMark, FinalizeSigned, Start, GoTo, Alone, database, history
<1>2. l \notin todo'[p] \/ kind'[p] = "mark"
  BY <1>0 DEF HandlersTyped, Request, RequestSend, RequestResend, RequestApi,
      RequestMark, FinalizeSigned, Start, Excuse
<1>3. cur[p] # l
  BY <1>0, <1>1 DEF Fresh, HopPoints
<1>4. Quiet(p, l)
  BY <1>1, <1>2, <1>3 DEF Quiet, HopPoints
<1> QED
  BY <1>0, <1>1, <1>4, QuietFresh

\* Neither a theft nor an accounted-for lender is ever forgotten.
HistoryGrows == (stolen => stolen') /\ excused \subseteq excused'

LEMMA ProgressGrows ==
  ASSUME NEW p \in Procs, Progress(p)
  PROVE  HistoryGrows
<1> USE DEF HistoryGrows, Excuse, history, database
<1>1. CASE ClaimLock(p)
  BY <1>1 DEF ClaimLock
<1>2. CASE LockBusy(p) \/ ClaimLost(p) \/ Release(p)
  BY <1>2 DEF LockBusy, ClaimLost, Release
<1>3. CASE HoldBack(p) \/ SelectThrows(p) \/ SelectLenders(p) \/ PassGate(p)
  BY <1>3 DEF HoldBack, SelectThrows, SelectLenders, PassGate
<1>4. CASE MarkRow(p) \/ EnqueueJob(p)
  BY <1>4 DEF MarkRow, EnqueueJob
<1>5. CASE EnterDispatch(p) \/ FinishDispatch(p) \/ FailDispatch(p)
  BY <1>5 DEF EnterDispatch, MayEnter, FinishDispatch, FailDispatch, Throws
<1>6. ASSUME NEW l \in Lenders, TakeNext(p, l)
      PROVE  HistoryGrows
  BY <1>6 DEF TakeNext
<1>7. ASSUME NEW n \in 0..2, NEW r \in BOOLEAN, NEW t \in BOOLEAN,
             ConnectorSend(p, n, r, t)
      PROVE  HistoryGrows
  BY <1>7 DEF ConnectorSend, Deliver, Arrive
<1>8. ASSUME NEW n \in 0..2, NEW r \in BOOLEAN, EmailSend(p, n, r)
      PROVE  HistoryGrows
  BY <1>8 DEF EmailSend, Deliver, Arrive
<1>e. ASSUME NEW n \in 0..1, EmailThrows(p, n)
      PROVE  HistoryGrows
  BY <1>e DEF EmailThrows, Throws, Arrive
<1>9. CASE SheetClaim(p)
  BY <1>9 DEF SheetClaim
<1>10. ASSUME NEW d \in BOOLEAN, SheetUnavailable(p, d)
      PROVE  HistoryGrows
  BY <1>10 DEF SheetUnavailable
<1>11. ASSUME NEW n \in 0..1, NEW r \in BOOLEAN, NEW f \in BOOLEAN,
             SheetAppend(p, n, r, f)
      PROVE  HistoryGrows
  BY <1>11 DEF SheetAppend
<1>12. ASSUME NEW saved \in BOOLEAN, Record(p, saved)
      PROVE  HistoryGrows
  BY <1>12 DEF Record
<1>13. CASE Advance(p) \/ AdvanceFails(p)
  <2>1. UNCHANGED history
    BY <1>13, Zenon DEF Advance, AdvanceFails
  <2> QED
    BY <2>1
<1>14. CASE \/ WorkerSelect(p)
           \/ \E a \in BOOLEAN : Requeue(p, a) \/ GiveUp(p, a)
  BY <1>14 DEF Requeue, Throws, GiveUp, EndJob, WorkerSelect
<1>15. CASE \E a \in BOOLEAN :
           \/ AllFailed(p, a) \/ NoFinalizedLenders(p, a)
           \/ Settle(p, a)
  BY <1>15 DEF AllFailed, EndJob, Throws, NoFinalizedLenders, Settle
<1>16. CASE JobThrows(p) \/ (\E saved \in BOOLEAN : CatchJob(p, saved))
  BY <1>16 DEF JobThrows, CatchJob, Throws
<1> QED
  BY <1>e, <1>1, <1>2, <1>3, <1>4, <1>5, <1>6, <1>7, <1>8, <1>9, <1>10, <1>11,
     <1>12, <1>13, <1>14, <1>15, <1>16 DEF Progress

LEMMA StepGrows == [Next]_vars => HistoryGrows
<1> SUFFICES ASSUME [Next]_vars PROVE HistoryGrows
  OBVIOUS
<1> USE DEF HistoryGrows, Excuse, history
<1>1. ASSUME NEW p \in Senders, NEW chosen \in SUBSET Lenders, RequestSend(p, chosen)
      PROVE  HistoryGrows
  BY <1>1 DEF RequestSend
<1>2. ASSUME NEW p \in Senders, NEW l \in Lenders, RequestResend(p, l)
      PROVE  HistoryGrows
  BY <1>2 DEF RequestResend
<1>3. ASSUME NEW p \in Senders, NEW l \in Lenders, RequestApi(p, l)
      PROVE  HistoryGrows
  BY <1>3 DEF RequestApi
<1>4. ASSUME NEW p \in Senders, NEW l \in Lenders, RequestMark(p, l)
      PROVE  HistoryGrows
  BY <1>4 DEF RequestMark
<1>5. ASSUME NEW p \in Senders, FinalizeSigned(p) PROVE HistoryGrows
  BY <1>5 DEF FinalizeSigned
<1>6. ASSUME NEW w \in Workers, WorkerClaim(w) PROVE HistoryGrows
  BY <1>6 DEF WorkerClaim
<1>7. ASSUME NEW p \in Procs, Crash(p) PROVE HistoryGrows
  BY <1>7 DEF Crash
<1>8. CASE RequestResignature
  BY <1>8 DEF RequestResignature
<1>9. CASE MoveStage
  BY <1>9 DEF MoveStage
<1>10. CASE LockAges
  BY <1>10 DEF LockAges
<1>11. CASE UNCHANGED vars
  BY <1>11 DEF vars
<1> QED
  BY <1>1, <1>2, <1>3, <1>4, <1>5, <1>6, <1>7, <1>8, <1>9, <1>10, <1>11,
     ProgressGrows DEF Next, Request

LEMMA StepInv4 == Inv4 /\ [Next]_vars => Inv4'
<1> SUFFICES ASSUME Inv4, [Next]_vars, ~stolen', NEW l \in Lenders \ excused'
             PROVE  Fresh(l)'
  BY StepInv2 DEF Inv4, FreshInv
<1>0. Inv0 /\ HandlersTyped /\ KindInv /\ LockInv /\ FreshInv
  BY DEF Inv4, Inv2, Inv1, Inv0, HandlersInv
<1>1. ~stolen /\ l \notin excused
  BY StepGrows DEF HistoryGrows
<1>2. Fresh(l)
  BY <1>0, <1>1 DEF FreshInv
<1>3. ASSUME NEW p \in Senders, Request(p) PROVE Fresh(l)'
  BY <1>0, <1>2, <1>3, RequestFresh
<1>4. ASSUME NEW w \in Workers, WorkerClaim(w) PROVE Fresh(l)'
  <2>1. w \in Procs /\ Alone(w)
    BY <1>0, <1>4 DEF HandlersTyped, Procs, WorkerClaim, GoTo, Alone
  <2>2. Quiet(w, l)
    <3>1. pc[w] = "idle" /\ kind[w] = "none" /\ UNCHANGED <<mails, pkg, cur, todo>>
      BY <1>0, <1>4, <2>1 DEF WorkerClaim, KindInv, KindAt, history
    <3> QED
      BY <1>2, <2>1, <3>1 DEF Quiet, Fresh, HopPoints, DispatchPoints
  <2> QED
    BY <1>2, <2>1, <2>2, QuietFresh
<1>5. ASSUME NEW p \in Procs, Progress(p) PROVE Fresh(l)'
  <2>1. Alone(p)
    BY <1>0, <1>5, ProgressAlone
  <2>2. CASE pc[p] \in HopPoints /\ cur[p] = l
    BY <1>0, <1>1, <1>2, <1>5, <2>1, <2>2, ProgressHand, HandFresh
  <2>3. CASE pc[p] \in HopPoints /\ cur[p] # l
    <3>1. kind[p] # "mark"
      BY <1>0, <2>3 DEF KindInv, KindAt, HopPoints, DispatchPoints, LockKinds
    <3> QED
      BY <1>0, <1>2, <1>5, <2>3, <3>1, OtherLender
  <2>4. CASE SelectLenders(p)
    BY <1>0, <1>1, <1>2, <2>4, SelectFresh
  <2>5. ASSUME NEW x \in Lenders, TakeNext(p, x) PROVE Fresh(l)'
    BY <1>0, <1>2, <2>5, TakeFresh
  <2>6. CASE pc[p] \notin HopPoints /\ ~SelectLenders(p)
               /\ ~(\E x \in Lenders : TakeNext(p, x))
    BY <1>0, <1>2, <1>5, <2>1, <2>6, ProgressQuiet, QuietFresh
  <2> QED
    BY <2>2, <2>3, <2>4, <2>5, <2>6
<1>6. ASSUME NEW p \in Procs, Crash(p) PROVE Fresh(l)'
  <2>1. UNCHANGED <<mails, pkg>> /\ Alone(p) /\ todo'[p] = {} /\ cur'[p] = NoLender
    BY <1>0, <1>6 DEF HandlersTyped, Crash, Done, GoTo, Alone, database
  <2>2. cur[p] = l => pc[p] \notin {"sheet", "append", "record"}
    BY <1>6 DEF Crash, Excuse
  <2>3. \A q \in Procs : Carrying(q, l) => Carrying(q, l)'
    BY <2>1, <2>2 DEF Carrying, Alone
  <2>4. l # NoLender
    BY NoLenderAssumption
  <2> QED
    BY <1>2, <2>1, <2>3, <2>4 DEF Fresh, Sent, Alone
<1>7. CASE RequestResignature \/ MoveStage \/ LockAges \/ UNCHANGED vars
  <2>1. UNCHANGED <<pc, kind, todo, cur, ok, mails, pkg>>
    BY <1>7 DEF RequestResignature, MoveStage, LockAges, process, history, vars
  <2> QED
    BY <1>2, <2>1 DEF Fresh, Sent, Carrying
<1> QED
  BY <1>3, <1>4, <1>5, <1>6, <1>7 DEF Next

\* No lender gets a second package from any number of Sends, concurrent or after
\* crashes; a second one has a recorded cause or a stolen lock (orchestrator.ts:235-263).
THEOREM NoDuplicates == Spec => []NoUnexplainedDuplicate
<1>1. Inv4 => NoUnexplainedDuplicate
  BY DEF Inv4, FreshInv, Fresh, Inv2, Inv1, Inv0, HistoryTyped, TwoOrMore,
      NoUnexplainedDuplicate
<1> QED
  BY InitInv4, StepInv4, <1>1, PTL DEF Spec, SafetySpec

\* When no dispatch outlives the ten minutes, a second package always has its
\* cause.
THEOREM NoStallsNoDuplicates ==
  ASSUME ~Stalls
  PROVE  Spec => [](\A l \in Lenders : mails[l] > 1 => l \in excused)
<1>1. NoUnexplainedDuplicate /\ ~stolen => \A l \in Lenders : mails[l] > 1 => l \in
    excused
  BY DEF NoUnexplainedDuplicate
<1>2. Spec => []~stolen
  BY NoStallsNoTheft, PTL
<1> QED
  BY NoDuplicates, <1>1, <1>2, PTL

-------------------------------------------------------------------------------
(* One row per lender in the Google Sheet *)

\* p has claimed the sheet for l and is about to append its row.
Appending(p, l) == pc[p] = "append" /\ cur[p] = l

\* While the claim of l was never lost, it stands for the one row there is or for
\* the one handler that is about to append it.
ClaimInv ==
  \A l \in Lenders \ unclaimed :
    /\ rows[l] \in 0..1
    /\ rows[l] = 1 => sheet[l]
    /\ \A p \in Procs : Appending(p, l) => sheet[l] /\ rows[l] = 0
    /\ \A p, q \in Procs : Appending(p, l) /\ Appending(q, l) => p = q

\* A step that leaves the sheet alone and brings nobody to append keeps it.
LEMMA SheetUntouched ==
  ASSUME ClaimInv, UNCHANGED <<sheet, rows, unclaimed>>,
         \A q \in Procs : pc'[q] = "append" => pc[q] = "append" /\ cur'[q] = cur[q]
  PROVE  ClaimInv'
BY DEF ClaimInv, Appending

\* So does everything a handler does but its steps at the sheet.
LEMMA ProgressOffSheet ==
  ASSUME Inv0, NEW p \in Procs, Progress(p), pc[p] \notin {"sheet", "append"}
  PROVE  UNCHANGED <<sheet, rows, unclaimed>> /\ pc'[p] # "append"
<1> USE DEF Done, GoTo, database, history
<1>0. HandlersTyped
  BY DEF Inv0, HandlersInv
<1>1. CASE ClaimLock(p) \/ LockBusy(p) \/ ClaimLost(p) \/ Release(p)
  BY <1>0, <1>1 DEF ClaimLock, LockBusy, ClaimLost, Release, HandlersTyped
<1>2. CASE PassGate(p) \/ HoldBack(p) \/ SelectLenders(p) \/ SelectThrows(p)
  BY <1>0, <1>2 DEF PassGate, HoldBack, SelectLenders, SelectThrows, HandlersTyped
<1>3. CASE MarkRow(p) \/ EnqueueJob(p)
  BY <1>0, <1>3 DEF MarkRow, EnqueueJob, HandlersTyped
<1>4. CASE EnterDispatch(p) \/ FailDispatch(p) \/ FinishDispatch(p)
  BY <1>0, <1>4 DEF EnterDispatch, FailDispatch, Throws, FinishDispatch, HandlersTyped
<1>5. ASSUME NEW l \in Lenders, TakeNext(p, l)
      PROVE  UNCHANGED <<sheet, rows, unclaimed>> /\ pc'[p] # "append"
  BY <1>0, <1>5 DEF TakeNext, FirstHop, HandlersTyped
<1>6. ASSUME NEW n \in 0..2, NEW r \in BOOLEAN, NEW t \in BOOLEAN,
             ConnectorSend(p, n, r, t)
      PROVE  UNCHANGED <<sheet, rows, unclaimed>> /\ pc'[p] # "append"
  BY <1>0, <1>6 DEF ConnectorSend, Deliver, Arrive, HandlersTyped
<1>7. ASSUME NEW n \in 0..2, NEW r \in BOOLEAN, EmailSend(p, n, r)
      PROVE  UNCHANGED <<sheet, rows, unclaimed>> /\ pc'[p] # "append"
  BY <1>0, <1>7 DEF EmailSend, Deliver, Arrive, HandlersTyped
<1>e. ASSUME NEW n \in 0..1, EmailThrows(p, n)
      PROVE  UNCHANGED <<sheet, rows, unclaimed>> /\ pc'[p] # "append"
  BY <1>0, <1>e DEF EmailThrows, Throws, Arrive, HandlersTyped
<1>8. ASSUME NEW saved \in BOOLEAN, Record(p, saved)
      PROVE  UNCHANGED <<sheet, rows, unclaimed>> /\ pc'[p] # "append"
  BY <1>0, <1>8 DEF Record, HandlersTyped
<1>9. CASE Advance(p) \/ AdvanceFails(p)
  BY <1>0, <1>9 DEF Advance, AdvanceFails, AfterAdvance, HandlersTyped
<1>10. CASE \/ WorkerSelect(p)
           \/ \E a \in BOOLEAN : \/ Requeue(p, a) \/ GiveUp(p, a)
                                 \/ NoFinalizedLenders(p, a)
  BY <1>0, <1>10 DEF Requeue, Throws, AfterRequeue, GiveUp, EndJob, WorkerSelect,
      NoFinalizedLenders, HandlersTyped
<1>11. CASE \E a \in BOOLEAN : AllFailed(p, a) \/ Settle(p, a)
  BY <1>0, <1>11 DEF AllFailed, EndJob, Throws, Settle, HandlersTyped
<1>12. CASE JobThrows(p) \/ (\E saved \in BOOLEAN : CatchJob(p, saved))
  BY <1>0, <1>12 DEF JobThrows, CatchJob, Throws, HandlersTyped
<1> QED
  BY <1>e, <1>1, <1>2, <1>3, <1>4, <1>5, <1>6, <1>7, <1>8, <1>9, <1>10, <1>11, <1>12
  DEF Progress, SheetClaim, SheetUnavailable, SheetAppend

\* The claim admits one handler, and none to a sheet that has the row.
LEMMA ClaimKeeps ==
  ASSUME Inv0, ClaimInv, NEW p \in Procs, SheetClaim(p)
  PROVE  ClaimInv'
<1>1. /\ HandlersTyped /\ HistoryTyped /\ RowsTyped /\ Alone(p) /\ cur[p] \in Lenders
      /\ pc[p] = "sheet"
  BY ProgressAlone DEF Inv0, HandlersInv, HopPoints, Progress, SheetClaim
<1>2. /\ UNCHANGED <<rows, unclaimed>> /\ cur' = cur
      /\ pc'[p] = "append" => ~sheet[cur[p]]
      /\ sheet'[cur[p]] /\ \A l \in Lenders : sheet[l] => sheet'[l]
  BY <1>1 DEF SheetClaim, AlreadyClaimed, GoTo, HandlersTyped, RowsTyped, history
<1> SUFFICES ASSUME NEW l \in Lenders \ unclaimed
             PROVE  /\ rows[l] \in 0..1
                    /\ rows[l] = 1 => sheet'[l]
                    /\ \A q \in Procs : Appending(q, l)' => sheet'[l] /\ rows[l] = 0
                    /\ \A q, r \in Procs : Appending(q, l)' /\ Appending(r, l)' => q = r
  BY <1>2 DEF ClaimInv
<1>3. rows[l] \in 0..1 /\ (rows[l] = 1 => sheet[l] /\ sheet'[l])
  BY <1>2 DEF ClaimInv
<1>4. ASSUME NEW q \in Procs, Appending(q, l)'
      PROVE  /\ sheet'[l] /\ rows[l] = 0
             /\ q = p \/ Appending(q, l)
             /\ q = p => ~sheet[l]
  <2>1. CASE q = p
    <3>1. cur[p] = l /\ ~sheet[l] /\ sheet'[l]
      BY <1>2, <1>4, <2>1 DEF Appending
    <3> QED
      BY <1>3, <2>1, <3>1
  <2>2. CASE q # p
    <3>1. Appending(q, l)
      BY <1>1, <1>4, <2>2 DEF Appending, Alone
    <3> QED
      BY <1>2, <2>2, <3>1 DEF ClaimInv
  <2> QED
    BY <2>1, <2>2
<1>5. ASSUME NEW q \in Procs, Appending(q, l) PROVE sheet[l]
  BY <1>5 DEF ClaimInv
<1>6. ASSUME NEW q \in Procs, NEW r \in Procs, Appending(q, l)', Appending(r, l)'
      PROVE  q = r
  BY <1>4, <1>5, <1>6 DEF ClaimInv
<1> QED
  BY <1>3, <1>4, <1>6

\* A claim that goes is on record, if it stood for anything.
LEMMA UnavailableKeeps ==
  ASSUME Inv0, ClaimInv, NEW p \in Procs, NEW c \in BOOLEAN, SheetUnavailable(p, c)
  PROVE  ClaimInv'
<1>1. /\ HandlersTyped /\ RowsTyped /\ Alone(p) /\ cur[p] \in Lenders
      /\ pc[p] = "sheet"
  BY ProgressAlone DEF Inv0, HandlersInv, HopPoints, Progress, SheetUnavailable
<1>2. /\ rows' = rows /\ cur' = cur /\ pc'[p] # "append"
      /\ unclaimed \subseteq unclaimed'
      /\ \A l \in Lenders \ unclaimed' : sheet[l] => sheet'[l]
  BY <1>1 DEF SheetUnavailable, Unclaim, GoTo, HandlersTyped, RowsTyped
<1> QED
  BY <1>1, <1>2 DEF ClaimInv, Appending, Alone

\* Whoever appends held the only claim and the sheet had no row.
LEMMA AppendKeeps ==
  ASSUME Inv0, ClaimInv, NEW p \in Procs, NEW n \in 0..1, NEW r \in BOOLEAN,
         NEW f \in BOOLEAN, SheetAppend(p, n, r, f)
  PROVE  ClaimInv'
<1>1. /\ HandlersTyped /\ HistoryTyped /\ RowsTyped /\ Alone(p)
      /\ cur[p] \in Lenders /\ pc[p] = "append"
  BY ProgressAlone DEF Inv0, HandlersInv, HopPoints, Progress, SheetAppend
<1>2. /\ cur' = cur /\ pc'[p] # "append" /\ unclaimed \subseteq unclaimed'
      /\ \A l \in Lenders \ {cur[p]} : rows'[l] = rows[l] /\ sheet'[l] = sheet[l]
  BY <1>1 DEF SheetAppend, Unclaim, GoTo, HandlersTyped, HistoryTyped, RowsTyped
<1> SUFFICES ASSUME NEW l \in Lenders \ unclaimed', cur[p] = l
             PROVE  /\ rows'[l] \in 0..1
                    /\ rows'[l] = 1 => sheet'[l]
                    /\ \A q \in Procs : ~Appending(q, l)'
  BY <1>1, <1>2 DEF ClaimInv, Appending, Alone
<1>3. rows[l] = 0 /\ sheet[l] /\ \A q \in Procs \ {p} : ~Appending(q, l)
  BY <1>1, <1>2 DEF ClaimInv, Appending
<1>4. rows'[l] = n
  BY <1>1, <1>3 DEF SheetAppend, HistoryTyped, Count, TwoOrMore
<1>5. n = 1 => sheet'[l]
  BY <1>1, <1>3 DEF SheetAppend, Unclaim, RowsTyped
<1>6. \A q \in Procs : ~Appending(q, l)'
  BY <1>1, <1>2, <1>3 DEF Appending, Alone
<1> QED
  BY <1>4, <1>5, <1>6

Inv5 == Inv1 /\ ClaimInv

LEMMA InitInv5 == Init => Inv5
<1>1. ASSUME Init PROVE ClaimInv
  <2>1. rows = [l \in Lenders |-> 0] /\ pc = [p \in Procs |-> "idle"]
    BY <1>1, Zenon DEF Init
  <2> QED
    BY <2>1 DEF ClaimInv, Appending
<1> QED
  BY <1>1, InitInv1 DEF Inv5

LEMMA StepInv5 == Inv5 /\ [Next]_vars => Inv5'
<1> SUFFICES ASSUME Inv5, [Next]_vars PROVE ClaimInv'
  BY StepInv1 DEF Inv5
<1>0. Inv0 /\ HandlersTyped /\ ClaimInv
  BY DEF Inv5, Inv1, Inv0, HandlersInv
<1>1. ASSUME NEW p \in Senders, Request(p) PROVE ClaimInv'
  <2>1. UNCHANGED <<sheet, rows, unclaimed>>
    BY <1>1 DEF Request, RequestSend, RequestResend, RequestApi, RequestMark,
        FinalizeSigned, database, history
  <2>2. cur' = cur /\ \A q \in Procs : pc'[q] = "append" => pc[q] = "append"
    BY <1>0, <1>1 DEF HandlersTyped, Procs, Request, RequestSend, RequestResend,
        RequestApi, RequestMark, FinalizeSigned, Start, GoTo
  <2> QED
    BY <1>0, <2>1, <2>2, SheetUntouched
<1>2. ASSUME NEW w \in Workers, WorkerClaim(w) PROVE ClaimInv'
  BY <1>0, <1>2, SheetUntouched DEF HandlersTyped, Procs, WorkerClaim, GoTo, history
<1>3. ASSUME NEW p \in Procs, Progress(p) PROVE ClaimInv'
  <2>1. CASE pc[p] \notin {"sheet", "append"}
    BY <1>0, <1>3, <2>1, ProgressOffSheet, ProgressAlone, SheetUntouched DEF Alone
  <2>2. CASE SheetClaim(p)
    BY <1>0, <2>2, ClaimKeeps
  <2>3. ASSUME NEW c \in BOOLEAN, SheetUnavailable(p, c) PROVE ClaimInv'
    BY <1>0, <2>3, UnavailableKeeps
  <2>4. ASSUME NEW n \in 0..1, NEW r \in BOOLEAN, NEW f \in BOOLEAN,
               SheetAppend(p, n, r, f)
        PROVE  ClaimInv'
    BY <1>0, <2>4, AppendKeeps
  <2>5. CASE pc[p] \in {"sheet", "append"}
    <3>1. \/ SheetClaim(p)
          \/ \E c \in BOOLEAN : SheetUnavailable(p, c)
          \/ \E n \in 0..1, r, f \in BOOLEAN : SheetAppend(p, n, r, f)
      BY <1>3, <2>5 DEF Progress, ClaimLock, LockBusy, ClaimLost, Release, PassGate,
          HoldBack, SelectLenders, SelectThrows, MarkRow, EnqueueJob, EnterDispatch,
          MayEnter, FailDispatch, Throws, FinishDispatch, TakeNext, ConnectorSend,
          EmailSend, EmailThrows, Record, Advance, AdvanceFails, Requeue,
          AfterRequeue, GiveUp, EndJob, WorkerSelect, NoFinalizedLenders, AllFailed,
          JobThrows, CatchJob, Settle
    <3> QED
      BY <2>2, <2>3, <2>4, <3>1
  <2> QED
    BY <2>1, <2>5
<1>4. ASSUME NEW p \in Procs, Crash(p) PROVE ClaimInv'
  <2>1. UNCHANGED <<sheet, rows, unclaimed>>
    BY <1>4 DEF Crash, database
  <2>2. \A q \in Procs : pc'[q] = "append" => pc[q] = "append" /\ cur'[q] = cur[q]
    BY <1>0, <1>4 DEF HandlersTyped, Crash, Done, GoTo
  <2> QED
    BY <1>0, <2>1, <2>2, SheetUntouched
<1>5. CASE RequestResignature \/ MoveStage \/ LockAges \/ UNCHANGED vars
  <2>1. UNCHANGED <<pc, cur, sheet, rows, unclaimed>>
    BY <1>5 DEF RequestResignature, MoveStage, LockAges, process, history, vars
  <2> QED
    BY <1>0, <2>1, SheetUntouched
<1> QED
  BY <1>1, <1>2, <1>3, <1>4, <1>5 DEF Next

\* However dispatches overlap, die or repeat, a lender's sheet gets a second row
\* only after its claim was deleted while a row was there or on its way
\* (dispatchToSelected.ts:54, 74-83, 131).
THEOREM OneSheetRow == Spec => []SheetRowOnce
<1>1. Inv5 => SheetRowOnce
  BY DEF Inv5, ClaimInv, SheetRowOnce
<1> QED
  BY InitInv5, StepInv5, <1>1, PTL DEF Spec, SafetySpec

-------------------------------------------------------------------------------
(* The package job is a retried job *)

JobOwners == {w \in Workers : kind[w] = "worker"}

\* The steps of RetriedJobs that the package job takes, in terms of its row.
RowStep ==
  \/ UNCHANGED <<JobStatus, Counted, JobOwners>>
  \/ /\ JobStatus = "none" /\ JobStatus' = "waiting"
     /\ UNCHANGED <<Counted, JobOwners>>
  \/ JobOwners' = {} /\ UNCHANGED <<JobStatus, Counted>>
  \/ \E w \in Workers :
       \/ /\ JobStatus \in {"waiting", "running"} /\ JobOwners = {}
          /\ JobStatus' = "running" /\ JobOwners' = {w} /\ UNCHANGED Counted
       \/ /\ JobOwners = {w} /\ UNCHANGED <<JobStatus, JobOwners>>
          /\ Counted' = Counted + 1 /\ Counted' < MaxUnsigned
       \/ /\ JobOwners = {w} /\ JobOwners' = {}
          /\ JobStatus' = "done" /\ UNCHANGED Counted
       \/ /\ JobOwners = {w} /\ JobOwners' = {}
          /\ Counted' \in {Counted, Counted + 1}
          /\ \/ JobStatus' = "givenUp"
             \/ JobStatus' = "waiting" /\ Counted' < MaxUnsigned

LEMMA RowStepIsStep == RowStep => Queue!Next
<1> SUFFICES ASSUME RowStep, NEW j \in PackageJob PROVE Queue!Step(j)
  BY DEF Queue!Next
<1> USE DEF JobOwners, Queue!Step
<1>1. CASE UNCHANGED <<JobStatus, Counted, JobOwners>>
  BY <1>1 DEF Queue!Keep
<1>2. CASE /\ JobStatus = "none" /\ JobStatus' = "waiting"
           /\ UNCHANGED <<Counted, JobOwners>>
  BY <1>2 DEF Queue!Enqueue
<1>3. CASE JobOwners' = {} /\ UNCHANGED <<JobStatus, Counted>>
  BY <1>3 DEF Queue!Lose
<1>4. ASSUME NEW w \in Workers,
             JobStatus \in {"waiting", "running"}, JobOwners = {},
             JobStatus' = "running", JobOwners' = {w}, UNCHANGED Counted
      PROVE  Queue!Step(j)
  <2>1. Queue!Claim(j, w)
    BY <1>4 DEF Queue!Claim, Queue!Open
  <2> QED
    BY <2>1
<1>5. ASSUME NEW w \in Workers,
             JobOwners = {w}, UNCHANGED <<JobStatus, JobOwners>>,
             Counted' = Counted + 1, Counted' < MaxUnsigned
      PROVE  Queue!Step(j)
  <2>1. Queue!CountFailure(j, w)
    BY <1>5 DEF Queue!CountFailure
  <2> QED
    BY <2>1
<1>6. ASSUME NEW w \in Workers,
             JobOwners = {w}, JobOwners' = {}, JobStatus' = "done", UNCHANGED Counted
      PROVE  Queue!Step(j)
  <2>1. Queue!Finish(j, w)
    BY <1>6 DEF Queue!Finish
  <2> QED
    BY <2>1
<1>7. ASSUME NEW w \in Workers,
             JobOwners = {w}, JobOwners' = {}, Counted' \in {Counted, Counted + 1},
             \/ JobStatus' = "givenUp"
             \/ JobStatus' = "waiting" /\ Counted' < MaxUnsigned
      PROVE  Queue!Step(j)
  <2>1. Queue!Fail(j, w)
    BY <1>7 DEF Queue!Fail
  <2> QED
    BY <2>1
<1> QED
  BY <1>1, <1>2, <1>3, <1>4, <1>5, <1>6, <1>7 DEF RowStep

\* A worker that has the job in hand is its only owner, and the job counts as
\* running.
LEMMA OneInHand ==
  ASSUME Inv1, NEW p \in Procs, kind[p] = "worker"
  PROVE  /\ p \in Workers /\ InHand /\ JobOwners = {p}
         /\ JobStatus = "running"
<1>1. p \in Workers /\ \A q \in Procs : kind[q] = "worker" => q = p
  BY DEF Inv1, JobInv
<1>2. InHand /\ JobOwners = {p}
  BY <1>1 DEF InHand, JobOwners, Procs
<1> QED
  BY <1>1, <1>2 DEF JobStatus

\* The worker's last step for the job: it was the owner, nobody is any more, and the
\* row says what became of the job.
LEMMA OwnerLeaves ==
  ASSUME Inv1, NEW p \in Procs, kind[p] = "worker", kind'[p] # "worker",
         \A q \in Procs \ {p} : kind'[q] = kind[q],
         \/ job' \in {"pending", "running", "completed", "failed"}
            /\ attempts' = attempts
         \/ job' = "failed" /\ attempts' = attempts + 1
         \/ job' = "pending" /\ attempts' = attempts + 1 /\ attempts' < MaxUnsigned
  PROVE  RowStep
<1>1. /\ p \in Workers /\ InHand /\ JobOwners = {p} /\ JobStatus = "running"
  BY OneInHand
<1>2. ~InHand' /\ JobOwners' = {}
  BY DEF Inv1, JobInv, InHand, JobOwners, Procs
<1>3. attempts \in Nat
  BY AttemptsAssumption DEF Inv1, Inv0, RowsTyped
<1>4. Counted = IF attempts > MaxUnsigned - 1 THEN MaxUnsigned - 1 ELSE attempts
  BY <1>1 DEF Counted
<1>5. CASE job' = "completed" /\ attempts' = attempts
  <2>1. JobStatus' = "done" /\ Counted' = Counted
    BY <1>2, <1>4, <1>5 DEF JobStatus, Counted, PastLimit
  <2> QED
    BY <1>1, <1>2, <2>1 DEF RowStep
<1>6. CASE job' = "failed" /\ attempts' \in {attempts, attempts + 1}
  <2>1. JobStatus' = "givenUp"
    BY <1>2, <1>6 DEF JobStatus, PastLimit
  <2>2. Counted' \in {Counted, Counted + 1}
    BY <1>3, <1>4, <1>6, <2>1, AttemptsAssumption DEF Counted
  <2> QED
    BY <1>1, <1>2, <2>1, <2>2 DEF RowStep
<1>7. CASE job' = "pending" /\ attempts' \in {attempts, attempts + 1}
           /\ attempts' < MaxUnsigned
  <2>1. JobStatus' = "waiting"
    BY <1>2, <1>3, <1>7, AttemptsAssumption DEF JobStatus, PastLimit
  <2>2. Counted' \in {Counted, Counted + 1} /\ Counted' < MaxUnsigned
    BY <1>3, <1>4, <1>7, <2>1, AttemptsAssumption DEF Counted
  <2> QED
    BY <1>1, <1>2, <2>1, <2>2 DEF RowStep
<1>8. CASE /\ attempts' = attempts
           /\ job' = "running" \/ (job' = "pending" /\ ~(attempts' < MaxUnsigned))
  <2>1. JobStatus' = "running"
    BY <1>3, <1>8, AttemptsAssumption DEF JobStatus, PastLimit
  <2>2. Counted' = Counted
    BY <1>4, <1>8, <2>1 DEF Counted
  <2> QED
    BY <1>1, <1>2, <2>1, <2>2 DEF RowStep
<1> QED
  BY <1>5, <1>6, <1>7, <1>8

\* While it has the job in hand it may count an attempt, which the row shows up to
\* the limit.
LEMMA OwnerStays ==
  ASSUME Inv1, NEW p \in Procs, kind[p] = "worker", kind' = kind,
         attempts' \in {attempts, attempts + 1}
  PROVE  RowStep
<1>1. /\ p \in Workers /\ InHand /\ JobOwners = {p} /\ JobStatus = "running"
  BY OneInHand
<1>2. InHand' /\ JobOwners' = JobOwners
  BY <1>1 DEF InHand, JobOwners
<1>3. JobStatus' = JobStatus
  BY <1>1, <1>2 DEF JobStatus
<1>4. attempts \in Nat
  BY AttemptsAssumption DEF Inv1, Inv0, RowsTyped
<1>5. Counted' = Counted \/ (Counted' = Counted + 1 /\ Counted' < MaxUnsigned)
  BY <1>1, <1>3, <1>4, AttemptsAssumption DEF Counted
<1> QED
  BY <1>1, <1>2, <1>3, <1>5 DEF RowStep

\* A step that does not write the row at most loses its owner.
LEMMA RowUntouched ==
  ASSUME Inv1, UNCHANGED <<job, attempts>>, NEW p \in Procs,
         kind'[p] = "worker" => kind[p] = "worker",
         \A q \in Procs \ {p} : kind'[q] = kind[q]
  PROVE  RowStep
<1>1. CASE kind[p] = "worker" /\ kind'[p] # "worker"
  <2>1. job' \in {"pending", "running", "completed", "failed"}
    BY <1>1 DEF Inv1, JobInv, Inv0, RowsTyped, JobStates
  <2> QED
    BY <1>1, <2>1, OwnerLeaves
<1>2. CASE ~(kind[p] = "worker" /\ kind'[p] # "worker")
  <2>1. \A q \in Procs : kind'[q] = "worker" <=> kind[q] = "worker"
    BY <1>2
  <2>2. JobOwners' = JobOwners /\ (InHand' <=> InHand)
    BY <2>1 DEF JobOwners, InHand, Procs
  <2>3. UNCHANGED <<JobStatus, Counted>>
    BY <2>2 DEF JobStatus, Counted, PastLimit
  <2> QED
    BY <2>2, <2>3 DEF RowStep
<1> QED
  BY <1>1, <1>2

\* What the worker does with its job ...
LEMMA WorkerRowStep ==
  ASSUME Inv1, NEW p \in Procs,
         \/ \E a \in BOOLEAN :
              \/ Requeue(p, a) \/ GiveUp(p, a) \/ NoFinalizedLenders(p, a)
              \/ AllFailed(p, a) \/ Settle(p, a)
         \/ JobThrows(p)
         \/ \E saved \in BOOLEAN : CatchJob(p, saved)
  PROVE  RowStep
<1>0. /\ HandlersTyped /\ JobInv /\ kind[p] = "worker" /\ job \in JobStates
      /\ job # "none" /\ attempts \in Nat
  BY AttemptsAssumption
  DEF Inv1, Inv0, HandlersInv, RowsTyped, JobInv, Leaving, Requeue, GiveUp,
      NoFinalizedLenders, AllFailed, Settle, JobThrows, CatchJob
<1>1. Done(p) => /\ kind'[p] # "worker"
                 /\ \A q \in Procs \ {p} : kind'[q] = kind[q]
  BY <1>0 DEF Done, HandlersTyped
<1>2. ASSUME NEW a \in BOOLEAN, Requeue(p, a) PROVE RowStep
  <2>1. job' = "pending" /\ attempts' = attempts + 1
    BY <1>2 DEF Requeue, NextAttempts
  <2>2. CASE a /\ ~(attempts + 1 >= MaxUnsigned)
    <3>1. Done(p) /\ attempts' < MaxUnsigned
      BY <1>0, <1>2, <2>1, <2>2, AttemptsAssumption
      DEF Requeue, AfterRequeue, NextAttempts
    <3> QED
      BY <1>0, <1>1, <2>1, <3>1, OwnerLeaves
  <2>3. CASE ~(a /\ ~(attempts + 1 >= MaxUnsigned))
    <3>1. kind' = kind
      BY <1>2, <2>3 DEF Requeue, AfterRequeue, NextAttempts, Throws
    <3> QED
      BY <1>0, <2>1, <3>1, OwnerStays
  <2> QED
    BY <2>2, <2>3
<1>3. ASSUME NEW a \in BOOLEAN,
             \/ GiveUp(p, a) \/ NoFinalizedLenders(p, a)
             \/ AllFailed(p, a) \/ Settle(p, a)
      PROVE  RowStep
  <2>1. /\ job' \in {"completed", "failed"} /\ attempts' = attempts
        /\ IF a THEN Done(p) ELSE Throws(p)
    BY <1>3 DEF GiveUp, NoFinalizedLenders, AllFailed, Settle, EndJob
  <2>2. CASE a
    BY <1>0, <1>1, <2>1, <2>2, OwnerLeaves
  <2>3. CASE ~a
    <3>1. kind' = kind
      BY <2>1, <2>3 DEF Throws
    <3> QED
      BY <1>0, <2>1, <3>1, OwnerStays
  <2> QED
    BY <2>2, <2>3
<1>4. CASE JobThrows(p)
  <2>1. kind' = kind /\ attempts' = attempts
    BY <1>4 DEF JobThrows, Throws, database
  <2> QED
    BY <1>0, <2>1, OwnerStays
<1>5. ASSUME NEW saved \in BOOLEAN, CatchJob(p, saved) PROVE RowStep
  <2>1. Done(p)
    BY <1>5 DEF CatchJob
  <2>2. CASE saved
    <3>1. attempts' = attempts + 1 /\ job' = AfterThrow
      BY <1>5, <2>2 DEF CatchJob, NextAttempts
    <3>2. job' = "failed" \/ (job' = "pending" /\ attempts' < MaxUnsigned)
      BY <1>0, <3>1, AttemptsAssumption DEF AfterThrow, NextAttempts
    <3> QED
      BY <1>0, <1>1, <2>1, <3>1, <3>2, OwnerLeaves
  <2>3. CASE ~saved
    <3>1. UNCHANGED <<job, attempts>>
      BY <1>5, <2>3 DEF CatchJob
    <3> QED
      BY <1>0, <1>1, <2>1, <3>1, RowUntouched
  <2> QED
    BY <2>2, <2>3
<1> QED
  BY <1>2, <1>3, <1>4, <1>5

\* ... signing queues it once ...
LEMMA EnqueueRowStep ==
  ASSUME Inv1, NEW p \in Procs, EnqueueJob(p)
  PROVE  RowStep
<1>0. HandlersTyped /\ JobInv
  BY DEF Inv1, Inv0, HandlersInv
<1>1. /\ attempts' = attempts /\ kind'[p] # "worker"
      /\ \A q \in Procs \ {p} : kind'[q] = kind[q]
  BY <1>0 DEF EnqueueJob, Done, HandlersTyped
<1>2. CASE job # "none"
  <2>1. job' = job
    BY <1>2 DEF EnqueueJob
  <2> QED
    BY <1>1, <2>1, RowUntouched
<1>3. CASE job = "none"
  <2>1. job' = "pending" /\ attempts = 0
    BY <1>0, <1>3 DEF EnqueueJob, JobInv
  <2>2. \A q \in Procs : kind[q] # "worker" /\ kind'[q] # "worker"
    BY <1>0, <1>1, <1>3 DEF JobInv
  <2>3. JobOwners' = JobOwners /\ ~InHand /\ ~InHand'
    BY <2>2 DEF JobOwners, InHand, Procs
  <2>4. JobStatus = "none" /\ JobStatus' = "waiting"
    BY <1>1, <1>3, <2>1, <2>3, AttemptsAssumption DEF JobStatus, PastLimit
  <2>5. Counted' = Counted
    BY <1>1, <2>4 DEF Counted
  <2> QED
    BY <2>3, <2>4, <2>5 DEF RowStep
<1> QED
  BY <1>2, <1>3

\* ... and nothing else a handler does writes it.
LEMMA ProgressRowStep ==
  ASSUME Inv1, NEW p \in Procs, Progress(p)
  PROVE  RowStep
<1>0. HandlersTyped
  BY DEF Inv1, Inv0, HandlersInv
<1> DEFINE OfTheJob ==
      \/ EnqueueJob(p)
      \/ \E a \in BOOLEAN :
           \/ Requeue(p, a) \/ GiveUp(p, a) \/ NoFinalizedLenders(p, a)
           \/ AllFailed(p, a) \/ Settle(p, a)
      \/ JobThrows(p)
      \/ \E saved \in BOOLEAN : CatchJob(p, saved)
<1>1. CASE OfTheJob
  BY <1>1, WorkerRowStep, EnqueueRowStep
<1>2. CASE ~OfTheJob
  <2>1. UNCHANGED <<job, attempts>>
    BY <1>2
    DEF Progress, ClaimLock, LockBusy, ClaimLost, Release, PassGate, HoldBack,
        SelectLenders, SelectThrows, MarkRow, EnterDispatch, FailDispatch,
        FinishDispatch, TakeNext, ConnectorSend, EmailSend, EmailThrows, Deliver,
        SheetClaim, SheetUnavailable, SheetAppend, Record, Advance, AdvanceFails,
        WorkerSelect, database
  <2>2. kind' = kind \/ kind' = [kind EXCEPT ![p] = "none"]
    BY <1>2
    DEF Progress, ClaimLock, LockBusy, ClaimLost, Release, PassGate, HoldBack,
        SelectLenders, SelectThrows, MarkRow, EnterDispatch, FailDispatch, Throws,
        FinishDispatch, TakeNext, ConnectorSend, EmailSend, EmailThrows, Deliver,
        SheetClaim, SheetUnavailable, SheetAppend, Record, Advance, AdvanceFails,
        AfterAdvance, WorkerSelect, Done
  <2>3. /\ kind'[p] = "worker" => kind[p] = "worker"
        /\ \A q \in Procs \ {p} : kind'[q] = kind[q]
    BY <1>0, <2>2 DEF HandlersTyped
  <2> QED
    BY <2>1, <2>3, RowUntouched
<1> QED
  BY <1>1, <1>2

LEMMA StepIsRowStep == Inv1 /\ [Next]_vars => RowStep
<1> SUFFICES ASSUME Inv1, [Next]_vars PROVE RowStep
  OBVIOUS
<1>0. HandlersTyped /\ RowsTyped /\ JobInv
  BY DEF Inv1, Inv0, HandlersInv
<1>1. ASSUME NEW p \in Senders, Request(p) PROVE RowStep
  <2>1. /\ kind'[p] # "worker"
        /\ \A q \in Procs \ {p} : kind'[q] = kind[q]
        /\ UNCHANGED <<job, attempts>>
    BY <1>0, <1>1, RequestsAssumption
    DEF HandlersTyped, Procs, Request, RequestKinds, RequestSend, RequestResend,
        RequestApi, RequestMark, FinalizeSigned, Start, database
  <2> QED
    BY <2>1, RowUntouched DEF Procs
<1>2. ASSUME NEW w \in Workers, WorkerClaim(w) PROVE RowStep
  <2>1. job = "pending" /\ job' = "running" /\ attempts' = attempts
    BY <1>2 DEF WorkerClaim, ReadyJobs
  <2>2. \A q \in Procs : kind[q] # "worker"
    BY <1>0, <1>2, <2>1 DEF WorkerClaim, Due, JobInv
  <2>3. /\ kind'[w] = "worker"
        /\ \A q \in Workers \ {w} : kind'[q] = kind[q]
    BY <1>0, <1>2 DEF WorkerClaim, HandlersTyped, Procs
  <2>4. JobOwners = {} /\ JobOwners' = {w} /\ ~InHand /\ InHand'
    BY <2>2, <2>3 DEF JobOwners, InHand, Procs
  <2>5. JobStatus \in {"waiting", "running"} /\ JobStatus' = "running"
    BY <2>1, <2>4 DEF JobStatus, PastLimit
  <2>6. Counted' = Counted
    BY <2>1, <2>5 DEF Counted
  <2> QED
    BY <2>4, <2>5, <2>6 DEF RowStep
<1>3. ASSUME NEW p \in Procs, Progress(p) PROVE RowStep
  BY <1>3, ProgressRowStep
<1>4. ASSUME NEW p \in Procs, Crash(p) PROVE RowStep
  <2>1. UNCHANGED <<job, attempts>>
    BY <1>4 DEF Crash, database
  <2>2. kind'[p] # "worker" /\ \A q \in Procs \ {p} : kind'[q] = kind[q]
    BY <1>0, <1>4 DEF Crash, Done, HandlersTyped
  <2> QED
    BY <2>1, <2>2, RowUntouched
<1>5. CASE RequestResignature \/ MoveStage \/ LockAges \/ UNCHANGED vars
  <2>1. UNCHANGED <<job, attempts, kind>>
    BY <1>5 DEF RequestResignature, MoveStage, LockAges, process, vars
  <2> QED
    BY <2>1 DEF RowStep, JobStatus, Counted, PastLimit, InHand, JobOwners
<1> QED
  BY <1>1, <1>2, <1>3, <1>4, <1>5 DEF Next

\* LenderDispatch implements RetriedJobs, for any limits, also when a worker dies
\* between the two updates that give a job up, or loses the answer to the one that
\* ends it (lenderPackageWorker.ts:57-80, 200-232).
THEOREM JobIsRetried == Spec => PackageJobIsRetried
<1>1. Init => Queue!Init
  <2> SUFFICES ASSUME Init PROVE Queue!Init
    OBVIOUS
  <2>1. job = "none" /\ attempts = 0
    BY DEF Init
  <2>2. ~InHand /\ {w \in Workers : kind[w] = "worker"} = {}
    BY DEF Init, InHand, Procs
  <2>3. JobStatus = "none"
    BY <2>1, <2>2 DEF JobStatus, PastLimit
  <2>4. Counted = 0
    BY <2>1, AttemptsAssumption DEF Counted
  <2> QED
    BY <2>2, <2>3, <2>4 DEF Queue!Init
<1>2. Inv1 /\ [Next]_vars => [Queue!Next]_(Queue!vars)
  BY StepIsRowStep, RowStepIsStep
<1> QED
  BY Inv1Always, <1>1, <1>2, PTL DEF Spec, SafetySpec, PackageJobIsRetried, Queue!Spec

\* What RetriedJobsProofs says of the package job's row.
Row == INSTANCE RetriedJobsProofs
  WITH Jobs <- PackageJob, Runners <- Workers, Limit <- MaxUnsigned,
       status <- [j \in PackageJob |-> JobStatus],
       attempts <- [j \in PackageJob |-> Counted],
       owners <- [j \in PackageJob |-> {w \in Workers : kind[w] = "worker"}],
       contested <- {}

LEMMA RowRetried == Spec => Row!Spec
<1>1. Queue!Init => Row!Init
  BY DEF Queue!Init, Row!Init
<1>2. [Queue!Next]_(Queue!vars) => [Row!Next]_(Row!vars)
  <2>1. Queue!vars = Row!vars /\ Queue!vars' = Row!vars'
    BY DEF Queue!vars, Row!vars
  <2>2. \A j \in PackageJob : Queue!Step(j) => Row!Step(j)
    BY DEF Queue!Step, Queue!Keep, Queue!Enqueue, Queue!Lose, Queue!Reset,
        Queue!Claim, Queue!CountFailure, Queue!Finish, Queue!Fail, Queue!Open,
        Row!Step, Row!Keep, Row!Enqueue, Row!Lose, Row!Reset, Row!Claim,
        Row!CountFailure, Row!Finish, Row!Fail, Row!Open
  <2>3. Queue!Next => Row!Next
    BY <2>2 DEF Queue!Next, Row!Next
  <2> QED
    BY <2>1, <2>3
<1> QED
  BY JobIsRetried, <1>1, <1>2, PTL DEF PackageJobIsRetried, Queue!Spec, Row!Spec

\* Up to the limit, no failure of a run and no "not signed yet" is forgotten, also
\* when the worker dies (lenderPackageWorker.ts:62-80, 207-231).
THEOREM FailuresCount == Spec => Row!NoFailureForgotten
<1>1. Row!Spec => Row!NoFailureForgotten
  BY Row!FailuresCount
<1> QED
  BY RowRetried, <1>1, PTL

\* A package job that ended is opened again by nobody but the worker that ended it,
\* in the catch it went to because the answer to the update was lost: neither by a
\* worker that comes late nor by the client signing again
\* (lenderPackageWorker.ts:38-54, 200-232, finalizeSignedApplication.ts:124-138).
THEOREM OnlyItsWorkerReopens ==
  Spec => [][job' # job /\ job \in {"completed", "failed"} =>
               \E w \in Workers : CatchJob(w, TRUE)]_vars
<1>1. ASSUME Inv1, [Next]_vars, job \in {"completed", "failed"}, job' # job
      PROVE  \E w \in Workers : CatchJob(w, TRUE)
  <2>0. /\ \A p \in Procs : kind[p] = "worker" => p \in Workers /\ pc[p] = "catch"
        /\ \A p \in Procs : Leaving(p) => kind[p] = "worker"
    BY <1>1 DEF Inv1, JobInv
  <2>1. ASSUME NEW p \in Procs, Progress(p) PROVE \E w \in Workers : CatchJob(w, TRUE)
    <3>1. CASE \E saved \in BOOLEAN : CatchJob(p, saved)
      <4>1. PICK saved \in BOOLEAN : CatchJob(p, saved)
        BY <3>1
      <4>2. saved = TRUE /\ p \in Workers
        BY <1>1, <2>0, <4>1 DEF CatchJob, Leaving
      <4> QED
        BY <4>1, <4>2
    <3>2. CASE ~\E saved \in BOOLEAN : CatchJob(p, saved)
      BY <1>1, <2>0, <2>1, <3>2
      DEF Progress, ClaimLock, LockBusy, ClaimLost, Release, PassGate, HoldBack,
          SelectLenders, SelectThrows, MarkRow, EnqueueJob, EnterDispatch,
          FailDispatch, FinishDispatch, TakeNext, ConnectorSend, EmailSend,
          EmailThrows, Deliver, SheetClaim, SheetUnavailable, SheetAppend, Record,
          Advance, AdvanceFails, Requeue, GiveUp, WorkerSelect, NoFinalizedLenders,
          AllFailed, JobThrows, Settle, Leaving, database
    <3> QED
      BY <3>1, <3>2
  <2>2. ASSUME NEW p \in Senders, Request(p) PROVE FALSE
    BY <1>1, <2>2 DEF Request, RequestSend, RequestResend, RequestApi, RequestMark,
        FinalizeSigned, database
  <2>3. ASSUME NEW w \in Workers, WorkerClaim(w) PROVE FALSE
    BY <1>1, <2>3 DEF WorkerClaim, ReadyJobs
  <2>4. ASSUME NEW p \in Procs, Crash(p) PROVE FALSE
    BY <1>1, <2>4 DEF Crash, database
  <2>5. CASE RequestResignature \/ MoveStage \/ LockAges \/ UNCHANGED vars
    BY <1>1, <2>5 DEF RequestResignature, MoveStage, LockAges, vars
  <2> QED
    BY <1>1, <2>1, <2>2, <2>3, <2>4, <2>5 DEF Next
<1> QED
  BY InitInv1, StepInv1, <1>1, PTL DEF Spec, SafetySpec

===============================================================================
