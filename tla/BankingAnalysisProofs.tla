------------------------ MODULE BankingAnalysisProofs ------------------------
(***************************************************************************)
(* What is true of BankingAnalysis for any number of requests, attempts    *)
(* and runs without a transaction.                                         *)
(***************************************************************************)
EXTENDS BankingAnalysis, FiniteSetTheorems, TLAPS

-------------------------------------------------------------------------------
(* The inductive invariant *)

\* Only the worker counts failures, and it starts with one left.
CountInv ==
  /\ status \in {"none", "pending"} => attempts = 0
  /\ Busy(Worker) => attempts < MaxAttempts
  /\ pc[Worker] = "threw" => "threw" \in causes
  /\ \A r \in Requests : pc[r] # "threw"

\* Unless runs overlapped, one is under way at most.
AloneInv ==
  "overlap" \notin causes => \A r, q \in Runs : Busy(r) /\ Busy(q) => r = q

\* Someone who will write the status stands behind 'in_progress', or one has died.
InProgressInv ==
  status = "in_progress" /\ "died" \notin causes =>
    \E r \in Runs :
      pc[r] \in {"reading", "cleared", "inserted", "aggregated", "persisted", "threw"}

\* What a run that has read r's reading puts into the table.
Batch(r) == IF got[r] \in Empty THEN {} ELSE {<<r, got[r]>>}

\* How far a run has come shows in the rows, if no other is under way.
StageInv ==
  "overlap" \notin causes =>
    \A r \in Runs :
      /\ pc[r] = "selected" /\ r = Worker => status # "needs_review"
      /\ pc[r] \in {"reading", "cleared", "inserted", "aggregated"} =>
           status \notin {"analysis_complete", "needs_review"}
      /\ pc[r] = "persisted" => status # "needs_review" /\ figures = table
      /\ pc[r] = "cleared" => table = {}
      /\ pc[r] \in {"inserted", "aggregated", "persisted"} => table = Batch(r)
      /\ pc[r] = "aggregated" => seen[r] = table

Reconciled == figures = table /\ \E r \in Runs : table = {<<r, "balanced">>}

\* Complete figures are reconciled but in the gap before their verdict.
FiguresInv ==
  /\ status = "analysis_complete"
  /\ causes \cap {"overlap", "died"} = {}
  /\ \A r \in Runs : pc[r] \notin {"persisted", "threw"}
  => Reconciled

IInv ==
  /\ TypeOK
  /\ CountInv
  /\ AloneInv
  /\ InProgressInv
  /\ StageInv
  /\ FiguresInv

-------------------------------------------------------------------------------
(* Steps *)

LEMMA RunFacts == Worker \in Runs /\ Requests \subseteq Runs /\ \A r \in Runs : r = Worker \/ r \in Requests
BY DEF Runs

\* What reconcileExtraction says of an empty table and of one batch.
LEMMA VerdictOfOne ==
  ASSUME NEW r, NEW x
  PROVE  Verdicts({<<r, x>>}) = {x = "balanced"}
<1>1. Cardinality({<<r, x>>}) = 1
  BY FS_Singleton
<1>2. {<<r, x>>} # {}
  OBVIOUS
<1>3. (\A batch \in {<<r, x>>} : batch[2] = "balanced") <=> (x = "balanced")
  OBVIOUS
<1>4. ~(1 > 1)
  OBVIOUS
<1> QED
  BY <1>1, <1>2, <1>3, <1>4, Zenon DEF Verdicts

LEMMA SelectStep ==
  ASSUME IInv, Select
  PROVE  IInv'
<1>1. TypeOK'
  BY DEF IInv, TypeOK, Select, rows, GoTo, Beside, Points, Causes
<1>2. CountInv'
  BY RunFacts, MaxAttemptsAssumption DEF IInv, CountInv, Select, Selectable,
     ClosedToWorker, AttemptsLeft, rows, GoTo, TypeOK, Statuses
<1>3. AloneInv'
  BY DEF AloneInv, Select, Busy, GoTo, Beside, Alone
<1>4. InProgressInv'
  BY DEF InProgressInv, Select, Selectable, ClosedToWorker, rows
<1>5. StageInv'
  BY DEF StageInv, Select, Selectable, ClosedToWorker, rows, Busy, GoTo, Beside,
     Alone
<1>6. FiguresInv'
  BY DEF FiguresInv, Select, Selectable, ClosedToWorker, rows
<1> QED
  BY <1>1, <1>2, <1>3, <1>4, <1>5, <1>6 DEF IInv

LEMMA RequestStep ==
  ASSUME IInv, NEW r \in Requests, Request(r)
  PROVE  IInv'
<1>1. TypeOK'
  BY DEF IInv, TypeOK, Request, rows, GoTo, Beside, Points, Causes
<1>2. CountInv'
  BY RunsAssumption DEF IInv, CountInv, Request, rows, Busy, GoTo, Beside
<1>3. AloneInv'
  BY DEF AloneInv, Request, Busy, GoTo, Beside, Alone
<1>4. InProgressInv'
  BY DEF IInv, InProgressInv, Request, rows, Busy, GoTo, Beside
<1>5. StageInv'
  BY RunsAssumption DEF StageInv, Request, Busy, GoTo, Beside, Alone
<1>6. FiguresInv'
  BY DEF IInv, FiguresInv, Request, rows, Busy, GoTo, Beside, Reconciled
<1> QED
  BY <1>1, <1>2, <1>3, <1>4, <1>5, <1>6 DEF IInv

LEMMA StartStep ==
  ASSUME IInv, NEW r \in Runs, Start(r)
  PROVE  IInv'
<1>1. TypeOK'
  BY DEF IInv, TypeOK, Start, GoTo, Statuses, Points, Causes
<1>2. CountInv'
  BY RunFacts DEF IInv, CountInv, Start, Busy, GoTo, Alone
<1>3. AloneInv'
  BY DEF AloneInv, Start, Busy, GoTo, Alone
<1>4. InProgressInv'
  BY DEF IInv, InProgressInv, Start, GoTo, TypeOK
<1>5. StageInv'
  BY DEF StageInv, Start, Busy, GoTo, Alone
<1>6. FiguresInv'
  BY DEF FiguresInv, Start
<1> QED
  BY <1>1, <1>2, <1>3, <1>4, <1>5, <1>6 DEF IInv

LEMMA ReadAndClearStep ==
  ASSUME IInv, NEW r \in Runs, ReadAndClear(r)
  PROVE  IInv'
<1>1. TypeOK'
  BY DEF IInv, TypeOK, ReadAndClear, KeptByDelete, GoTo, Points
<1>2. CountInv'
  BY DEF IInv, CountInv, ReadAndClear, Busy, GoTo
<1>3. AloneInv'
  BY DEF IInv, AloneInv, ReadAndClear, Busy, GoTo
<1>4. InProgressInv'
  BY DEF InProgressInv, ReadAndClear, GoTo
<1>5. StageInv'
  BY DEF IInv, StageInv, ReadAndClear, KeptByDelete, Busy, GoTo, AloneInv
<1>6. FiguresInv'
  BY DEF IInv, FiguresInv, ReadAndClear, StageInv
<1> QED
  BY <1>1, <1>2, <1>3, <1>4, <1>5, <1>6 DEF IInv

LEMMA InsertStep ==
  ASSUME IInv, NEW r \in Runs, Insert(r)
  PROVE  IInv'
<1>1. TypeOK'
  BY DEF IInv, TypeOK, Insert, Empty, GoTo, Points, Readings, Batches
<1>2. CountInv'
  BY DEF IInv, CountInv, Insert, Busy, GoTo
<1>3. AloneInv'
  BY DEF IInv, AloneInv, Insert, Busy, GoTo
<1>4. InProgressInv'
  BY DEF InProgressInv, Insert, GoTo
<1>5. StageInv'
  BY RunFacts, RunsAssumption, MaxAttemptsAssumption, SkipAfterAssumption DEF IInv,
     StageInv, Insert, Empty, Busy, GoTo, TypeOK, AloneInv, Batch
<1>6. FiguresInv'
  BY DEF IInv, FiguresInv, Insert, StageInv
<1> QED
  BY <1>1, <1>2, <1>3, <1>4, <1>5, <1>6 DEF IInv

LEMMA AggregateStep ==
  ASSUME IInv, NEW r \in Runs, Aggregate(r)
  PROVE  IInv'
<1>1. TypeOK'
  BY DEF IInv, TypeOK, Aggregate, rows, GoTo, Points
<1>2. CountInv'
  BY DEF IInv, CountInv, Aggregate, rows, Busy, GoTo
<1>3. AloneInv'
  BY DEF IInv, AloneInv, Aggregate, Busy, GoTo
<1>4. InProgressInv'
  BY DEF InProgressInv, Aggregate, GoTo
<1>5. StageInv'
  BY DEF IInv, StageInv, Aggregate, rows, GoTo, TypeOK, Batch
<1>6. FiguresInv'
  BY DEF IInv, FiguresInv, Aggregate, rows, StageInv
<1> QED
  BY <1>1, <1>2, <1>3, <1>4, <1>5, <1>6 DEF IInv

LEMMA PersistStep ==
  ASSUME IInv, NEW r \in Runs, Persist(r)
  PROVE  IInv'
<1>1. TypeOK'
  BY DEF IInv, TypeOK, Persist, GoTo, Statuses, Points
<1>2. CountInv'
  BY DEF IInv, CountInv, Persist, Busy, GoTo
<1>3. AloneInv'
  BY DEF IInv, AloneInv, Persist, Busy, GoTo
<1>4. InProgressInv'
  BY DEF InProgressInv, Persist
<1>5. StageInv'
  BY DEF IInv, StageInv, Persist, Busy, GoTo, TypeOK, AloneInv, Batch
<1>6. FiguresInv'
  BY DEF IInv, FiguresInv, Persist, GoTo, TypeOK
<1> QED
  BY <1>1, <1>2, <1>3, <1>4, <1>5, <1>6 DEF IInv

LEMMA RecordEmptyStep ==
  ASSUME IInv, NEW r \in Runs, RecordEmpty(r)
  PROVE  IInv'
<1>1. TypeOK'
  BY DEF IInv, TypeOK, RecordEmpty, GoTo, Forget, Statuses, Points, Readings
<1>2. CountInv'
  BY DEF IInv, CountInv, RecordEmpty, Busy, GoTo, Forget
<1>3. AloneInv'
  BY DEF IInv, AloneInv, RecordEmpty, Busy, GoTo, Forget
<1>4. InProgressInv'
  BY DEF InProgressInv, RecordEmpty
<1>5. StageInv'
  BY DEF IInv, StageInv, RecordEmpty, Busy, GoTo, Forget, TypeOK, AloneInv
<1>6. FiguresInv'
  BY DEF FiguresInv, RecordEmpty
<1> QED
  BY <1>1, <1>2, <1>3, <1>4, <1>5, <1>6 DEF IInv

LEMMA CountEmptyStep ==
  ASSUME IInv, NEW r \in Runs, CountEmpty(r)
  PROVE  IInv'
<1>1. TypeOK'
  BY SkipAfterAssumption DEF IInv, TypeOK, CountEmpty, OneMore, GoTo, Points
<1>2. CountInv'
  BY DEF IInv, CountInv, CountEmpty, Busy, GoTo
<1>3. AloneInv'
  BY DEF IInv, AloneInv, CountEmpty, Busy, GoTo
<1>4. InProgressInv'
  BY DEF IInv, InProgressInv, CountEmpty, GoTo
<1>5. StageInv'
  BY DEF IInv, StageInv, CountEmpty, Busy, GoTo, AloneInv
<1>6. FiguresInv'
  BY DEF IInv, FiguresInv, CountEmpty, GoTo, Reconciled
<1> QED
  BY <1>1, <1>2, <1>3, <1>4, <1>5, <1>6 DEF IInv

LEMMA CountLostStep ==
  ASSUME IInv, NEW r \in Runs, CountLost(r)
  PROVE  IInv'
<1>1. TypeOK'
  BY DEF IInv, TypeOK, CountLost, rows, GoTo, Points
<1>2. CountInv'
  BY DEF IInv, CountInv, CountLost, rows, Busy, GoTo
<1>3. AloneInv'
  BY DEF IInv, AloneInv, CountLost, Busy, GoTo
<1>4. InProgressInv'
  BY DEF IInv, InProgressInv, CountLost, rows, GoTo
<1>5. StageInv'
  BY DEF IInv, StageInv, CountLost, Busy, GoTo, AloneInv
<1>6. FiguresInv'
  BY DEF IInv, FiguresInv, CountLost, rows, GoTo, Reconciled
<1> QED
  BY <1>1, <1>2, <1>3, <1>4, <1>5, <1>6 DEF IInv

LEMMA JudgeStep ==
  ASSUME IInv, NEW r \in Runs, Judge(r)
  PROVE  IInv'
<1>1. TypeOK'
  BY DEF IInv, TypeOK, Judge, VerdictStatus, GoTo, Forget, Statuses, Points,
     Readings
<1>2. CountInv'
  BY DEF IInv, CountInv, Judge, VerdictStatus, Busy, GoTo, Forget
<1>3. AloneInv'
  BY DEF IInv, AloneInv, Judge, Busy, GoTo, Forget
<1>4. InProgressInv'
  BY DEF InProgressInv, Judge, VerdictStatus
<1>5. StageInv'
  BY DEF IInv, StageInv, Judge, Busy, GoTo, Forget, TypeOK, AloneInv
<1>6. FiguresInv'
  <2> SUFFICES ASSUME status' = "analysis_complete",
                      causes' \cap {"overlap", "died"} = {}
               PROVE  Reconciled'
    BY DEF FiguresInv
  <2>1. /\ figures = table /\ table = {<<r, got[r]>>}
        /\ UNCHANGED <<figures, table>>
    BY DEF IInv, StageInv, Batch, Judge
  <2>2. PICK sound \in Verdicts(table) : status' = VerdictStatus(sound)
    BY DEF Judge
  <2>3. sound = TRUE
    BY <2>1, <2>2 DEF VerdictStatus
  <2>4. Verdicts(table) = {got[r] = "balanced"}
    BY <2>1, VerdictOfOne
  <2>5. got[r] = "balanced"
    BY <2>2, <2>3, <2>4
  <2> QED
    BY <2>1, <2>5 DEF Reconciled
<1> QED
  BY <1>1, <1>2, <1>3, <1>4, <1>5, <1>6 DEF IInv

LEMMA FinishStep ==
  ASSUME IInv, NEW r \in Runs, Finish(r)
  PROVE  IInv'
<1>1. TypeOK'
  BY DEF IInv, TypeOK, Finish, rows, GoTo, Forget, Points, Readings
<1>2. CountInv'
  BY DEF IInv, CountInv, Finish, rows, Busy, GoTo, Forget
<1>3. AloneInv'
  BY DEF IInv, AloneInv, Finish, Busy, GoTo, Forget
<1>4. InProgressInv'
  BY DEF IInv, InProgressInv, Finish, rows, GoTo, Forget
<1>5. StageInv'
  BY DEF IInv, StageInv, Finish, Busy, GoTo, Forget, AloneInv
<1>6. FiguresInv'
  BY DEF IInv, FiguresInv, Finish, rows, GoTo, Forget, Reconciled
<1> QED
  BY <1>1, <1>2, <1>3, <1>4, <1>5, <1>6 DEF IInv

LEMMA ThrowStep ==
  ASSUME IInv, NEW r \in Runs, Throw(r)
  PROVE  IInv'
<1>1. TypeOK'
  BY DEF IInv, TypeOK, Throw, rows, GoTo, Forget, Points, Readings, Causes
<1>2. CountInv'
  BY RunsAssumption DEF IInv, CountInv, Throw, rows, Busy, GoTo, Forget
<1>3. AloneInv'
  BY DEF IInv, AloneInv, Throw, Busy, GoTo, Forget
<1>4. InProgressInv'
  BY DEF IInv, InProgressInv, Throw, rows, GoTo, Forget
<1>5. StageInv'
  BY DEF IInv, StageInv, Throw, Busy, GoTo, Forget, TypeOK, AloneInv
<1>6. FiguresInv'
  BY DEF IInv, FiguresInv, Throw, GoTo, Forget, TypeOK
<1> QED
  BY <1>1, <1>2, <1>3, <1>4, <1>5, <1>6 DEF IInv

LEMMA RecordThrowStep ==
  ASSUME IInv, RecordThrow
  PROVE  IInv'
<1>1. TypeOK'
  <2>1. attempts' \in 0..MaxAttempts
    BY MaxAttemptsAssumption DEF IInv, TypeOK, CountInv, RecordThrow, Busy
  <2>2. status' \in Statuses /\ due' \in BOOLEAN
    BY DEF RecordThrow, StatusAfterThrow, Statuses
  <2>3. pc' \in [Runs -> Points] /\ got' \in [Runs -> Readings] /\ seen' \in [Runs -> SUBSET Batches]
    BY DEF IInv, TypeOK, RecordThrow, Forget, GoTo, Points, Readings
  <2> QED
    BY <2>1, <2>2, <2>3 DEF IInv, TypeOK, RecordThrow
<1>2. CountInv'
  BY RunFacts DEF IInv, CountInv, RecordThrow, StatusAfterThrow, Busy, GoTo,
     Forget, TypeOK
<1>3. AloneInv'
  BY DEF IInv, AloneInv, RecordThrow, Busy, GoTo, Forget
<1>4. InProgressInv'
  BY DEF InProgressInv, RecordThrow, StatusAfterThrow
<1>5. StageInv'
  BY DEF IInv, StageInv, RecordThrow, StatusAfterThrow, GoTo, Forget, Batch
<1>6. FiguresInv'
  BY DEF FiguresInv, RecordThrow, StatusAfterThrow
<1> QED
  BY <1>1, <1>2, <1>3, <1>4, <1>5, <1>6 DEF IInv

LEMMA DieStep ==
  ASSUME IInv, NEW r \in Runs, Die(r)
  PROVE  IInv'
<1>1. TypeOK'
  BY DEF IInv, TypeOK, Die, rows, GoTo, Forget, Points, Readings, Causes
<1>2. CountInv'
  BY DEF IInv, CountInv, Die, rows, Busy, GoTo, Forget
<1>3. AloneInv'
  BY DEF IInv, AloneInv, Die, Busy, GoTo, Forget
<1>4. InProgressInv'
  BY DEF InProgressInv, Die
<1>5. StageInv'
  BY DEF IInv, StageInv, Die, Busy, GoTo, Forget, TypeOK, AloneInv
<1>6. FiguresInv'
  BY DEF FiguresInv, Die
<1> QED
  BY <1>1, <1>2, <1>3, <1>4, <1>5, <1>6 DEF IInv

LEMMA OcrCompletesStep ==
  ASSUME IInv, OcrCompletes
  PROVE  IInv'
<1>1. TypeOK'
  BY DEF IInv, TypeOK, OcrCompletes, runs
<1>2. CountInv'
  BY DEF IInv, CountInv, OcrCompletes, runs, Busy
<1>3. AloneInv'
  BY DEF IInv, AloneInv, OcrCompletes, runs, Busy
<1>4. InProgressInv'
  BY DEF IInv, InProgressInv, OcrCompletes, runs
<1>5. StageInv'
  BY DEF IInv, StageInv, OcrCompletes, runs, Batch
<1>6. FiguresInv'
  BY DEF IInv, FiguresInv, OcrCompletes, runs, Reconciled
<1> QED
  BY <1>1, <1>2, <1>3, <1>4, <1>5, <1>6 DEF IInv

LEMMA UploadStep ==
  ASSUME IInv, Upload
  PROVE  IInv'
<1>1. TypeOK'
  <2>1. 0 \in 0..SkipAfter
    BY SkipAfterAssumption
  <2> QED
    BY <2>1 DEF IInv, TypeOK, Upload, runs
<1>2. CountInv'
  BY DEF IInv, CountInv, Upload, runs, Busy
<1>3. AloneInv'
  BY DEF IInv, AloneInv, Upload, runs, Busy
<1>4. InProgressInv'
  BY DEF IInv, InProgressInv, Upload, runs
<1>5. StageInv'
  BY DEF IInv, StageInv, Upload, runs, Batch
<1>6. FiguresInv'
  BY DEF IInv, FiguresInv, Upload, runs, Reconciled
<1> QED
  BY <1>1, <1>2, <1>3, <1>4, <1>5, <1>6 DEF IInv

LEMMA RetryStep ==
  ASSUME IInv, Retry
  PROVE  IInv'
<1>1. TypeOK'
  BY MaxAttemptsAssumption DEF IInv, TypeOK, Retry, runs, Statuses
<1>2. CountInv'
  BY MaxAttemptsAssumption DEF IInv, CountInv, Retry, runs
<1>3. AloneInv'
  BY DEF IInv, AloneInv, Retry, runs, Busy
<1>4. InProgressInv'
  BY DEF InProgressInv, Retry
<1>5. StageInv'
  BY DEF IInv, StageInv, Retry, runs, Batch
<1>6. FiguresInv'
  BY DEF FiguresInv, Retry
<1> QED
  BY <1>1, <1>2, <1>3, <1>4, <1>5, <1>6 DEF IInv

LEMMA RequeueStep ==
  ASSUME IInv, Requeue
  PROVE  IInv'
<1>1. TypeOK'
  <2>1. attempts' \in 0..MaxAttempts
    BY MaxAttemptsAssumption DEF IInv, TypeOK, Requeue
  <2>2. status' \in Statuses /\ due' \in BOOLEAN /\ skip' \in BOOLEAN
    BY DEF IInv, TypeOK, Requeue, Statuses
  <2> QED
    BY <2>1, <2>2 DEF IInv, TypeOK, Requeue, runs
<1>2. CountInv'
  BY MaxAttemptsAssumption DEF IInv, CountInv, Requeue, runs, Busy
<1>3. AloneInv'
  BY DEF IInv, AloneInv, Requeue, runs, Busy
<1>4. InProgressInv'
  BY DEF IInv, InProgressInv, Requeue, runs
<1>5. StageInv'
  BY DEF IInv, StageInv, Requeue, runs, Batch
<1>6. FiguresInv'
  BY DEF IInv, FiguresInv, Requeue, runs, Reconciled
<1> QED
  BY <1>1, <1>2, <1>3, <1>4, <1>5, <1>6 DEF IInv

LEMMA BackoffEndsStep ==
  ASSUME IInv, BackoffEnds
  PROVE  IInv'
<1>1. TypeOK'
  BY DEF IInv, TypeOK, BackoffEnds, runs
<1>2. CountInv'
  BY DEF IInv, CountInv, BackoffEnds, runs, Busy
<1>3. AloneInv'
  BY DEF IInv, AloneInv, BackoffEnds, runs, Busy
<1>4. InProgressInv'
  BY DEF IInv, InProgressInv, BackoffEnds, runs
<1>5. StageInv'
  BY DEF IInv, StageInv, BackoffEnds, runs, Batch
<1>6. FiguresInv'
  BY DEF IInv, FiguresInv, BackoffEnds, runs, Reconciled
<1> QED
  BY <1>1, <1>2, <1>3, <1>4, <1>5, <1>6 DEF IInv

LEMMA StutterStep ==
  ASSUME IInv, UNCHANGED vars
  PROVE  IInv'
BY DEF IInv, TypeOK, CountInv, AloneInv, InProgressInv, StageInv, FiguresInv,
   Reconciled, Batch, vars, Busy

-------------------------------------------------------------------------------
(* Theorems *)

LEMMA InitIInv == Init => IInv
<1> SUFFICES ASSUME Init PROVE IInv
  OBVIOUS
<1>1. 0 \in 0..MaxAttempts /\ 0 \in 0..SkipAfter
  BY MaxAttemptsAssumption, SkipAfterAssumption
<1>2. TypeOK
  BY <1>1 DEF Init, TypeOK, Statuses, Points, Readings
<1>3. CountInv
  BY RunFacts DEF Init, CountInv, Busy
<1>4. AloneInv /\ InProgressInv /\ StageInv
  BY DEF Init, AloneInv, InProgressInv, StageInv, Busy
<1>5. FiguresInv
  BY DEF Init, FiguresInv
<1> QED
  BY <1>2, <1>3, <1>4, <1>5 DEF IInv

LEMMA NextIInv == IInv /\ [Next]_vars => IInv'
<1> SUFFICES ASSUME IInv, [Next]_vars PROVE IInv'
  OBVIOUS
<1>1. ASSUME NEW r \in Runs, Steps(r)
      PROVE  IInv'
  BY <1>1, StartStep, ReadAndClearStep, InsertStep, AggregateStep, PersistStep,
     RecordEmptyStep, CountEmptyStep, JudgeStep, FinishStep DEF Steps
<1>2. ASSUME NEW r \in Runs, Throw(r) \/ Die(r) \/ CountLost(r) \/ ReadAndClear(r)
      PROVE  IInv'
  BY <1>2, ThrowStep, DieStep, CountLostStep, ReadAndClearStep
<1>3. ASSUME NEW r \in Requests, Request(r)
      PROVE  IInv'
  BY <1>3, RequestStep
<1>4. CASE Select \/ RecordThrow \/ BackoffEnds
  BY <1>4, SelectStep, RecordThrowStep, BackoffEndsStep
<1>5. CASE OcrCompletes \/ Upload \/ Retry \/ Requeue
  BY <1>5, OcrCompletesStep, UploadStep, RetryStep, RequeueStep
<1>6. CASE UNCHANGED vars
  BY <1>6, StutterStep
<1> QED
  BY <1>1, <1>2, <1>3, <1>4, <1>5, <1>6 DEF Next, Calm, Trouble

\* What the properties below follow from holds in every reachable state.
THEOREM Inductive == Spec => []IInv
BY InitIInv, NextIInv, PTL DEF Spec

\* Every variable keeps its type, and the worker counts max_attempts failures at most.
THEOREM TypeCorrect == Spec => []TypeOK
<1>1. IInv => TypeOK
  BY DEF IInv
<1> QED
  BY Inductive, <1>1, PTL

\* Figures shown as complete add up, unless runs overlapped or one died.
THEOREM CompleteIsReconciled == Spec => []CompleteMeansReconciled
<1>1. IInv => CompleteMeansReconciled
  BY DEF IInv, FiguresInv, Reconciled, CompleteMeansReconciled, AtRest, Busy
<1> QED
  BY Inductive, <1>1, PTL

\* Nothing is left 'in_progress' by a run that came to its end.
THEOREM NothingIsOrphaned == Spec => []NoOrphan
<1>1. IInv => NoOrphan
  BY DEF IInv, InProgressInv, NoOrphan, AtRest, Busy
<1> QED
  BY Inductive, <1>1, PTL

\* needs_review waits for a person.
THEOREM ReviewWaits == Spec => ReviewWaitsForStaff
<1> DEFINE Waits == (status = "needs_review" /\ status' # "needs_review" /\ causes = {})
                      => \/ status' = "pending"
                         \/ \E r \in Requests : pc[r] = "selected"
<1>1. IInv /\ [Next]_vars => Waits
  <2> SUFFICES ASSUME IInv, [Next]_vars, status = "needs_review",
                      status' \notin {"needs_review", "pending"}, causes = {}
               PROVE  \E r \in Requests : pc[r] = "selected"
    OBVIOUS
  <2>1. \A r \in Runs : /\ pc[r] \notin {"aggregated", "persisted"}
                        /\ pc[r] = "selected" => r # Worker
    BY DEF IInv, StageInv
  <2>2. pc[Worker] # "threw"
    BY DEF IInv, CountInv
  <2>3. \A r \in Runs : ~Persist(r) /\ ~RecordEmpty(r) /\ ~Judge(r)
    BY <2>1 DEF Persist, RecordEmpty, Judge
  <2>4. ~RecordThrow
    BY <2>2 DEF RecordThrow
  <2>5. ~Retry /\ (Requeue => status' = status)
    BY DEF Retry, Requeue
  <2>6. PICK r \in Runs : Start(r)
    BY <2>3, <2>4, <2>5 DEF Next, Calm, Trouble, Steps, vars, rows, Select, ReadAndClear, Insert,
       Aggregate, CountEmpty, CountLost, Finish, Request, Throw, Die, OcrCompletes, Upload,
       BackoffEnds
  <2> QED
    BY <2>1, <2>6, RunFacts DEF Start
<1> QED
  BY Inductive, <1>1, PTL DEF Spec, ReviewWaitsForStaff
=============================================================================
