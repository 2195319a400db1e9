--------------------------- MODULE BankingAnalysis ---------------------------
(***************************************************************************)
(* The banking analysis of one application.                                *)
(*                                                                         *)
(* runBankingAnalysis reads the bank statements for minutes and then       *)
(* replaces the application's transactions, totals and status by some ten  *)
(* statements, none of which knows of the others.  It is started by the    *)
(* banking worker (at most one at a time, under its worker lock; see       *)
(* WorkerLock) and by any number of staff pressing "Run", and everything   *)
(* it writes is keyed by the application alone.                            *)
(*                                                                         *)
(* A batch of transactions is named by the run that read it and by whether *)
(* it adds up to the balances printed beside it.                           *)
(***************************************************************************)
EXTENDS Naturals, FiniteSets

CONSTANTS
  Worker,       \* the banking worker (workers/bankingAutoWorker.ts)
  Requests,     \* staff's requests to run the analysis now (routes/banking.ts)
  MaxAttempts,  \* banking_analyses.max_attempts
  SkipAfter     \* runs without a transaction after which the worker gives up

ASSUME RunsAssumption == Worker \notin Requests
ASSUME MaxAttemptsAssumption == MaxAttempts \in Nat \ {0}
ASSUME SkipAfterAssumption == SkipAfter \in Nat \ {0}

VARIABLES
  \* --- rows of the database ---
  scanned,    \* the documents with ocr_status = 'completed': none, only others
              \* than bank statements, or a bank statement among them
  status,     \* banking_analyses.status
  attempts,   \* banking_analyses.attempt_count
  due,        \* next_attempt_at is NULL or has passed
  zeros, skip,  \* metadata.banking_auto_zero_attempts, .banking_auto_skip
  table,      \* the batches in banking_transactions
  figures,    \* the batches the totals in banking_analyses were computed from
  \* --- the runs ---
  pc,         \* the next step of each run
  got,        \* what a run has read from the statements
  seen,       \* the batches its aggregates were computed from
  \* --- history ---
  causes      \* what has befallen the runs since one last started alone

rows    == <<scanned, status, attempts, due, zeros, skip, table, figures>>
runs    == <<pc, got, seen>>
vars    == <<scanned, status, attempts, due, zeros, skip, table, figures,
             pc, got, seen, causes>>

Runs == {Worker} \cup Requests

-------------------------------------------------------------------------------
(* Types *)

Statuses == {"none", "pending", "in_progress", "analysis_complete",
             "needs_review", "failed"}
Points == {"idle", "selected", "reading", "cleared", "inserted", "aggregated",
           "persisted", "counting", "marking", "threw"}

\* What the statements of an application may yield: nothing because the reader
\* was out of service, nothing, transactions that do not add up to the balances
\* printed beside them, transactions that do.
Readings == {"outage", "nothing", "unbalanced", "balanced"}
Empty == {"outage", "nothing"}
Batches == Runs \X {"unbalanced", "balanced"}

Causes == {"overlap", "threw", "died"}

\* Every variable keeps its type; in particular the worker counts no more than
\* max_attempts failures of an application, however its runs mix with those of
\* staff (bankingAutoWorker.ts:49).
TypeOK ==
  /\ scanned \in {"none", "other", "bank"}
  /\ status \in Statuses
  /\ attempts \in 0..MaxAttempts
  /\ due \in BOOLEAN
  /\ zeros \in 0..SkipAfter
  /\ skip \in BOOLEAN
  /\ table \subseteq Batches
  /\ figures \subseteq Batches
  /\ pc \in [Runs -> Points]
  /\ got \in [Runs -> Readings]
  /\ seen \in [Runs -> SUBSET Batches]
  /\ causes \subseteq Causes

Init ==
  /\ scanned = "none"
  /\ status = "none"
  /\ attempts = 0
  /\ due = TRUE
  /\ zeros = 0
  /\ skip = FALSE
  /\ table = {}
  /\ figures = {}
  /\ pc = [r \in Runs |-> "idle"]
  /\ got = [r \in Runs |-> "nothing"]
  /\ seen = [r \in Runs |-> {}]
  /\ causes = {}

-------------------------------------------------------------------------------
(* Helpers *)

Busy(r) == pc[r] # "idle"
Alone(r) == \A q \in Runs \ {r} : ~Busy(q)
AtRest == \A r \in Runs : ~Busy(r)
GoTo(r, point) == pc' = [pc EXCEPT ![r] = point]

Beside(r) == causes' = IF Alone(r) THEN causes ELSE causes \cup {"overlap"}

\* What the run has read and computed does not matter any more.
Forget(r, point) ==
  /\ GoTo(r, point)
  /\ got' = [got EXCEPT ![r] = "nothing"]
  /\ seen' = [seen EXCEPT ![r] = {}]

\* reconcileExtraction reads the table: one balanced batch passes, an empty
\* table or one unbalanced batch does not, and of two batches either may happen.
Verdicts(batches) ==
  IF batches = {} THEN {FALSE}
  ELSE IF Cardinality(batches) > 1 THEN BOOLEAN
  ELSE {\A batch \in batches : batch[2] = "balanced"}

-------------------------------------------------------------------------------
(* Starting *)

\* The states of the analysis the worker leaves alone.
ClosedButReview == {"in_progress", "analysis_complete"}
ClosedToWorker == {"in_progress", "analysis_complete", "needs_review"}

AnyAttempts == TRUE
AttemptsLeft == attempts < MaxAttempts

Selectable ==
  /\ scanned = "bank"
  /\ ~skip
  /\ status \notin ClosedToWorker
  /\ status = "failed" => due /\ AttemptsLeft

\* The worker selects a batch of applications and may come to this one later.
Select ==
  /\ ~Busy(Worker)
  /\ Selectable
  /\ GoTo(Worker, "selected")
  /\ Beside(Worker)
  /\ UNCHANGED <<rows, got, seen>>

\* A request asks for any document that was read, whatever it is.
Request(r) ==
  /\ ~Busy(r)
  /\ scanned # "none"
  /\ GoTo(r, "selected")
  /\ Beside(r)
  /\ UNCHANGED <<rows, got, seen>>

\* runBankingAnalysis claims nothing: it only says that it is on its way.
Start(r) ==
  /\ pc[r] = "selected"
  /\ status' = "in_progress"
  /\ GoTo(r, "reading")
  /\ causes' = IF Alone(r) THEN {} ELSE causes \cup {"overlap"}
  /\ UNCHANGED <<scanned, attempts, due, zeros, skip, table, figures, got, seen>>

-------------------------------------------------------------------------------
(* runBankingAnalysis *)

KeptByNoDelete == table
KeptByDelete == {}

\* The statements, also those OCR has not come to, are read (which touches no
\* row; there may be none) and the old batch deleted.
ReadAndClear(r) ==
  /\ pc[r] = "reading"
  /\ \E reading \in Readings : got' = [got EXCEPT ![r] = reading]
  /\ table' = KeptByDelete
  /\ GoTo(r, "cleared")
  /\ UNCHANGED <<scanned, status, attempts, due, zeros, skip, figures, seen,
                 causes>>

Insert(r) ==
  /\ pc[r] = "cleared"
  /\ table' = IF got[r] \in Empty THEN table ELSE table \cup {<<r, got[r]>>}
  /\ GoTo(r, "inserted")
  /\ UNCHANGED <<scanned, status, attempts, due, zeros, skip, figures, got, seen,
                 causes>>

\* Monthly and overall totals are computed from the table.
Aggregate(r) ==
  /\ pc[r] = "inserted"
  /\ seen' = [seen EXCEPT ![r] = table]
  /\ GoTo(r, "aggregated")
  /\ UNCHANGED <<rows, got, causes>>

\* persistAnalysis says 'analysis_complete' before anything was verified.
Persist(r) ==
  /\ pc[r] = "aggregated"
  /\ figures' = seen[r]
  /\ status' = "analysis_complete"
  /\ GoTo(r, "persisted")
  /\ seen' = [seen EXCEPT ![r] = {}]
  /\ UNCHANGED <<scanned, attempts, due, zeros, skip, table, got, causes>>

\* Nothing was read; an outage of the reader is not counted.
RecordEmpty(r) ==
  /\ pc[r] = "persisted"
  /\ got[r] \in Empty
  /\ status' = "failed"
  /\ Forget(r, IF got[r] = "outage" THEN "marking" ELSE "counting")
  /\ UNCHANGED <<scanned, attempts, due, zeros, skip, table, figures, causes>>

NotCounted(n) == n
OneMore(n) == IF n < SkipAfter THEN n + 1 ELSE n

CountEmpty(r) ==
  /\ pc[r] = "counting"
  /\ zeros' = OneMore(zeros)
  /\ skip' = (skip \/ zeros' >= SkipAfter)
  /\ GoTo(r, "marking")
  /\ UNCHANGED <<scanned, status, attempts, due, table, figures, got, seen, causes>>

\* Its UPDATE failed, which is only logged.
CountLost(r) ==
  /\ pc[r] = "counting"
  /\ GoTo(r, "marking")
  /\ UNCHANGED <<rows, got, seen, causes>>

Unverified(sound) == "analysis_complete"
VerdictStatus(sound) == IF sound THEN "analysis_complete" ELSE "needs_review"

\* Something was read: the figures stand or are withheld.
Judge(r) ==
  /\ pc[r] = "persisted"
  /\ got[r] \notin Empty
  /\ \E sound \in Verdicts(table) : status' = VerdictStatus(sound)
  /\ Forget(r, "marking")
  /\ UNCHANGED <<scanned, attempts, due, zeros, skip, table, figures, causes>>

\* The statements that follow (banking_completed_at, documents.banking_status)
\* write columns nothing here reads; the run is over.
Finish(r) ==
  /\ pc[r] = "marking"
  /\ Forget(r, "idle")
  /\ UNCHANGED <<rows, causes>>

-------------------------------------------------------------------------------
(* A run that fails *)

\* Any statement of a run may throw, also after it has had its effect.  Only the
\* worker catches it; a request answers 500 and leaves the row as it is.
Throw(r) ==
  /\ Busy(r)
  /\ pc[r] # "threw"
  /\ Forget(r, IF r = Worker THEN "threw" ELSE "idle")
  /\ causes' = causes \cup {IF r = Worker THEN "threw" ELSE "died"}
  /\ UNCHANGED rows

StatusKept == status
StatusAfterThrow == "failed"

RecordThrow ==
  /\ pc[Worker] = "threw"
  /\ status' = StatusAfterThrow
  /\ attempts' = attempts + 1
  /\ due' = FALSE
  /\ Forget(Worker, "idle")
  /\ UNCHANGED <<scanned, zeros, skip, table, figures, causes>>

\* The server goes away, or the worker cannot even record its failure.
Die(r) ==
  /\ Busy(r)
  /\ Forget(r, "idle")
  /\ causes' = causes \cup {"died"}
  /\ UNCHANGED rows

-------------------------------------------------------------------------------
(* Staff, clients and time *)

\* The OCR worker has read a document (see OcrJobs).
OcrCompletes ==
  /\ \/ scanned = "none" /\ scanned' \in {"other", "bank"}
     \/ scanned = "other" /\ scanned' = "bank"
  /\ UNCHANGED <<status, attempts, due, zeros, skip, table, figures, runs, causes>>

\* A new document lets the worker try again if it had given up.
Upload ==
  /\ skip
  /\ skip' = FALSE
  /\ zeros' = 0
  /\ UNCHANGED <<scanned, status, attempts, due, table, figures, runs, causes>>

\* "Re-run analysis", whatever is under way.
Retry ==
  /\ status' = "pending"
  /\ attempts' = 0
  /\ due' = TRUE
  /\ UNCHANGED <<scanned, zeros, skip, table, figures, runs, causes>>

\* An Admin requeues every analysis without transactions.
Requeue ==
  /\ IF table = {} /\ status # "none"
       THEN status' = "pending" /\ attempts' = 0 /\ due' = TRUE
       ELSE UNCHANGED <<status, attempts, due>>
  /\ skip' = FALSE
  /\ UNCHANGED <<scanned, zeros, table, figures, runs, causes>>

BackoffEnds ==
  /\ ~due
  /\ due' = TRUE
  /\ UNCHANGED <<scanned, status, attempts, zeros, skip, table, figures, runs,
                 causes>>

-------------------------------------------------------------------------------
(* The system *)

Steps(r) ==
  \/ Start(r)
  \/ ReadAndClear(r)
  \/ Insert(r)
  \/ Aggregate(r)
  \/ Persist(r)
  \/ RecordEmpty(r)
  \/ CountEmpty(r)
  \/ Judge(r)
  \/ Finish(r)

\* Nobody intervenes, every statement succeeds, and what is read is not lost to
\* an outage.
Calm ==
  /\ \/ Select
     \/ \E r \in Runs : Steps(r)
     \/ RecordThrow
     \/ BackoffEnds
  /\ \A r \in Runs : pc[r] = "reading" => got'[r] # "outage"

Trouble ==
  \/ \E r \in Requests : Request(r)
  \/ \E r \in Runs : Throw(r) \/ Die(r) \/ CountLost(r) \/ ReadAndClear(r)
  \/ OcrCompletes \/ Upload \/ Retry \/ Requeue

Next == Calm \/ Trouble

Fairness ==
  /\ WF_vars(Select)
  /\ \A r \in Runs : WF_vars(Steps(r))
  /\ WF_vars(RecordThrow)
  /\ WF_vars(BackoffEnds)

Spec == Init /\ [][Next]_vars /\ Fairness

-------------------------------------------------------------------------------
(* Properties *)

\* Figures presented as complete come from one reading of the statements, the
\* one whose transactions are in the table, and it adds up to the balances;
\* unless two runs overlapped or one died half-way (bankingAnalysisPipeline.ts:
\* 428, "do not present numbers that do not reconcile").  A run that is between
\* persistAnalysis and its verdict shows them too early.
CompleteMeansReconciled ==
  (AtRest /\ status = "analysis_complete" /\ causes \cap {"overlap", "died"} = {})
    => /\ figures = table
       /\ \E r \in Runs : table = {<<r, "balanced">>}

\* 'in_progress' shuts the worker out, so a run that ends always replaces it:
\* only one that died or threw in a request's hands leaves it behind.
NoOrphan == (AtRest /\ "died" \notin causes) => status # "in_progress"

\* needs_review is terminal until staff intervene (bankingAutoWorker.ts:45),
\* unless a run of the worker overlapped another or failed after its verdict.
ReviewWaitsForStaff ==
  [][(status = "needs_review" /\ status' # "needs_review" /\ causes = {})
       => \/ status' = "pending"
          \/ \E r \in Requests : pc[r] = "selected"]_vars

\* Where the worker leaves an application alone for good.  'in_progress' with
\* nobody at work is the orphan of NoOrphan.
Settled ==
  \/ scanned # "bank"
  \/ skip
  \/ status \in ClosedToWorker
  \/ status = "failed" /\ attempts >= MaxAttempts

\* The worker does not read the same statements for ever: once people leave the
\* application alone and the reader is in service, it comes to a verdict or is
\* given up, although a run without transactions has no backoff and counts no
\* attempt (bankingAnalysisPipeline.ts:394).
WorkerStops == <>[][Calm]_vars => []<>(AtRest /\ Settled)
=============================================================================
