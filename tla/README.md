# BF-Server: models, checks and proofs

BF-Server is the staff server of a loan broker: an Express and PostgreSQL
program (`src/src`) that takes applications, collects and reads documents, has
them signed, and sends packages to lenders. It runs as several identical
instances; nearly all its state is in the database, and its concurrency is that
of request handlers, of some forty `setInterval` workers on every instance, and
of the lenders, clients and services that answer late, twice or not at all.

This directory holds TLA+ modules translated from that code, the TLC runs that
check them on small instances, and TLAPS proofs for all values of their
constants. `PROJECT.json` lists every definition with the lines it models.

## 1. Inventory

| Part | State | Operations | Hard because |
|---|---|---|---|
| **Lender package dispatch** (`services/submission`, `services/lenders`, `lenderConnectors/submit.ts`, `workers/lenderPackageWorker.ts`, `signnow/finalizeSignedApplication.ts`) | `applications.pipeline_state`, `submission_packages_started_at`, `application_lender_selections`, `application_packages`, `lender_sheet_dispatches`, one `job_queue` row | Send, Resend, Submit by API, mark-sent, finalize a signature, the worker's tick | four callers of one dispatcher, three of them under a ten-minute lock; external sends whose answers get lost; handlers that die |
| **Worker lock** (`workers/claim.ts`) | session advisory locks in PostgreSQL; in each process one session and a set of names | claim, run, unlock, discard the session, close | sessions die under running ticks; re-entrant locks; shutdown |
| **Document reading** (`modules/ocr`) | `ocr_jobs`, `ocr_document_results`, `ocr_results`, `documents.ocr_status` | enqueue, lock, read, save, fail, re-queue, re-extract | a lock that is only a timestamp; outcomes written without looking; crashes |
| **Banking analysis** (`services/banking`, `workers/bankingAutoWorker.ts`, `routes/banking.ts`) | `banking_analyses`, `banking_transactions`, the skip marker in `applications.metadata` | select, run, verify, give up, re-run, requeue | ten statements without a transaction; runs of staff beside the worker's |
| **Lender transmission** (`modules/lender`) | `lender_submissions`, `lender_submission_retries` | submit, retry, cancel | a transaction around the call to the lender |
| **Application pipeline** (`modules/applications`) | `pipeline_state`, stage events | `transitionPipelineState` from staff, clients, automations, connectors | read, check, write without a lock |
| **Processing** (`modules/processing`, `utils/circuitBreaker.ts`) | job rows, `processing_stage`, breaker state | enqueue, complete, fail, retry, recompute the stage | jobs finish in any order; row locks taken in both orders |
| **Signing chain** (`signnow`, poller, webhook) | signing columns of the application, SBA forms | send for signature, webhook, poll, finalize, ask again | webhook and poller see the same event |
| **Connector status sync** (`lenderConnectors/sync.ts`, `poll.ts`, `webhook.ts`) | `lender_api_submissions` | poll, push, retry | pushed and polled answers out of order |
| **Outbound webhooks, dead letters** | delivery rows | enqueue, attempt, back off, give up | at-least-once |
| **Authentication** (`modules/auth`, `auth`) | one-time codes, refresh tokens | request, verify, rotate, revoke | replays, concurrent refreshes |
| **Idempotent requests** | stored keys and answers | first call, repeated call | the second call while the first runs |
| **Automations, sequences** | enrollments with a two-minute lease | enroll, step, wait, retry | lease outlived; same event twice |
| **Message sending** | send queue rows | enqueue, claim, send, escalate | duplicates; covered in part by the worker lock |
| **Telephony** | calls, queues | follow the provider's callbacks | callbacks out of order |
| **CRM, mail, calendar, marketing, reporting** | single rows | create, read, update, delete | little shared control |
| **Migrations, start-up, shutdown** (`index.ts`, `startup`) | migration table | run once per deployment | several instances start at once |

How the first parts interact. Staff choose lenders and press Send, which needs a
signed application; the signature arrives through the signing chain, whose last
step stamps `signnow_app_signed_at` and queues a `send_lender_package` job. From
then on a Send, a Resend, a Submit by API or the worker may each call
`dispatchToSelected()`, which reads the fraud guard once, delivers lender by
lender, and records each outcome in `application_packages`. The caller then moves
the card to *Off to Lender*. The workers of all instances run under the worker
lock, except the lender package worker and the document reader, which rely on
`FOR UPDATE SKIP LOCKED`. Before that, an uploaded document waits in `ocr_jobs`
until its application is submitted; what was read marks it `completed`, which is
what the banking worker looks for. The older way to a lender, `modules/lender`,
shares with the dispatcher only the stage of the application.

What makes each part correct:

* dispatch: no lender gets a package twice without a reason one can name; a
  lender shown as sent has the package; the file moves exactly when somebody got
  it; a crash never blocks the file; the job has one owner, comes to an end, and
  is completed only if somebody got it; a file in Fraud stays there;
* worker lock: one run of a worker under the lock at a time; a lock that is lost
  is not regained; nothing left behind keeps a worker from running again;
* document reading: a document has one reader at a time and its fields once; a
  success is readable and stays one; every job comes to an end, and no failure is
  forgotten;
* banking: figures shown as complete are those of one reading and add up; what
  needs review waits for people; the worker does not try for ever, nor is it kept
  away for ever;
* transmission: the lender gets the application once; what it got is recorded and
  stays so; retries are limited;
* pipeline: every step taken is a legal transition from the state it replaced;
* processing: the stage agrees with the rows it summarises once they are at rest;
* signing: an application is finalized once per signature.

The hazards of `PROJECT.json` name the line where each of these can go wrong. The
code prevents some of them and lets others happen. Of the latter a property can
only say that they are the only way things go wrong: it names the cause (a stolen
lock, a deleted claim, an overlap, a death, a rollback) and holds but for it. The
notes beside the hazards say which ones are excused in that way.

## 2. Plan

1. `LenderDispatch` with `MCLenderDispatch`, `LenderDispatchProofs` - done.
2. `WorkerLock` with the abstract `ExclusiveRuns`, `MCWorkerLock`,
   `WorkerLockProofs` - done.
   `RetriedJobs`, the abstract job table that `OcrJobs` and `LenderDispatch`
   implement, with `RetriedJobsProofs` - done.
3. `OcrJobs`, `BankingAnalysis` and `LenderTransmission` (with the concurrent
   callers of `transitionPipelineState`), each with its MC module and its
   proofs - done.
4. `SigningChain`, to be composed with `LenderDispatch` (it supplies
   `FinalizeSigned` and `RequestResignature`).
5. `ProcessingStage` with the circuit breaker as a module of its own.
6. Automation leases, refresh tokens, idempotent requests.

The modules were taken in the order of what can go wrong in them unnoticed: money
and personal files leaving the house twice or not at all, figures shown that were
never verified, documents nobody reads. Theorems still worth proving: that
`ExclusiveRuns` over time is what the workers need (with a run abandoned on loss
of its lock); abstract specifications of `BankingAnalysis` (what staff see of the
figures) and of `LenderTransmission` (a submission with its retries), and that the
two modules implement them; that in `LenderDispatch` a second package has its cause
also after the lock was stolen, with the theft named per lender.

## 3. LenderDispatch

One application. A process is a request handler (`Senders`) or a worker tick
(`Workers`); `pc` says which database statement or external call comes next, so
another process, or a crash, can come between any two of them.

| Code | Model |
|---|---|
| claim of `submission_packages_started_at` and its release | `ClaimLock`, `LockBusy`, `ClaimLost`, `LockAges`, `Release`; the timestamp is `free`, `held` or `stale` |
| `maybeBuildAndSendPackage` | `RequestSend`, `PassGate` / `HoldBack`, `SelectLenders` / `SelectThrows`, then the dispatch, `Release`, `Advance` |
| `resendPackageToLender`, `submitByApiToLender`, mark-sent | `RequestResend`, `RequestApi`, `RequestMark` and `MarkRow` |
| `finalizeSignedApplication`, the requests to sign again | `FinalizeSigned`, `EnqueueJob`, `RequestResignature` |
| `dispatchToSelected` | `EnterDispatch` (fraud guard), `TakeNext`, `ConnectorSend`, `EmailSend`, `EmailThrows`, `SheetClaim`, `SheetUnavailable`, `SheetAppend`, `Record`, `FinishDispatch`, `FailDispatch` |
| the `pipeline_state` updates | `Advance`, `AdvanceFails`, with the list of kept stages of each caller |
| `lenderPackageWorker` tick | `WorkerClaim`, `Requeue`, `GiveUp`, `WorkerSelect`, `NoFinalizedLenders`, `AllFailed`, `Settle`; `JobThrows` and its catch, `CatchJob` |
| a killed server, staff moving the card | `Crash`, `MoveStage` |

Abstractions. A package is its arrival: `mails` and `rows` count arrivals to two.
*In Review* stands for all stages before *Off to Lender*, *Offer* for all after.
The gates (signature, product questions, credit summary, SBA package) are the
stored signature plus a choice to hold back. A call to a lender delivers zero or
one copies (a raw API endpoint, tried twice in one call, up to two), and its
answer may say failure although a copy arrived. A call to the mail service that
breaks off leaves the whole dispatch (`EmailThrows`): no row for this lender, and
nothing for those after it. `excused`, `stolen` and
`unclaimed` are history: they record why a second package, or a second row in a
lender's sheet, is not a surprise.

A job whose file is not signed goes back to the queue in one update and, past
`MAX_UNSIGNED_ATTEMPTS`, to `failed` in a second (`Requeue`, `GiveUp`): a worker
that dies or throws between them leaves a job in the queue that should be given
up. A job just put back is not due for minutes, so nobody takes it in between
(`Due`).

`RetriedJobs` says what a job table promises: one runner at a time, no failure
forgotten, attempts left for every open job, and an outcome that stands.
`PackageJobIsRetried` is that the package job's row keeps it. The mapping is by
name but for one case: a `pending` job past its limit counts as the job of a runner
that is gone, at one failure short of the limit (`PastLimit`, `Counted`), and a job
that a worker still has in hand counts as running whatever its row says (`InHand`).

The latter is for updates whose answer is lost. The updates that requeue and end a
job (`Requeue`, `GiveUp`, `NoFinalizedLenders`, `AllFailed`, `Settle`) are inside
the worker's `try`: each may be made and then throw all the same, and the catch
(`CatchJob`) writes by id over what was just written. So a completed job may become
`pending` again, and all its lenders are sent to once more. The catch's own update
may fail as well, made or not.

| Run | Instance | Shows |
|---|---|---|
| `dispatch_requests` | one lender with email and sheet, two handlers, Send / Resend / mark / sign, dispatches that outlive the lock, a failing fraud read | `LockedSendersExclusive`, `SentMeansDelivered`, `NoUnexplainedDuplicate`, `SheetRowOnce` |
| `dispatch_partial` | a connector lender and a raw API lender, one handler, one worker | `SentMeansDelivered`, `OffToLenderOnlyAfterDelivery` |
| `dispatch_workers` | one email lender, one handler, two workers, fairness | `TypeOK`, `JobHasOneOwner`, `CompletedMeansReached`, `DispatchLockNeverPermanent`, `JobSettles`, `PackageJobIsRetried` (the refinement) |
| `resend_overlap` | violated: `ResendNeverOverlaps` | the worker overlaps a Resend |
| `fraud_mid_dispatch` | violated: `FraudFreezesFile` | a Send moves a file out of Fraud |
| `sheet_claim_without_row` | violated: `OffToLenderOnlyAfterDelivery` | a claim without a row counts as sent |

Bounds. Two handlers are the least with which a lock can fail, and a third would
only repeat one of them: handlers differ in what they are doing, of which each
keeps nothing once it returns, so the run goes through unboundedly many requests
two at a time. Two lenders are the least for a partial failure. Counting arrivals
to two is enough for "twice". `MaxAttempts` 2 and `MaxUnsigned` 3 keep the two
limits apart, so that the shared counter can pass one before the other. `MaxSpared`
1 lets giving up fail once, or a requeue that was made throw, and the job come
round again; in the code it may fail
any number of times, in a row of crashes, and each is like the first. The theorems
drop all these bounds.

Fairness. Weak fairness on what a started handler does next (`Progress`), on the
worker's claim (its timer fires every few seconds) and on the passing of ten
minutes. No fairness on requests, on signatures, or on staff moving the card.
`DispatchLockNeverPermanent` and `JobSettles` need no more, and hold although
processes may crash for ever.

## 4. WorkerLock and ExclusiveRuns

`ExclusiveRuns` is what `claim.ts` promises its callers: runs begin only when no
run of the same worker is under the lock; a run can lose the lock and can then
overlap another, but never gets it back. `WorkerLock` is the code: the server's
side of a session (`open`, `owner`, `depth`, with PostgreSQL's re-entrant session
locks) apart from what each process believes (`session`, `heldHere`) and from the
call's own session `c`, which may be an older one. `Promise` is the refinement
mapping: a tick *runs* from the grant on, and is *guarded* while its session owns
the lock.

| Code | Model |
|---|---|
| `withWorkerLock` | `Fire`, `Grant`, `Refuse`, `Answer`, `ClaimFails`, `FnEnds`, `Unlock`, `UnlockFails` |
| `getSession`, the session's error event, `discard` | `Connect`, `ConnectFails`, `SessionError`, `Discard` |
| `close`, `gracefulShutdown` | `Close`, `Exit` |
| PostgreSQL (external) | `FreeLocks`, `ServerDrops`, and the guards of `Grant` and `Unlock` |

| Run | Instance | Shows |
|---|---|---|
| `worker_lock` | two instances, two workers, four ticks, three sessions, every fault | `TypeOK`, `NoLeakedSession`, `KeepsPromise` (the refinement), `LostOnlyWithSession` |
| `worker_lock_liveness` | three ticks, two sessions, every fault | `EveryWorkerRuns` |
| `worker_lock_shutdown` | violated: `NoOtherInstanceRuns`, with no fault at all | shutdown unlocks under running ticks |

Bounds. Two ticks of one worker on one instance are needed for the re-entrant
case, one on another instance for exclusion, one of another worker for the shared
session. Three sessions are the current ones of two instances and one discarded
session that an old tick still holds; identities are reused, so replacement goes
on for ever. `MaxDepth` 2 tells a lock held once from one held again.

Fairness. Timers fire, queries answer, a broken session is noticed, a session
that was given up is ended, a process that shuts down exits. `EveryWorkerRuns`
is conditional: if from some point on only `Untroubled` steps happen (no new
fault, failure or shutdown; the after-effects of old ones are included), then
every worker runs again and again. It needs no promise about which instance.

Abstractions. A session serves its queries one after another in the code; here in
any order. Claims made after `close()` reach a pool that is ending and fail. A
query that never answers is not modelled (see the hazards).

## 5. OcrJobs

How uploaded documents are read. A server's worker locks due rows of `ocr_jobs`,
reads their documents for up to minutes, and writes the outcome by job id. `pc`
and `snap` say, for each server and document, which statement comes next and
which attempt count the worker got with the row.

| Code | Model |
|---|---|
| `enqueueOcrForDocument`, `enqueueOcrForApplication`, `createOcrJob` | `Enqueue` |
| `lockOcrJobs` and the worker's tick | `Claimable`, `LockJobs`; the next tick waits until the last one's jobs have ended (`Resting`) |
| `clearExpiredOcrLocks` | `ClearExpiredLocks` |
| `processOcrJob`, success | `Save` (`markOcrJobSuccess`, one transaction), `SaveUnanswered`, then `WipeFields`, `InsertFields` |
| `processOcrJob`, failure | `RecordFailure` (`markOcrJobFailure`), `MirrorFailure` (`documents.ocr_status`), `FailureLost` |
| "Re-run OCR", `retryOcrJob`, `resetOcrJob` | `Reset`, at any time |
| `reextractDocument` | `BeginReextract`, `EndReextract`; `WipeAfterReextract` is the reader's DELETE that waited for its transaction |
| time, a killed server | `LockAges`, `BackoffEnds`, `Crash` |

`overlapped` is history: the documents whose reader went on after its lock had
aged, its backoff had passed, its job was re-queued, its own success went
unanswered, or a re-extraction stood open beside its replacement of the fields.
The code guards against none of these; the properties say that nothing else is
needed for two readers, a success taken back or fields stored twice.
`JobsAreRetried` is that the rows of `ocr_jobs` keep the promise of `RetriedJobs`
(section 3); the overlapped documents are its contested rows, of which only the
bound on attempts is left.

| Run | Instance | Shows |
|---|---|---|
| `ocr_jobs` | one document, two servers, three attempts, `Stalls` | `TypeOK`, `OneReader`, `OpenJobsHaveAttemptsLeft`, `SucceededMeansReadable`, `FieldsNotDoubled`, `SuccessIsFinal`, `JobsAreRetried` (the refinement), `JobsSettle` |

Bounds. Documents share nothing but the worker that reads them, and two servers
are the least for two readers. Three attempts are the default. Copies of the
fields are counted to two. The theorems hold for any documents and any
concurrency.

Fairness. The workers' timers fire, a reader that was not killed goes on (its
calls have timeouts), locks age and backoffs end. `JobsSettle` is conditional: if
from some point on only `Calm` steps happen (no crash, no rate limit, no lost
answer, no re-queueing), every job of a submitted application ends as
`succeeded` or `canceled`, whatever rows the trouble left. A job whose document
kills the server each time is outside that condition; its attempts are never
counted, since only a surviving reader counts them.

Abstractions. What is read, and by which provider; the text stored by the first
success is kept by later ones (`on conflict do nothing`), of which the model only
keeps that a text is there. The classification, credit summary and notices that
follow a reading write other tables.

## 6. BankingAnalysis

The banking analysis of one application. `runBankingAnalysis` is some ten
statements without a transaction, started by the worker (one at a time, under the
lock of section 4) and by staff (any number). Each statement that matters is an
action, so that two runs, a throw or a crash may come between any two.

| Code | Model |
|---|---|
| the worker's `SELECT`, and its loop over the batch | `Selectable`, `Select` |
| `POST /applications/:id/banking-analysis/run` | `Request` |
| `runBankingAnalysis` | `Start`, `ReadAndClear`, `Insert`, `Aggregate`, `Persist`, then `RecordEmpty`, `CountEmpty` / `CountLost`, or `Judge` |
| `reconcileExtraction` | `Verdicts`, a function of the batches in the table |
| the worker's catch; the request's 500 | `Throw` with `RecordThrow`; `Throw` |
| "Re-run analysis", the Admin's requeue, an upload | `Retry`, `Requeue`, `Upload` |

`scanned` is what the documents with `ocr_status = 'completed'` are: the worker
looks for bank statements among them, a request of staff for any. A run reads the
bank statements, those the reader has not come to included, and there may be none.
A batch of transactions is the run that read it and whether it adds up; two
batches in one table may reconcile or not. `causes` is history: runs that
overlapped, threw or died since one last started alone.

| Run | Instance | Shows |
|---|---|---|
| `banking_analysis` | the worker and one request, two attempts, two empty runs before it is skipped | `TypeOK`, `CompleteMeansReconciled`, `NoOrphan`, `ReviewWaitsForStaff`, `WorkerStops` |

Bounds. A request can come back any number of times, so one is enough for every
pairing of the worker with staff; the code's limits are 3 attempts and
5 empty runs; with 2 of each a loop is taken once and once more.

Fairness. The worker's timer fires and every statement of a run comes to an end;
backoffs end. `WorkerStops` is conditional on people leaving the application alone
and the reading service being in service.

Abstractions. Parsing, amounts and months. A run may throw anywhere, also after
the statement had its effect. `banking_completed_at` and
`documents.banking_status` are not modelled: nothing here reads them. That a
document read once is deleted, or re-read and fails, either of which would hide it
from the worker, is left out. A worker that lost its lock is the same as a request that overlaps.

## 7. LenderTransmission

One application and one lender of the older way to submit. A submit holds the
application's row (`appLock`) from its first statement to its commit, with the
call to the lender in the middle. A retry reads everything unlocked, calls the
lender, and takes the rows (`subLock`, `appLock`) as it writes them. Staff,
clients, automations and connectors (`Movers`) change the stage by
`transitionPipelineState` without a transaction.

| Code | Model |
|---|---|
| `submitApplication`, `transmitSubmission` | `Submit` or `SubmitWithoutPapers`, `Send`, then `SubmitAccepted`, `SubmitFailed` or `SubmitIllegal` |
| `retrySubmission`, `retryExistingSubmission` | `Retry`, `Send`, `RetryMarks`, `RetryReads` / `RetryIllegal` / `RetryMoves`, `RetryCommits` |
| `cancelSubmissionRetry` | `CancelReads`, `CancelWrites` |
| `transitionPipelineState`, `assertPipelineTransition`, `LEGAL_TRANSITIONS` | `MoveReads`, `MoveWrites`; `RetryReads`, `RetryMoves`; `MayMove`, `Legal` |
| the adapters that `sendToLender` chooses among | `SheetSends`, `EmailSends`, `ApiSends` |
| documents accepted and deleted | `AcceptPapers`, `DeletePapers` |
| a statement that throws, a killed server | `CutOff` |

Of the adapters only the Google Sheet's sends anything: the email adapter, the
default, and the API adapter answer *accepted* without a call to a lender. So the
record says nothing about the lender; what can be asked is the converse, that what
reached the lender is on record. The method is read anew at each call, so one
application may go through several adapters. `acceptDocument`, which alone writes
`document_version_reviews`, is called by no route of this commit; the model takes
it for staff's.

Writes show when the transaction commits. What is modelled as one step is so
because of the locks: a submit's writes go to rows nobody else reads between its
lock and its commit, or are new.

`causes` records what may send a package twice: a rollback after the lender was
called, a lost answer, retries that overlap, a cancelation that raced.
`ReceivedIsRecorded` is what a second send is guarded by: what the lender has is in
the record, or in the hands of the call that sent it, unless one of them is to blame.

| Run | Instance | Shows |
|---|---|---|
| `lender_transmission` | two submits, two retries, one mover with four goals, two retries allowed, symmetry | `TypeOK`, `NoUnexplainedResend`, `RetryLimit`, `SubmittedIsKept`, `ReceivedIsRecorded`, `StageMovesAreLegal` |

Bounds. Calls are reused when they return, so two of each go through any number
of requests two at a time. The goals are the stages a submission depends on, one
beyond them and one parked. Packages are counted to two. The properties are
invariants and action properties, for which the symmetry is sound. No fairness:
nothing here is promised to happen, because a retry waits for an Admin's click.

Abstractions. Payloads, the idempotency key (one application and lender make it
redundant), the kill switch, the product-question gate, `skipRequiredDocuments`
(no caller passes it). Only the first attempt can fail in a way that may be
retried (`ApiSubmissionAdapter`: *timeout* stands for it); a sheet row that was
appended without an answer is a refusal to the caller ("unanswered"). The
automations that `transitionPipelineState` runs inside an open transaction are
left out and listed as a hazard.

## 8. What is proved

The six `...Proofs` modules are checked by TLAPS for every value of the constants
that satisfies the named assumptions of the modules (channels are channels,
handlers are not workers, limits are positive and `MaxAttempts <= MaxUnsigned`;
hosts and workers of ticks are instances and names, `None` is no session; the
banking worker is not a request; submits are not retries and `Nobody` is neither).
No finiteness is assumed. In the modules of sections 5 to 7 the inductive
invariant is called `IInv`; each action has a lemma (`...Step`) that it preserves
`IInv`, conjunct by conjunct, `NextIInv` puts them together, and the theorems
follow from `Inductive`.

**LenderDispatch.** The invariants are layered, each an inductive strengthening:

* `Inv0` - types, and that a handler inside a delivery has a lender in hand;
  gives `TypeCorrect`;
* `Inv1` = `Inv0` + `JobInv`: one worker is at work at a time, and under a
  `running` row, but that it finds `pending` when about to give the job up, and
  anything in its catch; gives `OneOwner`. It is needed because the worker writes
  the row by id, without looking at it; bounds on `attempts` at each of these
  points keep the count within its type;
* `Inv2` = `Inv1` + `KindInv` + `LockInv`: each kind of handler is only at its own
  points, and unless the lock was stolen, a handler between claim and release
  finds it not free, and is alone there; gives `LockExcludes`;
* `Inv3` = `Inv2` + `Knows` + `SentMeansDelivered`: what a handler remembers
  (`ok`, `got`) has happened; gives `RecordedMeansDelivered`, `CompletedReached`
  (only `Settle` completes a job, by a worker that knows of a lender, and no step
  takes a package back) and, as an action property, `NothingSentNothingMoved`;
* `Inv4` = `Inv2` + `FreshInv`: a lender with a package that is neither recorded
  nor excused is in the hands of the one handler under the lock; gives
  `NoDuplicates`;
* `Inv5` = `Inv1` + `ClaimInv`: while the claim of a lender's sheet was never lost,
  it stands for the one row there is or for the one handler about to append it -
  no lock is needed for it, so it covers Resends and the worker as well; gives
  `OneSheetRow`.

`NothingSentNothingMoved` assumes that no lender is reached through a Google Sheet
alone: with one the property is false, which is the run
`sheet_claim_without_row`; `CompletedReached` excepts such a lender for the same
reason.

Three promises of the comments that runs refute hold in part, and these parts are
theorems. `ResendOverlapsNoRequest` (from `Inv2`): only the worker's dispatch
overlaps a Resend. `ApiSparesFraud`: Submit by API, whose `UPDATE` looks at the
stage, never moves a file out of Fraud. `NothingSentNothingMoved`, above, for
lenders with another channel than a sheet. And where no dispatch outlives its ten
minutes (`~Stalls`), `NoStallsNoTheft` shows that the lock is never stolen, by
`FreshLockInv` (a handler that holds the lock finds it fresh, so that only a dead
handler's lock turns stale), and `NoStallsNoDuplicates` that every second package
is excused.

**RetriedJobs.** `Inv` is inductive for any jobs, runners and limit: one owner, with
the row saying so; attempts left for open rows; nothing counted before there is a
job. It gives `Kept`, and with it `OutcomesStand`, because an outcome has no owner
who could still write. `FailuresCount` needs only the step.

Two modules implement it. `JobsRetried` (in `OcrJobsProofs`): every step of a
server or of staff is, for each document, one step of its row (`DocStep`) or one
that puts it among the contested rows; a tick that takes several jobs takes one
step of each. It needs `QueueInv`: until its reader is overtaken, the count the
reader writes from is the one in the row. `JobIsRetried` (in
`LenderDispatchProofs`): every step is one of the row (`RowStep`), from `Inv1`.
While a worker has the job, the abstract row is `running` and only its count
moves: `CountFailure`, when a requeue or a lost answer is counted before the run
is over. The worker's last step decides what the run was: `Finish`, `Fail`, or,
when it dies or its catch cannot save, `Lose`. The mapped count is clamped, so a
requeue that reaches the limit counts nothing: `GiveUp` does. Both modules
instantiate `RetriedJobsProofs` with their mapping and so inherit its theorems for
their own rows: `OutcomesStand` and `FailuresCount` in `OcrJobsProofs`,
`FailuresCount` in `LenderDispatchProofs`, and there `OnlyItsWorkerReopens`, which
speaks of the row itself: that an ended job is written again can only be the catch
of the worker that ended it.

**WorkerLock.** `Inv` says that a call that is not idle has its worker in
`heldHere` and is the only such call on its instance; that a session belongs to
one instance, also when only an old call remembers it; that while a call waits
for a connection its instance has no session; and that every session the server
has is current or given up. From it: `TypeCorrect`, `NoSessionLeaks`,
`LostOnlySo`, the refinement `Implements`, where `Grant` is `Begin` and every
other step is `EndOrLose`, and `OneRunUnderLock`.

**OcrJobs.** `AttemptsInv`: a reader goes by a count below the limit, and so does
every row that may be taken, which makes the write of an old copy harmless;
gives `AttemptsLast` and the bound in `TypeCorrect`. `RowFollowsReader`: while
nobody overtakes it, the row shows where the reader is and is not one
`lockOcrJobs` takes; gives `ReadersExclude`, and with it `SuccessIsReadable` and
`SuccessStays`, because the only reader is the one whose outcome the row waits
for. `FieldsInv`: an open re-extraction has deleted all there is, and nobody
inserts beside it; gives `FieldsAreThereOnce`.

**BankingAnalysis.** `AloneInv`: without an overlap, one run is under way at most.
`StageInv` follows that run through its statements (an empty table after the
delete, its own batch after the insert, totals of that batch after `Persist`), so
that the verdict is about what is shown; with `FiguresInv` it gives
`CompleteIsReconciled`, and with the status at each point `ReviewWaits`.
`InProgressInv`: someone stands behind `in_progress`; gives `NothingIsOrphaned`.
`CountInv`: the worker started with an attempt left, and no request counts one;
gives the bound in `TypeCorrect`.

**LenderTransmission.** `SubmitInv`: a submit holds the row, so that the submission
is still missing and the stage is the one it read; `AloneInv`: without an overlap
one retry is under way at most, of a failure; `ReceivedInv`: what the lender has
is recorded or in the hands of the call that sent it; together they give
`OnceUnlessExplained` and `RecordIsKept`. `CountInv`: the count is behind the
calls by at most the retry under way; gives `RetriesAreLimited`. `MoveInv`: what a
mover or a retry is about to write is legal from what it read; gives
`MovesAreLegal`. `SubmitsExclude` is what `SubmitInv` says by itself.
`ReceivedOnRecord` is `ReceivedInv` by itself.

Only model-checked: the liveness properties (`DispatchLockNeverPermanent`,
`JobSettles`, `EveryWorkerRuns`, `JobsSettle`, `WorkerStops`), since neither
fairness nor `ENABLED` is within the prover's reach, and the four violations, each
a single counterexample. Every invariant and every action property of a passing
run is a theorem, and so are the three refinements.

## 9. Disagreements found

1. A Resend can overlap the package worker (`resendToLender.ts:32`).
2. A dispatch that passed the fraud guard moves a parked file out of Fraud
   (`orchestrator.ts:321`; Submit by API has the guard in its `WHERE`).
3. A sheet claim left by a crash or a failed delete is reported as a delivery
   (`dispatchToSelected.ts:84`).
4. A graceful shutdown gives worker locks back under running ticks
   (`claim.ts:123`, against `claim.ts:135`).

Met while modelling, visible in the models, without a run of their own:

5. A refusal by the lender is to move the application on with a reason
   (`README.md:101-103` of the repository); `transitionPipelineState` refuses the
   move from In Review and Documents Required to Rejected, so the submission is
   rolled back instead (`SubmitIllegal`), and so is every success from Documents
   Required (`lender.service.ts:643`).
6. A re-run is to replace a document's fields (`ocr.service.ts:610`); beside a
   re-extraction or a second reader it adds a second set, since the two statements
   are not one transaction (`WipeAfterReextract`, `InsertFields`).
7. The comment at `ocr.repo.ts:217-219` says a failure that will be retried leaves
   `documents.ocr_status` alone and a final one marks it; the code does the reverse
   (`RecordFailure`, `MirrorFailure`).
8. The package worker says of a job that its lenders were dispatched to and that it
   is `completed`; when the answer to that update is lost, the catch sets the job
   back to `pending` and every lender is sent to again
   (`lenderPackageWorker.ts:200-232`; `Settle`, `CatchJob`).
9. `dispatchToSelected` records the outcome of each lender and goes on to the next;
   an exception of the mail service is caught by nobody on the way
   (`graphSendService.ts:106-139`, `dispatchToSelected.ts:295`), so a lender that may
   have the package has no row and the remaining ones are skipped (`EmailThrows`).
10. "A retry must not append a duplicate row" (`dispatchToSelected.ts:54`): it does
    where a catch has deleted the claim of a row that is there, after an append whose
    answer was lost or a claim whose own INSERT threw (`dispatchToSelected.ts:131`,
    `:125`; `SheetRowOnce` names the case, `unclaimed`).
11. "Email accepted for delivery" (`EmailSubmissionAdapter.ts:35`): nothing is sent,
    and email is the default method (`lender.service.ts:261`), so `submitted` is
    recorded of an application no lender has (`EmailSends`; `ApiSends` likewise).
12. "`needs_review` is terminal until staff explicitly retry"
    (`bankingAutoWorker.ts:45-46`): the worker selects a batch (`:35`) and does not
    look again before each run (`:59`), so an application that a run of staff has put
    there meanwhile is run again (`Select`, `Start`; `ReviewWaitsForStaff` names it
    as an overlap).

## 10. Not modelled

`PROJECT.json` lists every part with its reason. In short: parts 4 to 6 of the
plan are not written yet; CRM, reporting, marketing and mail are single-row
operations; telephony follows the provider; document contents, matching scores,
prices and wording are data the properties do not look at. Of the application
pipeline, the routes that write the stage directly (the portal, the client's
submission) are not modelled, except the dispatchers of section 3. The portal's own
Send with its product-keyed rows is not part of `LenderTransmission`.

## 11. Running

    tlc -workers 2 -config DispatchRequests.cfg MCLenderDispatch.tla
    tlc -workers 2 -config WorkerLock.cfg MCWorkerLock.tla
    tlc -workers 2 -config OcrJobs.cfg MCOcrJobs.tla
    tlc -workers 2 -config BankingAnalysis.cfg MCBankingAnalysis.tla
    tlc -workers 2 -config LenderTransmission.cfg MCLenderTransmission.tla
    tlapm LenderDispatchProofs.tla
    tlapm RetriedJobsProofs.tla

The passing runs take between ten seconds and three minutes each with two workers.
