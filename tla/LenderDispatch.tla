---------------------------- MODULE LenderDispatch ----------------------------
(***************************************************************************)
(* How one application's package reaches its lenders.                      *)
(*                                                                         *)
(* Three staff operations and one background worker call the same          *)
(* dispatchToSelected():                                                   *)
(*   send    services/submission/orchestrator.ts  maybeBuildAndSendPackage *)
(*   resend  services/submission/resendToLender.ts                         *)
(*   api     lenderConnectors/submit.ts           submitByApiToLender      *)
(*   worker  workers/lenderPackageWorker.ts       a job_queue row          *)
(* The first three take applications.submission_packages_started_at as a   *)
(* lock that anyone may take over after ten minutes; the worker does not.  *)
(* "mark" (mark-sent) and "sign" (finalizeSignedApplication) are the other *)
(* requests that write the rows these four read.                           *)
(*                                                                         *)
(* Each process is a request handler or a worker tick.  Between two steps  *)
(* of one process any other may run, or the process may be killed.         *)
(***************************************************************************)
EXTENDS Naturals, FiniteSets

CONSTANTS
  Lenders,        \* lenders the file may be sent to
  Senders,        \* request handlers that may be in flight at once
  Workers,        \* server instances running lenderPackageWorker
  Channel,        \* how each lender takes a package (lenders.submission_method)
  NoLender,       \* "no lender in hand"
  Requests,       \* the kinds of request made in this instance of the model
  MaxAttempts,    \* job_queue.max_attempts
  MaxUnsigned,    \* MAX_UNSIGNED_ATTEMPTS
  MaxSpared,      \* bound: how often a job past its limit is left in the queue
                  \* because giving it up failed (see Requeue)
  Stalls,         \* may a running dispatch outlive the ten-minute lock?
  FraudReadFails  \* may the query behind the fraud guard fail?

Channels == {"email", "dual", "sheet", "api", "connector", "connectorOnly"}

RequestKinds == {"send", "resend", "api", "mark", "sign"}

ASSUME ChannelAssumption == Channel \in [Lenders -> Channels]
ASSUME ProcsAssumption == Senders \cap Workers = {}
ASSUME NoLenderAssumption == NoLender \notin Lenders
ASSUME RequestsAssumption == Requests \subseteq RequestKinds
ASSUME AttemptsAssumption ==
  /\ MaxAttempts \in Nat \ {0}
  /\ MaxUnsigned \in Nat \ {0}
  /\ MaxAttempts <= MaxUnsigned
  /\ MaxSpared \in Nat
ASSUME FlagsAssumption == Stalls \in BOOLEAN /\ FraudReadFails \in BOOLEAN

Procs == Senders \cup Workers

VARIABLES
  \* --- rows of the database ---
  signed,     \* applications.signnow_app_signed_at IS NOT NULL
  stage,      \* applications.pipeline_state
  selected,   \* application_lender_selections (finalized)
  pkg,        \* application_packages.status per lender; "manual" is 'sent' as
              \* last written by mark-sent
  sheet,      \* lender_sheet_dispatches rows (the Google Sheet claim)
  lock,       \* submission_packages_started_at: NULL, recent, or over 10 min old
  job,        \* the send_lender_package row of job_queue
  attempts,   \* its attempts column
  \* --- what each process is doing ---
  pc, kind, todo, cur, ok, got,
  \* --- the outside world and history ---
  mails,      \* packages that reached each lender, counted to TwoOrMore
  rows,       \* Google Sheet rows appended for each lender, likewise
  stolen,     \* was the lock ever taken from a dispatch still running?
  excused,    \* lenders a second package is accounted for (see Excuse)
  unclaimed   \* lenders whose claim was deleted while a row was, or could yet
              \* be, in the sheet

database == <<signed, stage, selected, pkg, sheet, lock, job, attempts>>
process  == <<pc, kind, todo, cur, ok, got>>
history  == <<mails, rows, stolen, excused, unclaimed>>
vars     == <<signed, stage, selected, pkg, sheet, lock, job, attempts,
              pc, kind, todo, cur, ok, got, mails, rows, stolen, excused,
              unclaimed>>

-------------------------------------------------------------------------------
(* Types *)

\* "In Review" stands for every stage before Off to Lender, "Offer" for every
\* stage after it (Offer, Accepted, Rejected, Funded).
Stages == {"In Review", "Off to Lender", "Offer", "Fraud"}

PackageStates == {"none", "sent", "failed", "manual"}
LockStates == {"free", "held", "stale"}
JobStates == {"none", "pending", "running", "completed", "failed"}
Kinds == RequestKinds \cup {"worker", "none"}
Points == {"idle", "gate", "claim", "select", "guard", "loop", "connector",
           "email", "sheet", "append", "record", "release", "advance",
           "giveUp", "settle", "catch", "mark", "enqueue"}

TwoOrMore == 2
Count(n) == IF n > TwoOrMore THEN TwoOrMore ELSE n

RowsTyped ==
  /\ signed \in BOOLEAN
  /\ stage \in Stages
  /\ selected \subseteq Lenders
  /\ pkg \in [Lenders -> PackageStates]
  /\ sheet \in [Lenders -> BOOLEAN]
  /\ lock \in LockStates
  /\ job \in JobStates
  /\ attempts \in 0..(MaxUnsigned + MaxSpared + 1)

HandlersTyped ==
  /\ pc \in [Procs -> Points]
  /\ kind \in [Procs -> Kinds]
  /\ todo \in [Procs -> SUBSET Lenders]
  /\ cur \in [Procs -> Lenders \cup {NoLender}]
  /\ ok \in [Procs -> BOOLEAN]
  /\ got \in [Procs -> SUBSET Lenders]

HistoryTyped ==
  /\ mails \in [Lenders -> 0..TwoOrMore]
  /\ rows \in [Lenders -> 0..TwoOrMore]
  /\ stolen \in BOOLEAN
  /\ excused \subseteq Lenders
  /\ unclaimed \subseteq Lenders

\* Every variable keeps its type; in particular the job's attempts pass
\* MAX_UNSIGNED_ATTEMPTS only as often as giving it up failed
\* (lenderPackageWorker.ts:70), and once more when that failure is counted.
TypeOK == RowsTyped /\ HandlersTyped /\ HistoryTyped

Init ==
  /\ signed = FALSE
  /\ stage = "In Review"
  /\ selected = {}
  /\ pkg = [l \in Lenders |-> "none"]
  /\ sheet = [l \in Lenders |-> FALSE]
  /\ lock = "free"
  /\ job = "none"
  /\ attempts = 0
  /\ pc = [p \in Procs |-> "idle"]
  /\ kind = [p \in Procs |-> "none"]
  /\ todo = [p \in Procs |-> {}]
  /\ cur = [p \in Procs |-> NoLender]
  /\ ok = [p \in Procs |-> FALSE]
  /\ got = [p \in Procs |-> {}]
  /\ mails = [l \in Lenders |-> 0]
  /\ rows = [l \in Lenders |-> 0]
  /\ stolen = FALSE
  /\ excused = {}
  /\ unclaimed = {}

-------------------------------------------------------------------------------
(* Helpers *)

GoTo(p, point) == pc' = [pc EXCEPT ![p] = point]

\* The handler returns (or dies): nothing it held in memory survives.
Done(p) ==
  /\ GoTo(p, "idle")
  /\ kind' = [kind EXCEPT ![p] = "none"]
  /\ todo' = [todo EXCEPT ![p] = {}]
  /\ cur' = [cur EXCEPT ![p] = NoLender]
  /\ ok' = [ok EXCEPT ![p] = FALSE]
  /\ got' = [got EXCEPT ![p] = {}]

\* An exception leaves the dispatch or the job's body: a request goes on to give
\* its lock back, the worker to the catch of its job.
Throws(p) ==
  /\ GoTo(p, IF kind[p] = "worker" THEN "catch" ELSE "release")
  /\ todo' = [todo EXCEPT ![p] = {}]
  /\ cur' = [cur EXCEPT ![p] = NoLender]
  /\ ok' = [ok EXCEPT ![p] = FALSE]
  /\ got' = [got EXCEPT ![p] = {}]
  /\ UNCHANGED kind

Start(p, k, at, lenders) ==
  /\ p \in Senders
  /\ k \in Requests
  /\ pc[p] = "idle"
  /\ kind' = [kind EXCEPT ![p] = k]
  /\ todo' = [todo EXCEPT ![p] = lenders]
  /\ GoTo(p, at)
  /\ UNCHANGED <<cur, ok, got>>

\* A second package to these lenders would be asked for, or could not have been
\* known to be one: it is accounted for.
Excuse(lenders) == excused' = excused \cup lenders

Sent(l) == pkg[l] \in {"sent", "manual"}
ConnectorLender(l) == Channel[l] \in {"connector", "connectorOnly"}

\* Inside dispatchToSelected().
DispatchPoints == {"loop", "connector", "email", "sheet", "append", "record"}
Dispatching(p) == pc[p] \in DispatchPoints

\* dispatchToSelected() returned no lender.
NeverEmpty(p) == FALSE
NobodyReached(p) == got[p] = {}

\* Between taking the lock and giving it back.  A normal Send gives it back
\* before it moves the stage, Submit by API after.
HoldsLock(p) ==
  /\ kind[p] \in {"send", "resend", "api"}
  /\ \/ pc[p] \in DispatchPoints \cup {"select", "guard", "release"}
     \/ kind[p] = "api" /\ pc[p] = "advance"

-------------------------------------------------------------------------------
(* The lock: UPDATE applications SET submission_packages_started_at = NOW()    *)
(* WHERE it IS NULL or is older than ten minutes.                              *)

ClaimableAlways == TRUE
ClaimableIfNull == lock = "free"
Claimable == lock \in {"free", "stale"}

ClaimLock(p) ==
  /\ pc[p] = "claim"
  /\ Claimable
  /\ lock' = "held"
  /\ stolen' = (stolen \/ (lock = "stale" /\ \E q \in Procs : HoldsLock(q)))
  /\ GoTo(p, IF kind[p] = "send" THEN "select" ELSE "guard")
  /\ UNCHANGED <<signed, stage, selected, pkg, sheet, job, attempts,
                 kind, todo, cur, ok, got, mails, rows, excused, unclaimed>>

\* "dispatch_in_progress": another caller holds the lock.
LockBusy(p) ==
  /\ pc[p] = "claim"
  /\ ~Claimable
  /\ Done(p)
  /\ UNCHANGED <<database, history>>

\* The claim was made but the answer to the query is lost: nobody holds the lock
\* and nobody will give it back (a claim that was not made is LockBusy to the
\* caller and changes nothing).
ClaimLost(p) ==
  /\ pc[p] = "claim"
  /\ Claimable
  /\ lock' = "held"
  /\ Done(p)
  /\ UNCHANGED <<signed, stage, selected, pkg, sheet, job, attempts, history>>

\* Ten minutes pass.  Unless Stalls, every dispatch ends within them, so only
\* the lock of a handler that died (or failed to release it) grows old.
LockAges ==
  /\ lock = "held"
  /\ Stalls \/ ~\E p \in Procs : HoldsLock(p)
  /\ lock' = "stale"
  /\ UNCHANGED <<signed, stage, selected, pkg, sheet, job, attempts,
                 process, history>>

\* SET submission_packages_started_at = NULL, whoever's it is by now; the query
\* may fail, which is logged and swallowed.
Release(p) ==
  /\ pc[p] = "release"
  /\ lock' \in {"free", lock}
  /\ IF kind[p] = "send" /\ ~NobodyReached(p)
       THEN GoTo(p, "advance") /\ UNCHANGED <<kind, todo, cur, ok, got>>
       ELSE Done(p)
  /\ UNCHANGED <<signed, stage, selected, pkg, sheet, job, attempts, history>>

-------------------------------------------------------------------------------
(* Requests of staff *)

\* POST /lenders/send, POST /portal/lender-submissions and the automatic run
\* after a document is accepted (no new selection): save the selection ...
RequestSend(p, chosen) ==
  /\ Start(p, "send", "gate", {})
  /\ selected' = selected \cup chosen
  /\ UNCHANGED <<signed, stage, pkg, sheet, lock, job, attempts, history>>

\* ... then maybeBuildAndSendPackage's gates.
PassGate(p) ==
  /\ pc[p] = "gate"
  /\ kind[p] = "send"
  /\ signed
  /\ GoTo(p, "claim")
  /\ UNCHANGED <<database, kind, todo, cur, ok, got, history>>

\* Not signed, or held for the credit summary or the SBA package.
HoldBack(p) ==
  /\ pc[p] = "gate"
  /\ kind[p] = "send"
  /\ Done(p)
  /\ UNCHANGED <<database, history>>

\* The lenders of the selection that have no 'sent' row yet.
AllSelected == selected
Unsent == {l \in selected : ~Sent(l)}

SelectLenders(p) ==
  /\ pc[p] = "select"
  /\ todo' = [todo EXCEPT ![p] = Unsent]
  /\ GoTo(p, IF Unsent = {} THEN "release" ELSE "guard")
  /\ UNCHANGED <<database, kind, cur, ok, got, history>>

\* The query for them throws past the release: the lock is left to grow old.
SelectThrows(p) ==
  /\ pc[p] = "select"
  /\ Done(p)
  /\ UNCHANGED <<database, history>>

\* Resend on the Lenders tab: only to a lender that already has the package.
RequestResend(p, l) ==
  /\ Start(p, "resend", "claim", {l})
  /\ stage # "Fraud"
  /\ signed
  /\ Sent(l)
  /\ Excuse({l})
  /\ UNCHANGED <<database, mails, rows, stolen, unclaimed>>

\* Submit by API, and the sync worker's retries of it.
RequestApi(p, l) ==
  /\ Start(p, "api", "claim", {l})
  /\ ConnectorLender(l)
  /\ signed
  /\ Excuse({l})
  /\ UNCHANGED <<database, mails, rows, stolen, unclaimed>>

\* Mark as sent: the file went to this lender outside the portal.
RequestMark(p, l) ==
  /\ Start(p, "mark", "mark", {l})
  /\ stage # "Fraud"
  /\ UNCHANGED <<database, history>>

MarkRow(p) ==
  /\ pc[p] = "mark"
  /\ \E l \in todo[p] : pkg' = [pkg EXCEPT ![l] = "manual"]
  /\ GoTo(p, "advance")
  /\ UNCHANGED <<signed, stage, selected, sheet, lock, job, attempts,
                 kind, todo, cur, ok, got, history>>

-------------------------------------------------------------------------------
(* Signing: finalizeSignedApplication stamps the application, then enqueues    *)
(* the package job unless the application ever had one.                        *)

FinalizeSigned(p) ==
  /\ Start(p, "sign", "enqueue", {})
  /\ signed' = TRUE
  /\ UNCHANGED <<stage, selected, pkg, sheet, lock, job, attempts, history>>

QueuedAgain == "pending"
OnceQueued == IF job = "none" THEN "pending" ELSE job

EnqueueJob(p) ==
  /\ pc[p] = "enqueue"
  /\ job' = OnceQueued
  /\ Done(p)
  /\ UNCHANGED <<signed, stage, selected, pkg, sheet, lock, attempts, history>>

\* requestResignature / sendSbaForSigning: the client must sign again.
RequestResignature ==
  /\ "sign" \in Requests
  /\ signed
  /\ signed' = FALSE
  /\ UNCHANGED <<stage, selected, pkg, sheet, lock, job, attempts,
                 process, history>>

-------------------------------------------------------------------------------
(* dispatchToSelected *)

\* assertApplicationNotFraud, once, on entry.  Its query answers "not fraud" when
\* it fails.
MayEnter(p) == pc[p] = "guard" /\ (stage # "Fraud" \/ FraudReadFails)

EnterDispatch(p) ==
  /\ MayEnter(p)
  /\ GoTo(p, "loop")
  /\ UNCHANGED <<database, kind, todo, cur, ok, got, history>>

\* It throws: fraud, product questions unanswered, no signed PDF, or the package
\* of the next lender cannot be built.  The caller never learns what was sent
\* before.
FailDispatch(p) ==
  /\ pc[p] = "guard" \/ (pc[p] = "loop" /\ todo[p] # {})
  /\ Throws(p)
  /\ UNCHANGED <<database, history>>

\* Where a lender's package goes first.
FirstHop(p, l) ==
  CASE kind[p] = "api" \/ ConnectorLender(l) -> "connector"
    [] Channel[l] = "sheet" -> "sheet"
    [] OTHER -> "email"

TakeNext(p, l) ==
  /\ pc[p] = "loop"
  /\ l \in todo[p]
  /\ todo' = [todo EXCEPT ![p] = @ \ {l}]
  /\ cur' = [cur EXCEPT ![p] = l]
  /\ GoTo(p, FirstHop(p, l))
  /\ UNCHANGED <<database, kind, ok, got, history>>

Arrive(l, n) == mails' = [mails EXCEPT ![l] = Count(@ + n)]

\* n copies reach the lender in hand; the caller is told "sent" only if one did,
\* but a copy may arrive although the caller is told it failed.  A raw API
\* endpoint is tried twice within one call.
Deliver(p, n, reported) ==
  LET l == cur[p] IN
  /\ n \in 0..(IF Channel[l] = "api" THEN 2 ELSE 1)
  /\ reported => n > 0
  /\ Arrive(l, n)
  /\ Excuse(IF n > 1 \/ (n > 0 /\ ~reported) THEN {l} ELSE {})
  /\ ok' = [ok EXCEPT ![p] = reported]
  /\ UNCHANGED <<database, kind, todo, cur, got, rows, stolen, unclaimed>>

\* The lender's API connector.  A refused package falls back to email when the
\* connection allows it, an exception (the submission row cannot be saved after
\* the lender took the package, say) always does; Submit by API never does.
ConnectorSend(p, n, reported, threw) ==
  /\ pc[p] = "connector"
  /\ threw => ~reported
  /\ Deliver(p, n, reported)
  /\ GoTo(p, IF /\ ~reported
                /\ kind[p] # "api"
                /\ threw \/ Channel[cur[p]] = "connector"
               THEN "email" ELSE "record")

\* An email, or a POST to the lender's endpoint.
EmailSend(p, n, reported) ==
  /\ pc[p] = "email"
  /\ Deliver(p, n, reported)
  /\ GoTo(p, IF reported /\ Channel[cur[p]] = "dual" THEN "sheet" ELSE "record")

\* A call to the mail service breaks off, before or after the mail was accepted:
\* nothing catches that on the way out of the dispatch, so nothing is recorded of
\* this lender and the remaining ones are not sent to.  (A POST to an endpoint has
\* a catch of its own: EmailSend.)
EmailThrows(p, n) ==
  LET l == cur[p] IN
  /\ pc[p] = "email"
  /\ Channel[l] # "api"
  /\ n \in 0..1
  /\ Arrive(l, n)
  /\ Excuse(IF n > 0 THEN {l} ELSE {})
  /\ Throws(p)
  /\ UNCHANGED <<database, rows, stolen, unclaimed>>

\* appendLenderSheetRow, first half: INSERT ... ON CONFLICT DO NOTHING.  A claim
\* that is already there counts as delivered.
NeverClaimed(l) == FALSE
AlreadyClaimed(l) == sheet[l]

SheetClaim(p) ==
  LET l == cur[p] IN
  /\ pc[p] = "sheet"
  /\ sheet' = [sheet EXCEPT ![l] = TRUE]
  /\ ok' = [ok EXCEPT ![p] = AlreadyClaimed(l)]
  /\ GoTo(p, IF AlreadyClaimed(l) THEN "record" ELSE "append")
  /\ UNCHANGED <<signed, stage, selected, pkg, lock, job, attempts,
                 kind, todo, cur, got, history>>

\* The claim of l goes while a row of l is, or may yet come to be, in the sheet.
Unclaim(l, lost) ==
  unclaimed' = IF lost THEN unclaimed \cup {l} ELSE unclaimed

\* No sheet or adapter: nothing happens to the claim.  Or the claim's query throws
\* (it may have been made all the same) and the claim is deleted, whoever made
\* it, unless the delete fails as well.
SheetUnavailable(p, claimed) ==
  LET l == cur[p] IN
  /\ pc[p] = "sheet"
  /\ sheet' = [sheet EXCEPT ![l] = claimed]
  /\ Unclaim(l, sheet[l] /\ ~claimed)
  /\ ok' = [ok EXCEPT ![p] = FALSE]
  /\ Excuse({l})
  /\ GoTo(p, "record")
  /\ UNCHANGED <<signed, stage, selected, pkg, lock, job, attempts,
                 kind, todo, cur, got, mails, rows, stolen>>

\* Second half: append the row.  On failure the claim is deleted (or the delete
\* fails as well, which is swallowed) and the lender counts as failed, although
\* a "dual" lender's email has gone out and the row itself may be there.
SheetAppend(p, n, reported, freed) ==
  LET l == cur[p] IN
  /\ pc[p] = "append"
  /\ n \in 0..1
  /\ reported => n > 0
  /\ rows' = [rows EXCEPT ![l] = Count(@ + n)]
  /\ sheet' = [sheet EXCEPT ![l] = @ /\ (reported \/ ~freed)]
  /\ Unclaim(l, n > 0 /\ ~reported /\ freed)
  /\ Excuse(IF reported THEN {} ELSE {l})
  /\ ok' = [ok EXCEPT ![p] = reported]
  /\ GoTo(p, "record")
  /\ UNCHANGED <<signed, stage, selected, pkg, lock, job, attempts,
                 kind, todo, cur, got, mails, stolen>>

\* The application_packages upsert overwrites whatever was there; an error is
\* logged and swallowed.
AlwaysSent(p) == "sent"
Outcome(p) == IF ok[p] THEN "sent" ELSE "failed"

Record(p, saved) ==
  LET l == cur[p] IN
  /\ pc[p] = "record"
  /\ pkg' = IF saved THEN [pkg EXCEPT ![l] = Outcome(p)] ELSE pkg
  /\ Excuse(IF ok[p] /\ ~saved THEN {l} ELSE {})
  /\ got' = [got EXCEPT ![p] = IF ok[p] THEN @ \cup {l} ELSE @]
  /\ cur' = [cur EXCEPT ![p] = NoLender]
  /\ ok' = [ok EXCEPT ![p] = FALSE]
  /\ GoTo(p, "loop")
  /\ UNCHANGED <<signed, stage, selected, sheet, lock, job, attempts,
                 kind, todo, mails, rows, stolen, unclaimed>>

\* The loop is over.
FinishDispatch(p) ==
  /\ pc[p] = "loop"
  /\ todo[p] = {}
  /\ ~(kind[p] = "worker" /\ NobodyReached(p))
  /\ GoTo(p, IF kind[p] = "worker" \/ (kind[p] = "api" /\ ~NobodyReached(p))
               THEN "advance" ELSE "release")
  /\ UNCHANGED <<database, kind, todo, cur, ok, got, history>>

-------------------------------------------------------------------------------
(* UPDATE applications SET pipeline_state = 'Off to Lender' WHERE              *)
(* pipeline_state NOT IN (...).  Only Submit by API spares a file in Fraud.    *)

KeptStages(p) ==
  {"Off to Lender", "Offer"} \cup (IF kind[p] = "api" THEN {"Fraud"} ELSE {})

AfterAdvance(p) ==
  CASE kind[p] = "api" -> GoTo(p, "release") /\ UNCHANGED <<kind, todo, cur, ok, got>>
    [] kind[p] = "worker" -> GoTo(p, "settle") /\ UNCHANGED <<kind, todo, cur, ok, got>>
    [] OTHER -> Done(p)

Advance(p) ==
  /\ pc[p] = "advance"
  /\ stage' = IF stage \in KeptStages(p) THEN stage ELSE "Off to Lender"
  /\ AfterAdvance(p)
  /\ UNCHANGED <<signed, selected, pkg, sheet, lock, job, attempts, history>>

\* The update fails or finds a stage that only mark-sent keeps (Additional Steps
\* Required): a Send swallows it, Submit by API returns through its
\* finally, mark-sent answers 500 (for the worker see JobThrows; that it throws
\* after the update was made is Advance followed by JobThrows).
AdvanceFails(p) ==
  /\ pc[p] = "advance"
  /\ kind[p] # "worker"
  /\ AfterAdvance(p)
  /\ UNCHANGED <<database, history>>

-------------------------------------------------------------------------------
(* The lender package worker *)

\* UPDATE ... WHERE status = 'pending' ... FOR UPDATE SKIP LOCKED.
OpenJobs == {"pending", "running"}
ReadyJobs == {"pending"}

\* A job just put back is not due for minutes: nobody takes it while the worker
\* that put it back is about to give it up, or is in its catch.
Due == \A v \in Workers : pc[v] \notin {"giveUp", "catch"}

WorkerClaim(w) ==
  /\ w \in Workers
  /\ pc[w] = "idle"
  /\ job \in ReadyJobs
  /\ Due
  /\ job' = "running"
  /\ kind' = [kind EXCEPT ![w] = "worker"]
  /\ GoTo(w, "gate")
  /\ UNCHANGED <<signed, stage, selected, pkg, sheet, lock, attempts,
                 todo, cur, ok, got, history>>

\* The attempts column after one more attempt.
SameAttempts == attempts
NextAttempts == attempts + 1

\* Where the job goes when it throws.
AfterThrow == IF NextAttempts >= MaxAttempts THEN "failed" ELSE "pending"

\* Not signed, or the PNW, SBA signing or SBA package gate refuses: back to the
\* queue and, when it has been there MaxUnsigned times, to 'failed' by a second
\* update.  An update whose answer is lost throws, although it was made.
NeverGivenUp(w) == Done(w)
AfterRequeue(w) ==
  IF NextAttempts >= MaxUnsigned
    THEN GoTo(w, "giveUp") /\ UNCHANGED <<kind, todo, cur, ok, got>>
    ELSE Done(w)

Requeue(w, answered) ==
  /\ pc[w] = "gate"
  /\ kind[w] = "worker"
  /\ attempts' = NextAttempts
  /\ job' = "pending"
  /\ IF answered THEN AfterRequeue(w) ELSE Throws(w)
  /\ UNCHANGED <<signed, stage, selected, pkg, sheet, lock, history>>

\* The bound on how often a job that should be given up stays in the queue because
\* its worker p is gone.
MaySpare == attempts < MaxUnsigned + MaxSpared
MayLeaveJob(p) == kind[p] = "worker" /\ job = "pending" => MaySpare

\* Every finalized lender, those that have the package included, and no lock.
WorkerSelect(w) ==
  /\ pc[w] = "gate"
  /\ kind[w] = "worker"
  /\ signed
  /\ selected # {}
  /\ todo' = [todo EXCEPT ![w] = selected]
  /\ GoTo(w, "guard")
  /\ Excuse(selected)
  /\ UNCHANGED <<database, kind, cur, ok, got, mails, rows, stolen, unclaimed>>

\* The update that ends the job; it may be made and its answer lost.
EndJob(w, outcome, answered) ==
  /\ job' = outcome
  /\ IF answered THEN Done(w) ELSE Throws(w)
  /\ UNCHANGED <<signed, stage, selected, pkg, sheet, lock, attempts, history>>

GiveUp(w, answered) ==
  /\ pc[w] = "giveUp"
  /\ EndJob(w, "failed", answered)

NoFinalizedLenders(w, answered) ==
  /\ pc[w] = "gate"
  /\ kind[w] = "worker"
  /\ signed
  /\ selected = {}
  /\ EndJob(w, "failed", answered)

\* "dispatch_all_failed"
AllFailed(w, answered) ==
  /\ pc[w] = "loop"
  /\ kind[w] = "worker"
  /\ todo[w] = {}
  /\ NobodyReached(w)
  /\ EndJob(w, "failed", answered)

Settle(w, answered) ==
  /\ pc[w] = "settle"
  /\ kind[w] = "worker"
  /\ EndJob(w, "completed", answered)

\* A query of the job's body throws without having had an effect.
JobThrows(w) ==
  /\ kind[w] = "worker"
  /\ \/ pc[w] \in {"gate", "giveUp", "advance", "settle"}
     \/ pc[w] = "loop" /\ todo[w] = {} /\ NobodyReached(w)
  /\ Throws(w)
  /\ UNCHANGED <<database, history>>

\* The catch: try again later, up to max_attempts counted in the column that
\* Requeue counts in.  It is written over whatever the row says by then, which is
\* 'completed' or 'failed' if the update that ended the job was made after all.
\* The write may fail too, which is logged and leaves the row as it is.
CatchJob(w, saved) ==
  /\ pc[w] = "catch"
  /\ IF saved
       THEN attempts' = NextAttempts /\ job' = AfterThrow
       ELSE MayLeaveJob(w) /\ UNCHANGED <<attempts, job>>
  /\ Done(w)
  /\ UNCHANGED <<signed, stage, selected, pkg, sheet, lock, history>>

-------------------------------------------------------------------------------
(* The rest of the world *)

\* The server is killed or redeployed while p is at work.  Its lock and its job
\* row stay as they are.
Crash(p) ==
  /\ pc[p] # "idle"
  /\ MayLeaveJob(p)
  /\ Excuse(IF pc[p] \in {"sheet", "append", "record"} THEN {cur[p]} ELSE {})
  /\ Done(p)
  /\ UNCHANGED <<database, mails, rows, stolen, unclaimed>>

\* Staff or a lender's answer move the file along LEGAL_TRANSITIONS.
Moves(from) ==
  CASE from = "In Review" -> {"Off to Lender", "Fraud"}
    [] from = "Off to Lender" -> {"Offer", "In Review", "Fraud"}
    [] from = "Offer" -> {"In Review", "Fraud"}
    [] OTHER -> Stages \ {"Fraud"}

MoveStage ==
  /\ \E s \in Moves(stage) : stage' = s
  /\ UNCHANGED <<signed, selected, pkg, sheet, lock, job, attempts,
                 process, history>>

Request(p) ==
  \/ \E chosen \in SUBSET Lenders : RequestSend(p, chosen)
  \/ \E l \in Lenders : RequestResend(p, l) \/ RequestApi(p, l) \/ RequestMark(p, l)
  \/ FinalizeSigned(p)

\* What a handler or tick does once it has started.
Progress(p) ==
  \/ ClaimLock(p) \/ LockBusy(p) \/ ClaimLost(p) \/ Release(p)
  \/ PassGate(p) \/ HoldBack(p) \/ SelectLenders(p) \/ SelectThrows(p)
  \/ MarkRow(p) \/ EnqueueJob(p)
  \/ EnterDispatch(p) \/ FailDispatch(p) \/ FinishDispatch(p)
  \/ \E l \in Lenders : TakeNext(p, l)
  \/ \E n \in 0..2, r, t \in BOOLEAN : ConnectorSend(p, n, r, t)
  \/ \E n \in 0..2, r \in BOOLEAN : EmailSend(p, n, r)
  \/ \E n \in 0..1 : EmailThrows(p, n)
  \/ SheetClaim(p)
  \/ \E c \in BOOLEAN : SheetUnavailable(p, c)
  \/ \E n \in 0..1, r, f \in BOOLEAN : SheetAppend(p, n, r, f)
  \/ \E saved \in BOOLEAN : Record(p, saved)
  \/ Advance(p) \/ AdvanceFails(p)
  \/ WorkerSelect(p)
  \/ \E answered \in BOOLEAN :
       \/ Requeue(p, answered) \/ GiveUp(p, answered)
       \/ NoFinalizedLenders(p, answered) \/ AllFailed(p, answered)
       \/ Settle(p, answered)
  \/ JobThrows(p)
  \/ \E saved \in BOOLEAN : CatchJob(p, saved)

Next ==
  \/ \E p \in Senders : Request(p)
  \/ \E w \in Workers : WorkerClaim(w)
  \/ \E p \in Procs : Progress(p) \/ Crash(p)
  \/ RequestResignature
  \/ MoveStage
  \/ LockAges

\* A handler that started keeps running, the worker's timer keeps ticking, time
\* passes.  Nothing obliges staff, clients or lenders to act, or a server to die.
Fairness ==
  /\ \A p \in Procs : WF_vars(Progress(p))
  /\ WF_vars(\E w \in Workers : WorkerClaim(w))
  /\ WF_vars(LockAges)

SafetySpec == Init /\ [][Next]_vars
Spec == SafetySpec /\ Fairness

-------------------------------------------------------------------------------
(* Properties *)

Reached(l) == mails[l] > 0 \/ rows[l] > 0

\* The ten-minute lock excludes: unless it was taken from a dispatch that outlived
\* it, at most one Send, Resend or Submit by API is between taking the lock and
\* giving it back - whatever handlers died, failed to give it back or lost the
\* answer to their claim (orchestrator.ts:227-234, resendToLender.ts:32).
LockedSendersExclusive ==
  ~stolen => \A p, q \in Procs : HoldsLock(p) /\ HoldsLock(q) => p = q

\* A lender shown as 'sent' (and not marked so by staff) has received at least one
\* package (lenderPackageWorker.ts:150-155), the lenders reached through a Google
\* Sheet alone excepted, where a claim stands in for the row.
SentMeansDelivered ==
  \A l \in Lenders : pkg[l] = "sent" /\ Channel[l] # "sheet" => mails[l] > 0

\* Nobody gets a second package without an identified cause: a staff Resend or
\* Submit by API, the worker's unfiltered selection, a delivery whose outcome was
\* lost, or a stolen lock.  Pressing Send again, from as many tabs as one likes
\* and across crashes, is not one (orchestrator.ts:235-246).
NoUnexplainedDuplicate ==
  ~stolen => \A l \in Lenders : mails[l] > 1 => l \in excused

\* "A retry must not append a duplicate row" (dispatchToSelected.ts:54): however
\* Sends, Resends and the worker's dispatches overlap, die or repeat, a lender's
\* sheet gets a second row only after its claim was deleted while a row was there
\* or on its way (by the claim's catch, dispatchToSelected.ts:131, or after an
\* append that was reported as failed, :125).
SheetRowOnce == \A l \in Lenders : rows[l] > 1 => l \in unclaimed

\* Only one worker runs the job, and while it does the row says so, but for the
\* moment before it is given up and, once an answer was lost, until the catch has
\* written it ("safe under multiple replicas", lenderPackageWorker.ts:3-4).
JobHasOneOwner ==
  /\ \A w \in Workers : kind[w] = "worker" =>
       CASE pc[w] = "giveUp" -> job = "pending"
         [] pc[w] = "catch" -> job # "none"
         [] OTHER -> job = "running"
  /\ \A w, x \in Workers : kind[w] = "worker" /\ kind[x] = "worker" => w = x

\* The job's row keeps what a job queue promises: no failure or "not signed yet" of
\* a run is forgotten, the job is given up within MAX_UNSIGNED_ATTEMPTS of them, and
\* how it ended stands once its worker is gone (lenderPackageWorker.ts:3-4, 17-20,
\* 62-80).  Until then the row may say that it ended and be written again, so a job
\* a worker has in hand counts as running.  A job past that limit that is still in
\* the queue is a job whose runner died.
PackageJob == {"send_lender_package"}
InHand == \E w \in Workers : kind[w] = "worker"
PastLimit == job = "pending" /\ attempts >= MaxUnsigned

JobStatus ==
  CASE InHand \/ PastLimit \/ job = "running" -> "running"
    [] job = "pending" /\ ~InHand /\ ~PastLimit -> "waiting"
    [] job = "completed" /\ ~InHand -> "done"
    [] job = "failed" /\ ~InHand -> "givenUp"
    [] OTHER -> "none"

Counted ==
  LET most == IF JobStatus = "givenUp" THEN MaxUnsigned ELSE MaxUnsigned - 1
  IN  IF attempts > most THEN most ELSE attempts

Queue == INSTANCE RetriedJobs
  WITH Jobs <- PackageJob, Runners <- Workers, Limit <- MaxUnsigned,
       status <- [j \in PackageJob |-> JobStatus],
       attempts <- [j \in PackageJob |-> Counted],
       owners <- [j \in PackageJob |-> {w \in Workers : kind[w] = "worker"}],
       contested <- {}

PackageJobIsRetried == Queue!Spec

\* The application does not move to Off to Lender on its own when nobody received
\* it (orchestrator.ts:290-296); staff may move it, or mark it as sent.
OffToLenderOnlyAfterDelivery ==
  [][stage # "Off to Lender" /\ stage' = "Off to Lender" =>
       \/ MoveStage
       \/ \E p \in Procs : kind[p] = "mark" /\ Advance(p)
       \/ \E l \in Lenders : Reached(l)]_vars

\* A job is not marked completed when no lender received the package ("a lender
\* receiving nothing looked identical to a successful send",
\* lenderPackageWorker.ts:150-155), however often it was put back, reopened by a
\* lost answer or ran against a selection that had changed.  Lenders reached through
\* a Google Sheet alone are excepted, where a claim stands in for the row.
CompletedMeansReached ==
  job = "completed" => \E l \in Lenders : Channel[l] = "sheet" \/ Reached(l)

\* "Another caller holds the lock right now. Never a permanent state."
\* (orchestrator.ts:260), whoever dies holding it.
DispatchLockNeverPermanent == []<>Claimable

\* A job whose worker died, or could not save how the job ended.
Stranded == job = "running" /\ ~InHand

\* A queued package is dispatched, given up or stranded: it does not go round the
\* queue for ever, and no worker keeps it (lenderPackageWorker.ts:17-20).
JobSettles == job = "pending" ~> (job # "pending" /\ ~InHand)

\* Resend: "Same lock as a normal send, so a resend never overlaps another
\* dispatch of this file" (resendToLender.ts:32).  The worker's dispatch takes no
\* lock.
ResendNeverOverlaps ==
  \A p, q \in Procs :
    kind[p] = "resend" /\ Dispatching(p) /\ Dispatching(q) => p = q

\* "Once an application is parked in Fraud it must stop moving" until somebody
\* restores it (fraudGuard.ts:2-9): no dispatch moves its card.  The guard is read
\* once, before the packages are built and sent.
FraudFreezesFile == [][stage = "Fraud" => stage' = stage \/ MoveStage]_vars

===============================================================================
