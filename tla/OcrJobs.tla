------------------------------- MODULE OcrJobs -------------------------------
(***************************************************************************)
(* How uploaded documents are read (OCR).                                  *)
(*                                                                         *)
(* Each document has at most one row in ocr_jobs.  Every server instance   *)
(* runs a worker (modules/ocr/ocr.worker.ts) that locks due rows with      *)
(* FOR UPDATE SKIP LOCKED, reads their documents for up to minutes, and    *)
(* writes the outcome by job id without looking at the row again.  The     *)
(* row's lock is a timestamp anyone may overrule once it is older than     *)
(* lockTimeoutMinutes; staff may put a job back in the queue at any time;  *)
(* an Admin may re-parse the stored text while the worker replaces the     *)
(* fields parsed from it.                                                  *)
(*                                                                         *)
(* Two documents are independent but for the worker that reads them.       *)
(***************************************************************************)
EXTENDS Naturals, FiniteSets

CONSTANTS
  Docs,         \* uploaded documents
  Servers,      \* server instances
  Concurrency,  \* config.ocr.workerConcurrency: jobs one tick may take
  MaxAttempts,  \* ocr_jobs.max_attempts
  Stalls        \* may a reader outlive the lock timeout or a job's backoff?

ASSUME ConcurrencyAssumption == Concurrency \in Nat \ {0}
ASSUME MaxAttemptsAssumption == MaxAttempts \in Nat \ {0}
ASSUME StallsAssumption == Stalls \in BOOLEAN

VARIABLES
  \* --- rows of the database ---
  submitted,  \* the application has left 'draft', or a broker imported it
  job,        \* ocr_jobs.status per document
  attempts,   \* ocr_jobs.attempt_count
  due,        \* next_attempt_at is NULL or has passed
  lock,       \* locked_at: NULL, recent, or past the timeout
  stored,     \* is there an ocr_document_results row?
  mark,       \* documents.ocr_status
  copies,     \* sets of parsed fields in ocr_results, counted to TwoOrMore
  \* --- what each process is doing ---
  pc, snap,   \* per server and document: the next step of processOcrJob, and
              \* the attempt_count of the row as the worker got it
  rex,        \* the field sets seen by the DELETE of an open re-extraction
              \* transaction, or Closed
  \* --- history ---
  overlapped  \* documents whose reader was overtaken (see Overtaken)

rows    == <<submitted, job, attempts, due, lock, stored, mark, copies>>
readers == <<pc, snap>>
vars    == <<submitted, job, attempts, due, lock, stored, mark, copies,
             pc, snap, rex, overlapped>>

-------------------------------------------------------------------------------
(* Types *)

JobStates == {"none", "queued", "processing", "succeeded", "failed", "canceled"}
LockStates == {"free", "held", "stale"}
Marks == {"unread", "completed", "failed"}
Points == {"idle", "reading", "saved", "wiped", "mirror"}

TwoOrMore == 2
Count(n) == IF n > TwoOrMore THEN TwoOrMore ELSE n
Closed == TwoOrMore + 1

\* Every variable keeps its type; in particular no job is tried more often than
\* max_attempts (ocr.service.ts:757).
TypeOK ==
  /\ submitted \in BOOLEAN
  /\ job \in [Docs -> JobStates]
  /\ attempts \in [Docs -> 0..MaxAttempts]
  /\ due \in [Docs -> BOOLEAN]
  /\ lock \in [Docs -> LockStates]
  /\ stored \in [Docs -> BOOLEAN]
  /\ mark \in [Docs -> Marks]
  /\ copies \in [Docs -> 0..TwoOrMore]
  /\ pc \in [Servers -> [Docs -> Points]]
  /\ snap \in [Servers -> [Docs -> 0..MaxAttempts]]
  /\ rex \in [Docs -> 0..Closed]
  /\ overlapped \subseteq Docs

Init ==
  /\ submitted = FALSE
  /\ job = [d \in Docs |-> "none"]
  /\ attempts = [d \in Docs |-> 0]
  /\ due = [d \in Docs |-> TRUE]
  /\ lock = [d \in Docs |-> "free"]
  /\ stored = [d \in Docs |-> FALSE]
  /\ mark = [d \in Docs |-> "unread"]
  /\ copies = [d \in Docs |-> 0]
  /\ pc = [s \in Servers |-> [d \in Docs |-> "idle"]]
  /\ snap = [s \in Servers |-> [d \in Docs |-> 0]]
  /\ rex = [d \in Docs |-> Closed]
  /\ overlapped = {}

-------------------------------------------------------------------------------
(* Helpers *)

InHand(s, d) == pc[s][d] # "idle"
InHands(d) == \E s \in Servers : InHand(s, d)
Resting(s) == \A d \in Docs : ~InHand(s, d)
Settled(d) == job[d] \in {"succeeded", "canceled"}

GoTo(s, d, point) == pc' = [pc EXCEPT ![s][d] = point]

\* processOcrJob returns: what it knew of the row is forgotten.
Done(s, d) ==
  /\ GoTo(s, d, "idle")
  /\ snap' = [snap EXCEPT ![s][d] = 0]

\* From here on a reader that has not finished with the document no longer knows
\* its row: a second process may work on it, or its own success went unanswered.
Overtaken(ds) == overlapped' = overlapped \cup ds

-------------------------------------------------------------------------------
(* Staff and clients *)

\* The client submits: until then the documents of a draft wait.
Submit ==
  /\ ~submitted
  /\ submitted' = TRUE
  /\ UNCHANGED <<job, attempts, due, lock, stored, mark, copies, readers, rex,
                 overlapped>>

\* createOcrJob: a document that has a job keeps it as it is.
Enqueue(d) ==
  /\ job[d] = "none"
  /\ job' = [job EXCEPT ![d] = "queued"]
  /\ UNCHANGED <<submitted, attempts, due, lock, stored, mark, copies, readers,
                 rex, overlapped>>

\* "Re-run OCR": retryOcrJob puts the job back in the queue whatever it is doing.
Reset(d) ==
  /\ job[d] # "none"
  /\ job' = [job EXCEPT ![d] = "queued"]
  /\ attempts' = [attempts EXCEPT ![d] = 0]
  /\ due' = [due EXCEPT ![d] = TRUE]
  /\ lock' = [lock EXCEPT ![d] = "free"]
  /\ Overtaken(IF InHands(d) THEN {d} ELSE {})
  /\ UNCHANGED <<submitted, stored, mark, copies, readers, rex>>

-------------------------------------------------------------------------------
(* Time.  Unless Stalls, a reader ends before its lock or its backoff does.    *)

LockAges(d) ==
  /\ lock[d] = "held"
  /\ Stalls \/ ~InHands(d)
  /\ lock' = [lock EXCEPT ![d] = "stale"]
  /\ Overtaken(IF InHands(d) THEN {d} ELSE {})
  /\ UNCHANGED <<submitted, job, attempts, due, stored, mark, copies, readers,
                 rex>>

BackoffEnds(d) ==
  /\ ~due[d]
  /\ Stalls \/ ~InHands(d)
  /\ due' = [due EXCEPT ![d] = TRUE]
  /\ Overtaken(IF InHands(d) THEN {d} ELSE {})
  /\ UNCHANGED <<submitted, job, attempts, lock, stored, mark, copies, readers,
                 rex>>

-------------------------------------------------------------------------------
(* The worker takes jobs: lockOcrJobs *)

AnyState == {"queued", "failed", "succeeded"}
WaitingStates == {"queued", "failed"}

IgnoreLock(d) == TRUE
OpenLock(d) == lock[d] # "held"

\* A row left 'processing' by a reader that died is taken up again.
NoneAbandoned(d) == FALSE
Abandoned(d) == job[d] = "processing"

Claimable(d) ==
  /\ submitted
  /\ OpenLock(d)
  /\ \/ job[d] \in WaitingStates /\ due[d]
     \/ Abandoned(d)

\* The next tick starts when every job of the last one has ended.
LockJobs(s, taken) ==
  /\ Resting(s)
  /\ taken # {}
  /\ Cardinality(taken) <= Concurrency
  /\ \A d \in taken : Claimable(d)
  /\ job' = [d \in Docs |-> IF d \in taken THEN "processing" ELSE job[d]]
  /\ lock' = [d \in Docs |-> IF d \in taken THEN "held" ELSE lock[d]]
  /\ pc' = [pc EXCEPT ![s] =
              [d \in Docs |-> IF d \in taken THEN "reading" ELSE "idle"]]
  /\ snap' = [snap EXCEPT ![s] =
                [d \in Docs |-> IF d \in taken THEN attempts[d] ELSE 0]]
  /\ UNCHANGED <<submitted, attempts, due, stored, mark, copies, rex, overlapped>>

\* clearExpiredOcrLocks, when a server starts.
ClearExpiredLocks(s) ==
  /\ Resting(s)
  /\ \E d \in Docs : lock[d] = "stale"
  /\ lock' = [d \in Docs |-> IF lock[d] = "stale" THEN "free" ELSE lock[d]]
  /\ UNCHANGED <<submitted, job, attempts, due, stored, mark, copies, readers,
                 rex, overlapped>>

-------------------------------------------------------------------------------
(* The document was read: markOcrJobSuccess, one transaction, then the fields  *)
(* are replaced by two statements of their own.                                *)

MarkUntouched == "unread"
MarkAfterSuccess == "completed"

SaveResult(s, d) ==
  /\ pc[s][d] = "reading"
  /\ job' = [job EXCEPT ![d] = "succeeded"]
  /\ due' = [due EXCEPT ![d] = TRUE]
  /\ lock' = [lock EXCEPT ![d] = "free"]
  /\ stored' = [stored EXCEPT ![d] = TRUE]
  /\ mark' = [mark EXCEPT ![d] = MarkAfterSuccess]
  /\ UNCHANGED <<submitted, attempts, copies, snap, rex>>

Save(s, d) == SaveResult(s, d) /\ GoTo(s, d, "saved") /\ UNCHANGED overlapped

\* The transaction committed but its answer was lost: the reader goes on to
\* record a failure.
SaveUnanswered(s, d) == SaveResult(s, d) /\ Overtaken({d}) /\ UNCHANGED pc

LeftByNoDelete(d) == copies[d]
LeftByDelete(d) == 0

\* DELETE FROM ocr_results, or it throws and the old fields stay.
WipeFields(s, d) ==
  /\ pc[s][d] = "saved"
  /\ rex[d] \in {0, Closed}
  /\ \/ /\ copies' = [copies EXCEPT ![d] = LeftByDelete(d)]
        /\ GoTo(s, d, "wiped")
        /\ UNCHANGED snap
     \/ Done(s, d) /\ UNCHANGED copies
  /\ Overtaken(IF rex[d] # Closed THEN {d} ELSE {})
  /\ UNCHANGED <<submitted, job, attempts, due, lock, stored, mark, rex>>

\* A re-extraction has deleted the old rows and not committed: the DELETE waits
\* for its end and does not see the rows it added.
WipeAfterReextract(s, d) ==
  /\ pc[s][d] = "saved"
  /\ rex[d] \in 1..TwoOrMore
  /\ rex' = [rex EXCEPT ![d] = Closed]
  /\ \E added \in {0, 1} :
       copies' = [copies EXCEPT ![d] = LeftByDelete(d) + added]
  /\ GoTo(s, d, "wiped")
  /\ Overtaken({d})
  /\ UNCHANGED <<submitted, job, attempts, due, lock, stored, mark, snap>>

\* The new fields go in, unless there are none or the INSERT throws.
InsertFields(s, d) ==
  /\ pc[s][d] = "wiped"
  /\ copies' \in {copies, [copies EXCEPT ![d] = Count(@ + 1)]}
  /\ Done(s, d)
  /\ Overtaken(IF rex[d] # Closed THEN {d} ELSE {})
  /\ UNCHANGED <<submitted, job, attempts, due, lock, stored, mark, rex>>

-------------------------------------------------------------------------------
(* The document was not read: markOcrJobFailure *)

Failures == {"transient", "limited", "permanent"}

\* A rate limit does not count as an attempt.
EveryFailureCounts(n, why) == n + 1
ForgetsOnLimit(n, why) == IF why = "limited" THEN 0 ELSE n + 1
NextAttempt(n, why) == IF why = "limited" THEN n ELSE n + 1

OneTooMany(n) == n > MaxAttempts
Exhausted(n) == n >= MaxAttempts

GivenUp(n, why) == why = "permanent" \/ (why = "transient" /\ Exhausted(n))

\* Written from the row as the worker got it, with no condition on its state.
RecordFailure(s, d, why) ==
  LET n == NextAttempt(snap[s][d], why)
      gaveUp == GivenUp(n, why)
  IN
  /\ pc[s][d] = "reading"
  /\ job' = [job EXCEPT ![d] = IF gaveUp THEN "canceled" ELSE "failed"]
  /\ attempts' = [attempts EXCEPT ![d] = n]
  /\ due' = [due EXCEPT ![d] = gaveUp]
  /\ lock' = [lock EXCEPT ![d] = "free"]
  /\ IF gaveUp /\ why # "permanent"
       THEN Done(s, d)
       ELSE GoTo(s, d, "mirror") /\ UNCHANGED snap
  /\ UNCHANGED <<submitted, stored, mark, copies, rex, overlapped>>

\* documents.ocr_status follows in a statement of its own, which may fail.
MirrorFailure(s, d) ==
  /\ pc[s][d] = "mirror"
  /\ mark' \in {mark, [mark EXCEPT ![d] = "failed"]}
  /\ Done(s, d)
  /\ UNCHANGED <<submitted, job, attempts, due, lock, stored, copies, rex,
                 overlapped>>

\* markOcrJobFailure itself throws: the row stays as it is until its lock ages.
FailureLost(s, d) ==
  /\ pc[s][d] = "reading"
  /\ Done(s, d)
  /\ UNCHANGED <<rows, rex, overlapped>>

Crash(s) ==
  /\ ~Resting(s)
  /\ pc' = [pc EXCEPT ![s] = [d \in Docs |-> "idle"]]
  /\ snap' = [snap EXCEPT ![s] = [d \in Docs |-> 0]]
  /\ UNCHANGED <<rows, rex, overlapped>>

-------------------------------------------------------------------------------
(* reextractDocument: the same replacement, from the stored text, in one       *)
(* transaction.                                                                *)

BeginReextract(d) ==
  /\ stored[d]
  /\ rex[d] = Closed
  /\ rex' = [rex EXCEPT ![d] = copies[d]]
  /\ Overtaken(IF InHands(d) THEN {d} ELSE {})
  /\ UNCHANGED <<rows, readers>>

EndReextract(d) ==
  /\ rex[d] # Closed
  /\ rex' = [rex EXCEPT ![d] = Closed]
  /\ copies' \in {copies,                                      \* rolled back
                  [copies EXCEPT ![d] = Count(@ - rex[d])],    \* no fields
                  [copies EXCEPT ![d] = Count(@ - rex[d] + 1)]}
  /\ UNCHANGED <<submitted, job, attempts, due, lock, stored, mark, readers,
                 overlapped>>

-------------------------------------------------------------------------------
(* The system *)

Reads(s, d) ==
  \/ Save(s, d)
  \/ WipeFields(s, d)
  \/ WipeAfterReextract(s, d)
  \/ InsertFields(s, d)
  \/ MirrorFailure(s, d)
  \/ \E why \in Failures \ {"limited"} : RecordFailure(s, d, why)

TakesJobs(s) == \E taken \in SUBSET Docs : LockJobs(s, taken)

\* What happens when no server dies, no provider limits its rate, no answer of
\* the database is lost and staff leave the jobs alone.
Calm ==
  \/ Submit
  \/ \E d \in Docs : \/ Enqueue(d) \/ LockAges(d) \/ BackoffEnds(d)
                     \/ BeginReextract(d) \/ EndReextract(d)
  \/ \E s \in Servers :
       \/ TakesJobs(s)
       \/ ClearExpiredLocks(s)
       \/ \E d \in Docs : Reads(s, d)

Trouble ==
  \/ \E d \in Docs : Reset(d)
  \/ \E s \in Servers :
       \/ Crash(s)
       \/ \E d \in Docs : \/ FailureLost(s, d)
                         \/ SaveUnanswered(s, d)
                         \/ RecordFailure(s, d, "limited")

Next == Calm \/ Trouble

\* Timers fire, clocks move, and a reader that was not killed goes on.
Fairness ==
  /\ \A s \in Servers : WF_vars(TakesJobs(s))
  /\ \A s \in Servers, d \in Docs : WF_vars(Reads(s, d))
  /\ \A d \in Docs : WF_vars(LockAges(d)) /\ WF_vars(BackoffEnds(d))

Spec == Init /\ [][Next]_vars /\ Fairness

-------------------------------------------------------------------------------
(* Properties *)

\* Two servers never read one document at a time, unless a reader outlived its
\* lock or its backoff, or staff re-queued the job under it (ocr.repo.ts:87).
OneReader ==
  \A d \in Docs \ overlapped : \A s, t \in Servers :
    InHand(s, d) /\ InHand(t, d) => s = t

\* A job that can still be taken has attempts left, also when the count was
\* written from an old copy of the row: no document is read for ever because
\* each failure forgets another (ocr.service.ts:756).
OpenJobsHaveAttemptsLeft ==
  \A d \in Docs :
    job[d] \in {"queued", "processing", "failed"} => attempts[d] < MaxAttempts

\* When a job says 'succeeded' its text is stored and the document says
\* 'completed', which is what the banking worker waits for: a late failure of an
\* earlier attempt never hides a later success (ocr.repo.ts:169, :221).
SucceededMeansReadable ==
  \A d \in Docs \ overlapped :
    job[d] = "succeeded" => stored[d] /\ mark[d] = "completed"

\* A document's fields are in the table at most once: a re-run replaces them
\* instead of adding a second set (ocr.service.ts:610).
FieldsNotDoubled == \A d \in Docs \ overlapped : copies[d] <= 1

\* Only staff take a success back.
SuccessIsFinal ==
  [][\A d \in Docs \ overlapped :
       job[d] = "succeeded" => job'[d] \in {"succeeded", "queued"}]_vars

\* The rows of ocr_jobs keep what a job queue promises: one reader at a time, no
\* failure forgotten, given up in the end, and closed for good unless staff re-run
\* it (ocr.repo.ts:69-104, ocr.service.ts:753-777).
RowStatus(state) ==
  CASE state = "none" -> "none"
    [] state \in {"queued", "failed"} -> "waiting"
    [] state = "processing" -> "running"
    [] state = "succeeded" -> "done"
    [] OTHER -> "givenUp"

Queue == INSTANCE RetriedJobs
  WITH Jobs <- Docs, Runners <- Servers, Limit <- MaxAttempts,
       status <- [d \in Docs |-> RowStatus(job[d])],
       owners <- [d \in Docs |-> {s \in Servers : pc[s][d] = "reading"}],
       contested <- overlapped

JobsAreRetried == Queue!Spec

\* Once the trouble stops, every job of a submitted application comes to an
\* end, whatever the trouble left behind: rows of dead readers, spent attempts,
\* stale locks (ocr.repo.ts:83-87).
JobsSettle ==
  <>[][Calm]_vars =>
    \A d \in Docs : [](submitted /\ job[d] # "none" => <>Settled(d))
=============================================================================
