-------------------------- MODULE LenderTransmission --------------------------
(***************************************************************************)
(* Sending one application to one lender by modules/lender.                *)
(*                                                                         *)
(* submitApplication runs in one transaction that locks the application's  *)
(* row, calls the lender in its middle and may still be rolled back by an  *)
(* illegal change of stage.  retrySubmission does the same without any     *)
(* lock before its first write.  Staff and automations change the stage by *)
(* transitionPipelineState, which reads the stage, checks the change and   *)
(* writes it in separate statements.                                       *)
(*                                                                         *)
(* Writes of a transaction appear when it commits; the row locks it holds  *)
(* until then are appLock and subLock.                                     *)
(***************************************************************************)
EXTENDS Naturals, Sequences

CONSTANTS
  Submits,    \* calls of submitApplication
  Retries,    \* calls of retrySubmission, from the Admin's Retry button
  Movers,     \* callers of transitionPipelineState outside these transactions
  Goals,      \* bound: the stages they move the application to
  MaxRetries  \* config.lender.retry.maxCount

Nobody == "nobody"

ASSUME CallsAssumption == Submits \cap Retries = {} /\ Nobody \notin Submits \cup Retries
ASSUME MaxRetriesAssumption == MaxRetries \in Nat \ {0}

VARIABLES
  \* --- rows of the database, as committed ---
  stage,      \* applications.pipeline_state
  papers,     \* are all required documents there?
  submission, \* lender_submissions.status, "none" without a row
  retry,      \* lender_submission_retries: status ("none" without a row), count
  appLock, subLock,  \* who holds the lock of the row, or Nobody
  \* --- calls ---
  pc,         \* next step of each submit and retry
  outcome,    \* what the adapter answered it
  view,       \* the committed stage it last read, its own write, attempt_count
  plan,       \* the stages a retry has still to move the application to
  move,       \* per mover: the stage it read and the one it is about to write
  cancel,     \* attempt_count read by a cancelSubmissionRetry under way, or None
  \* --- history ---
  received,   \* packages the lender has, counted to Twice
  tries,      \* retries the lender has been called for
  causes      \* what has gone wrong that may send it twice

rows == <<stage, papers, submission, retry>>
locks == <<appLock, subLock>>
calls == <<pc, outcome, view, plan>>
history == <<received, tries, causes>>
vars == <<stage, papers, submission, retry, appLock, subLock, pc, outcome, view,
          plan, move, cancel, received, tries, causes>>

Calls == Submits \cup Retries

-------------------------------------------------------------------------------
(* Types *)

Parked == {"FRAUD", "HOLD"}
Working == {"RECEIVED", "IN_REVIEW", "DOCUMENTS_REQUIRED", "ADDITIONAL_STEPS_REQUIRED",
            "OFF_TO_LENDER", "OFFER", "ACCEPTED", "FUNDED", "REJECTED"}
Stages == Working \cup Parked

Onward ==
  [s \in Working |->
    CASE s = "RECEIVED" -> {"IN_REVIEW", "DOCUMENTS_REQUIRED"}
      [] s = "IN_REVIEW" ->
           {"DOCUMENTS_REQUIRED", "ADDITIONAL_STEPS_REQUIRED", "OFF_TO_LENDER"}
      [] s = "DOCUMENTS_REQUIRED" -> {"ADDITIONAL_STEPS_REQUIRED", "OFF_TO_LENDER"}
      [] s = "ADDITIONAL_STEPS_REQUIRED" -> {"OFF_TO_LENDER", "DOCUMENTS_REQUIRED"}
      [] s = "OFF_TO_LENDER" -> {"OFFER", "ACCEPTED", "REJECTED", "DOCUMENTS_REQUIRED"}
      [] s = "OFFER" -> {"ACCEPTED", "REJECTED", "DOCUMENTS_REQUIRED"}
      [] s = "ACCEPTED" -> {"FUNDED"}
      [] OTHER -> {}]

\* LEGAL_TRANSITIONS: a working stage can be parked, a parked file put back anywhere.
Legal == [s \in Stages |-> IF s \in Parked THEN Working ELSE Onward[s] \cup Parked]

\* assertPipelineTransition; the same stage is no change and no error.
MayMove(from, to) == from = to \/ to \in Legal[from]

Outcomes == {"accepted", "refused", "unanswered", "timeout"}
NoAnswer == "none"
NoMove == [from |-> "none", to |-> "none"]
Moves == [from : Stages, to : Stages] \cup {NoMove}
None == MaxRetries + 1
Twice == 2
OneMore(n, bound) == IF n < bound THEN n + 1 ELSE bound

Points == {"idle", "sending", "sent", "moving", "writing"}
Plans == {<<>>} \cup {<<s>> : s \in Stages} \cup {<<s, t>> : s, t \in Stages}

\* Every variable keeps its type; in particular no retry is counted beyond the
\* limit (lender.service.ts:1024).
TypeOK ==
  /\ stage \in Stages
  /\ papers \in BOOLEAN
  /\ submission \in {"none", "failed", "submitted"}
  /\ retry \in [status : {"none", "pending", "succeeded", "canceled"},
                count : 0..MaxRetries]
  /\ appLock \in Calls \cup {Nobody}
  /\ subLock \in Retries \cup {Nobody}
  /\ pc \in [Calls -> Points]
  /\ outcome \in [Calls -> Outcomes \cup {NoAnswer}]
  /\ view \in [Calls -> [read : Stages, wrote : Stages, count : 0..MaxRetries]]
  /\ plan \in [Calls -> Plans]
  /\ move \in [Movers -> Moves]
  /\ cancel \in 0..None
  /\ received \in 0..Twice
  /\ tries \in 0..None
  /\ causes \subseteq {"rolledBack", "unanswered", "overlap", "cancelRaced"}

Blank == [read |-> "IN_REVIEW", wrote |-> "IN_REVIEW", count |-> 0]

Init ==
  /\ stage = "IN_REVIEW"
  /\ papers \in BOOLEAN
  /\ submission = "none"
  /\ retry = [status |-> "none", count |-> 0]
  /\ appLock = Nobody
  /\ subLock = Nobody
  /\ pc = [c \in Calls |-> "idle"]
  /\ outcome = [c \in Calls |-> NoAnswer]
  /\ view = [c \in Calls |-> Blank]
  /\ plan = [c \in Calls |-> <<>>]
  /\ move = [m \in Movers |-> NoMove]
  /\ cancel = None
  /\ received = 0
  /\ tries = 0
  /\ causes = {}

-------------------------------------------------------------------------------
(* Helpers *)

Busy(c) == pc[c] # "idle"
GoTo(c, point) == pc' = [pc EXCEPT ![c] = point]

\* The transaction ends, with its locks and what it knew.
End(c) ==
  /\ GoTo(c, "idle")
  /\ outcome' = [outcome EXCEPT ![c] = NoAnswer]
  /\ view' = [view EXCEPT ![c] = Blank]
  /\ plan' = [plan EXCEPT ![c] = <<>>]
  /\ appLock' = IF appLock = c THEN Nobody ELSE appLock
  /\ subLock' = IF subLock = c THEN Nobody ELSE subLock

\* Its writes are gone, and what it sent is not.
Rollback(c) ==
  /\ End(c)
  /\ causes' = IF outcome[c] # NoAnswer THEN causes \cup {"rolledBack"} ELSE causes
  /\ UNCHANGED <<rows, move, cancel, received, tries>>

\* recordSubmissionFailure: where a failed submission takes the application.
AfterFailure(answer) ==
  IF answer = "timeout" THEN "DOCUMENTS_REQUIRED" ELSE "REJECTED"

\* response.success
Accepted(c) == outcome[c] = "accepted"

\* What the adapters answer and what then arrives.  Only a Google Sheet lender is
\* sent anything, and an append that was not answered is a refusal to the caller;
SheetSends ==
  {[answer |-> "accepted", arrives |-> TRUE], [answer |-> "refused", arrives |-> FALSE],
   [answer |-> "unanswered", arrives |-> TRUE]}

\* by email, the default, nothing goes out;
EmailSends == {[answer |-> "accepted", arrives |-> FALSE]}

\* nor to a lender with an API, whose first attempt can end in a failure to be
\* retried, a timeout.
ApiSends(c) ==
  [answer : IF c \in Submits THEN {"accepted", "timeout"} ELSE {"accepted"},
   arrives : {FALSE}]

\* sendToLender, with the method the lender has at the time.
Send(c) ==
  /\ pc[c] = "sending"
  /\ \E sent \in SheetSends \cup EmailSends \cup ApiSends(c) :
       /\ outcome' = [outcome EXCEPT ![c] = sent.answer]
       /\ received' = IF sent.arrives THEN OneMore(received, Twice) ELSE received
       /\ causes' = IF sent.answer = "unanswered"
                      THEN causes \cup {"unanswered"} ELSE causes
  /\ tries' = IF c \in Retries THEN OneMore(tries, None) ELSE tries
  /\ GoTo(c, "sent")
  /\ UNCHANGED <<rows, locks, view, plan, move, cancel>>

-------------------------------------------------------------------------------
(* submitApplication and transmitSubmission *)

AnySubmission == TRUE
NotSubmittedYet == submission = "none"

Unlocked(c) == appLock
Locked(c) == c

\* begin, the advisory lock, SELECT ... FOR UPDATE; a submission that exists is
\* answered as it is, and any other stage refused.
MaySubmit(c) ==
  /\ ~Busy(c)
  /\ appLock = Nobody
  /\ NotSubmittedYet
  /\ stage \in {"IN_REVIEW", "DOCUMENTS_REQUIRED"}

Submit(c) ==
  /\ MaySubmit(c)
  /\ papers
  /\ appLock' = Locked(c)
  /\ view' = [view EXCEPT ![c].read = stage]
  /\ GoTo(c, "sending")
  /\ UNCHANGED <<rows, subLock, outcome, plan, move, cancel, history>>

\* Documents are missing: a failure is recorded and the lender not called.
SubmitWithoutPapers(c) ==
  /\ MaySubmit(c)
  /\ ~papers
  /\ submission' = "failed"
  /\ retry' = [status |-> "pending", count |-> 1]
  /\ stage' = "DOCUMENTS_REQUIRED"
  /\ UNCHANGED <<papers, locks, calls, move, cancel, history>>

\* Documents Required -> In Review is not legal, so that of what the lender
\* accepts only a submission made In Review is kept; and neither stage may go to
\* Rejected, so that of the failures only a timeout is.
MayKeep(c) ==
  IF Accepted(c)
    THEN MayMove(view[c].read, "IN_REVIEW")
    ELSE MayMove(view[c].read, AfterFailure(outcome[c]))

SubmitAccepted(c) ==
  /\ pc[c] = "sent"
  /\ Accepted(c)
  /\ MayKeep(c)
  /\ submission' = "submitted"
  /\ stage' = "OFF_TO_LENDER"
  /\ End(c)
  /\ UNCHANGED <<papers, retry, move, cancel, history>>

SubmitFailed(c) ==
  /\ pc[c] = "sent"
  /\ outcome[c] = "timeout"
  /\ MayKeep(c)
  /\ submission' = "failed"
  /\ retry' = [status |-> "pending", count |-> 1]
  /\ stage' = AfterFailure(outcome[c])
  /\ End(c)
  /\ UNCHANGED <<papers, move, cancel, history>>

\* The change of stage throws: all is rolled back but the sending.
SubmitIllegal(c) ==
  /\ pc[c] = "sent"
  /\ ~MayKeep(c)
  /\ Rollback(c)

-------------------------------------------------------------------------------
(* retrySubmission and retryExistingSubmission *)

AnyFinished == submission # "none"
Failed == submission = "failed"

AnyCount == TRUE
RetriesLeft == retry.count < MaxRetries

\* begin; the submission, its retries and the application are read, not locked.
\* That the retry was canceled is not asked.
Retry(c) ==
  /\ ~Busy(c)
  /\ Failed
  /\ RetriesLeft
  /\ view' = [view EXCEPT ![c] = [read |-> stage, wrote |-> stage, count |-> retry.count]]
  /\ causes' = IF \E d \in Retries : Busy(d) THEN causes \cup {"overlap"} ELSE causes
  /\ GoTo(c, "sending")
  /\ UNCHANGED <<rows, locks, outcome, plan, move, cancel, received, tries>>

\* The stages it takes the application to, as it was when the retry began.
Route(c) ==
  IF ~Accepted(c) THEN <<AfterFailure(outcome[c])>>
  ELSE IF view[c].read = "DOCUMENTS_REQUIRED" THEN <<"IN_REVIEW", "OFF_TO_LENDER">>
  ELSE <<"OFF_TO_LENDER">>

\* The submission's new status is written, which locks its row.
RetryMarks(c) ==
  /\ pc[c] = "sent"
  /\ subLock = Nobody
  /\ subLock' = c
  /\ plan' = [plan EXCEPT ![c] = Route(c)]
  /\ GoTo(c, "moving")
  /\ UNCHANGED <<rows, appLock, outcome, view, move, cancel, history>>

\* transitionPipelineState reads the stage, or what the transaction made of it,
Now(c) == IF appLock = c THEN view[c].wrote ELSE stage

RetryReads(c) ==
  /\ pc[c] = "moving"
  /\ plan[c] # <<>>
  /\ MayMove(Now(c), Head(plan[c]))
  /\ view' = [view EXCEPT ![c].read = IF appLock = c THEN @ ELSE stage]
  /\ IF Now(c) = Head(plan[c])
       THEN /\ plan' = [plan EXCEPT ![c] = Tail(@)]
            /\ UNCHANGED pc
       ELSE /\ GoTo(c, "writing")
            /\ UNCHANGED plan
  /\ UNCHANGED <<rows, locks, outcome, move, cancel, history>>

\* throws,
RetryIllegal(c) ==
  /\ pc[c] = "moving"
  /\ plan[c] # <<>>
  /\ ~MayMove(Now(c), Head(plan[c]))
  /\ Rollback(c)

\* or writes, once the row is free, whatever the stage is by then.
RetryMoves(c) ==
  /\ pc[c] = "writing"
  /\ appLock \in {Nobody, c}
  /\ appLock' = c
  /\ view' = [view EXCEPT ![c].wrote = Head(plan[c])]
  /\ plan' = [plan EXCEPT ![c] = Tail(@)]
  /\ GoTo(c, "moving")
  /\ UNCHANGED <<rows, subLock, outcome, move, cancel, history>>

SameCount(n) == n
NextCount(n) == n + 1

\* The retry is counted from what was read when it began.
RetryCommits(c) ==
  /\ pc[c] = "moving"
  /\ plan[c] = <<>>
  /\ Accepted(c) => appLock \in {Nobody, c}
  /\ stage' = Now(c)
  /\ submission' = IF Accepted(c) THEN "submitted" ELSE "failed"
  /\ retry' = [status |-> IF Accepted(c) THEN "succeeded" ELSE "pending",
               count |-> NextCount(view[c].count)]
  /\ End(c)
  /\ UNCHANGED <<papers, move, cancel, history>>

-------------------------------------------------------------------------------
(* cancelSubmissionRetry reads the count and writes it back. *)

CancelReads ==
  /\ cancel = None
  /\ retry.status # "none"
  /\ cancel' = retry.count
  /\ UNCHANGED <<rows, locks, calls, move, history>>

CancelWrites ==
  /\ cancel # None
  /\ retry' = [status |-> "canceled", count |-> cancel]
  /\ causes' = IF cancel # retry.count THEN causes \cup {"cancelRaced"} ELSE causes
  /\ cancel' = None
  /\ UNCHANGED <<stage, papers, submission, locks, calls, move, received, tries>>

-------------------------------------------------------------------------------
(* The rest of the house *)

\* A transaction may be cut off anywhere: the server dies, a statement throws.
CutOff(c) ==
  /\ Busy(c)
  /\ Rollback(c)

\* acceptDocument: staff accept the last required document that was missing.
AcceptPapers ==
  /\ ~papers
  /\ papers' = TRUE
  /\ UNCHANGED <<stage, submission, retry, locks, calls, move, cancel, history>>

\* A required document is deleted; the stage stays.
DeletePapers ==
  /\ papers
  /\ papers' = FALSE
  /\ UNCHANGED <<stage, submission, retry, locks, calls, move, cancel, history>>

\* transitionPipelineState outside a transaction: the portal's board, an
\* automation, a lender's status.
MoveReads(m) ==
  /\ move[m] = NoMove
  /\ \E to \in Goals \cap Legal[stage] :
       move' = [move EXCEPT ![m] = [from |-> stage, to |-> to]]
  /\ UNCHANGED <<rows, locks, calls, cancel, history>>

MoveWrites(m) ==
  /\ move[m] # NoMove
  /\ appLock = Nobody
  /\ stage' = move[m].to
  /\ move' = [move EXCEPT ![m] = NoMove]
  /\ UNCHANGED <<papers, submission, retry, locks, calls, cancel, history>>

-------------------------------------------------------------------------------
(* The system *)

Next ==
  \/ \E c \in Submits :
       \/ Submit(c) \/ SubmitWithoutPapers(c)
       \/ SubmitAccepted(c) \/ SubmitFailed(c) \/ SubmitIllegal(c)
  \/ \E c \in Retries :
       \/ Retry(c) \/ RetryMarks(c) \/ RetryReads(c) \/ RetryIllegal(c)
       \/ RetryMoves(c) \/ RetryCommits(c)
  \/ \E c \in Calls : Send(c) \/ CutOff(c)
  \/ CancelReads \/ CancelWrites \/ AcceptPapers \/ DeletePapers
  \/ \E m \in Movers : MoveReads(m) \/ MoveWrites(m)

Spec == Init /\ [][Next]_vars

-------------------------------------------------------------------------------
(* Properties *)

\* The lender gets the application once, unless a call that had sent it was
\* rolled back (lender.service.ts:584 sends before :643 may throw), the answer
\* was lost, or two retries ran at once (:1012 reads without a lock).
NoUnexplainedResend ==
  received < Twice \/ causes \cap {"rolledBack", "unanswered", "overlap"} # {}

\* What the lender has received is recorded as 'submitted', or is about to be by
\* the call that sent it (lender.service.ts:584, :618), unless a call that had sent
\* it was rolled back, the answer was lost, or an overlapping retry wrote over it.
ReceivedIsRecorded ==
  received > 0 /\ causes \cap {"rolledBack", "unanswered", "overlap"} = {}
    => submission = "submitted" \/ \E c \in Calls : Accepted(c)

\* What the lender has accepted and the house has recorded stays recorded; only
\* a retry that overlapped another can put a failure over it (:354).
SubmittedIsKept ==
  [][submission = "submitted" => submission' = "submitted" \/ "overlap" \in causes]_vars

\* The lender is called for a retry at most MaxRetries times, unless the count
\* was rolled back with a retry, or written back by an overlapping one (:1050)
\* or by a cancelation that had read it before (:1102).
RetryLimit ==
  tries <= MaxRetries \/ causes \cap {"rolledBack", "overlap", "cancelRaced"} # {}

\* A change of stage about to be committed was checked against another stage
\* than the one it replaces.
Stale ==
  \/ \E m \in Movers : /\ move[m] # NoMove
                       /\ move'[m] = NoMove
                       /\ move[m].from # stage
  \/ \E c \in Retries : /\ appLock = c
                        /\ appLock' = Nobody
                        /\ view[c].read # stage

\* A retry may go by way of In Review in one transaction.
LegalMove(from, to) ==
  to \in Legal[from] \/ ("IN_REVIEW" \in Legal[from] /\ to \in Legal["IN_REVIEW"])

\* Every change of stage is one LEGAL_TRANSITIONS allows, unless the stage moved
\* between its check and its UPDATE (applications.service.ts:351 and :409); a
\* submission, which locks the application first, never makes such a change.
StageMovesAreLegal ==
  [][stage' # stage => LegalMove(stage, stage') \/ Stale]_vars
=============================================================================
