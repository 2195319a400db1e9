----------------------------- MODULE RetriedJobs -----------------------------
(***************************************************************************)
(* What the job tables promise about their rows, whoever works on them:    *)
(* the ocr_jobs rows of the documents (ocr.repo.ts) and the                *)
(* send_lender_package row of job_queue (lenderPackageWorker.ts).          *)
(*                                                                         *)
(* One runner at a time takes a job, and writes how its run ended; a       *)
(* failed run is counted and tried again as long as attempts are left; and *)
(* an outcome stands until a person asks for another run.  A row that a    *)
(* second process writes beside its runner is contested from then on: all  *)
(* that is left of the promise is that it does not go round for ever.      *)
(*                                                                         *)
(* A step may take several rows, and says of each what becomes of it.      *)
(***************************************************************************)
EXTENDS Naturals

CONSTANTS
  Jobs,
  Runners,  \* who may run them
  Limit     \* the attempts each is given

VARIABLES
  status,    \* of each row
  attempts,  \* failures counted since a person last asked for a run
  owners,    \* runners that have not yet written how their run ended
  contested  \* jobs whose row may have been written beside its runner

vars == <<status, attempts, owners, contested>>

Statuses == {"none", "waiting", "running", "done", "givenUp"}
Open == {"waiting", "running"}
Outcomes == {"done", "givenUp"}

Init ==
  /\ status = [j \in Jobs |-> "none"]
  /\ attempts = [j \in Jobs |-> 0]
  /\ owners = [j \in Jobs |-> {}]
  /\ contested = {}

Keep(j) == UNCHANGED <<status[j], attempts[j], owners[j]>>

Enqueue(j) ==
  /\ status[j] = "none"
  /\ status'[j] = "waiting"
  /\ UNCHANGED <<attempts[j], owners[j]>>

\* Also a job left 'running' by a runner that is gone.
Claim(j, r) ==
  /\ status[j] \in Open
  /\ owners[j] = {}
  /\ status'[j] = "running"
  /\ owners'[j] = {r}
  /\ UNCHANGED attempts[j]

Finish(j, r) ==
  /\ owners[j] = {r}
  /\ status'[j] = "done"
  /\ owners'[j] = {}
  /\ UNCHANGED attempts[j]

\* A failure may be counted before the run is over.
CountFailure(j, r) ==
  /\ owners[j] = {r}
  /\ attempts'[j] = attempts[j] + 1
  /\ attempts'[j] < Limit
  /\ UNCHANGED <<status[j], owners[j]>>

\* Some failures do not count, some are final at once.
Fail(j, r) ==
  /\ owners[j] = {r}
  /\ attempts'[j] \in {attempts[j], attempts[j] + 1}
  /\ status'[j] = "givenUp" \/ (status'[j] = "waiting" /\ attempts'[j] < Limit)
  /\ owners'[j] = {}

\* The runner dies, or cannot write how its run ended.
Lose(j) ==
  /\ owners'[j] = {}
  /\ UNCHANGED <<status[j], attempts[j]>>

\* A person asks for another run.
Reset(j) ==
  /\ status[j] # "none"
  /\ status'[j] = "waiting"
  /\ attempts'[j] = 0
  /\ owners[j] = {}
  /\ owners'[j] = {}

\* Somebody writes the row beside its runner, now or before.
Contest(j) ==
  /\ status'[j] \in Statuses \ {"none"}
  /\ attempts'[j] \in 0..Limit
  /\ status'[j] \in Open => attempts'[j] < Limit
  /\ owners'[j] \subseteq Runners

Step(j) ==
  \/ Keep(j) \/ Enqueue(j) \/ Lose(j) \/ Reset(j)
  \/ \E r \in Runners :
       Claim(j, r) \/ CountFailure(j, r) \/ Finish(j, r) \/ Fail(j, r)

Next ==
  /\ contested \subseteq contested'
  /\ \A j \in Jobs : IF j \in contested' THEN Contest(j) ELSE Step(j)

Spec == Init /\ [][Next]_vars

-------------------------------------------------------------------------------
(* What follows from it *)

\* One runner at a time, with the row saying so ("safe under multiple replicas",
\* lenderPackageWorker.ts:3-4; "for update skip locked", ocr.repo.ts:94).
OneOwner ==
  \A j \in Jobs \ contested :
    owners[j] = {} \/ (status[j] = "running" /\ \E r \in Runners : owners[j] = {r})

\* A job that is waiting or running has attempts left: after Limit counted
\* failures it is given up (ocr.service.ts:757, lenderPackageWorker.ts:70).
AttemptsLeft ==
  \A j \in Jobs :
    /\ attempts[j] \in 0..Limit
    /\ status[j] \in Open => attempts[j] < Limit

\* An outcome stands until a person asks for another run, which starts with all
\* its attempts (ocr.repo.ts:241-247).
OutcomeStands ==
  [][\A j \in Jobs \ contested' :
       status[j] \in Outcomes =>
         \/ status'[j] = status[j]
         \/ status'[j] = "waiting" /\ attempts'[j] = 0]_vars

\* No failure is forgotten: the count falls only when a person asks for another
\* run (ocr.service.ts:756).
NoFailureForgotten ==
  [][\A j \in Jobs \ contested' :
       \/ attempts'[j] \in {attempts[j], attempts[j] + 1}
       \/ status'[j] = "waiting" /\ attempts'[j] = 0]_vars

=============================================================================
