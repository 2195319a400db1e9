------------------------- MODULE RetriedJobsProofs -------------------------
(***************************************************************************)
(* What follows from being a table of retried jobs, for any jobs, runners  *)
(* and limit.  OcrJobs and LenderDispatch implement RetriedJobs.           *)
(***************************************************************************)
EXTENDS RetriedJobs, TLAPS

-------------------------------------------------------------------------------
(* The inductive invariant: also, nothing is counted before there is a job.    *)

NothingCounted == \A j \in Jobs : status[j] = "none" => attempts[j] = 0

Inv == NothingCounted /\ OneOwner /\ AttemptsLeft

\* A job that is not contested after a step was not before, and took a Step.
LEMMA QuietStep ==
  ASSUME [Next]_vars, NEW j \in Jobs \ contested'
  PROVE  j \notin contested /\ Step(j)
<1>1. CASE Next
  BY <1>1 DEF Next
<1>2. CASE UNCHANGED vars
  BY <1>2 DEF vars, Step, Keep
<1> QED
  BY <1>1, <1>2

\* A contested job takes a Contest step, or none.
LEMMA ContestedStep ==
  ASSUME [Next]_vars, NEW j \in Jobs, j \in contested'
  PROVE  Contest(j) \/ Keep(j)
BY DEF Next, vars, Keep

\* What an uncontested step does to a job of which Inv holds.
LEMMA StepKeeps ==
  ASSUME Limit \in Nat \ {0}, Inv, NEW j \in Jobs \ contested, Step(j)
  PROVE  /\ status'[j] = "none" => attempts'[j] = 0
         /\ \/ owners'[j] = {}
            \/ status'[j] = "running" /\ \E r \in Runners : owners'[j] = {r}
         /\ attempts'[j] \in 0..Limit
         /\ status'[j] \in Open => attempts'[j] < Limit
<1> DEFINE Goal ==
      /\ status'[j] = "none" => attempts'[j] = 0
      /\ \/ owners'[j] = {}
         \/ status'[j] = "running" /\ \E r \in Runners : owners'[j] = {r}
      /\ attempts'[j] \in 0..Limit
      /\ status'[j] \in Open => attempts'[j] < Limit
<1>1. /\ status[j] = "none" => attempts[j] = 0
      /\ \/ owners[j] = {}
         \/ status[j] = "running" /\ \E r \in Runners : owners[j] = {r}
      /\ attempts[j] \in 0..Limit
      /\ status[j] \in Open => attempts[j] < Limit
  BY DEF Inv, NothingCounted, OneOwner, AttemptsLeft
<1>2. CASE Keep(j) \/ Lose(j)
  BY <1>1, <1>2 DEF Keep, Lose
<1>3. CASE Enqueue(j) \/ Reset(j)
  BY <1>1, <1>3 DEF Enqueue, Reset, Open
<1>4. ASSUME NEW r \in Runners, Claim(j, r)
      PROVE  Goal
  BY <1>1, <1>4 DEF Claim, Open
<1>5. ASSUME NEW r \in Runners, Finish(j, r)
      PROVE  Goal
  BY <1>1, <1>5 DEF Finish, Open
<1>6. ASSUME NEW r \in Runners, Fail(j, r)
      PROVE  Goal
  <2>1. attempts[j] < Limit
    BY <1>1, <1>6 DEF Fail, Open
  <2> QED
    BY <1>1, <1>6, <2>1 DEF Fail, Open
<1>7. ASSUME NEW r \in Runners, CountFailure(j, r)
      PROVE  Goal
  BY <1>1, <1>7 DEF CountFailure, Open
<1> QED
  BY <1>2, <1>3, <1>4, <1>5, <1>6, <1>7 DEF Step

LEMMA Inductive ==
  ASSUME Limit \in Nat \ {0}, Inv, [Next]_vars
  PROVE  Inv'
<1>1. \A j \in Jobs \ contested' : j \notin contested /\ Step(j)
  BY QuietStep
<1>2. \A j \in Jobs : j \in contested' => Contest(j) \/ Keep(j)
  BY ContestedStep
<1>3. NothingCounted'
  BY <1>1, <1>2, StepKeeps DEF Inv, NothingCounted, Contest, Keep
<1>4. OneOwner'
  BY <1>1, StepKeeps DEF OneOwner
<1>5. AttemptsLeft'
  BY <1>1, <1>2, StepKeeps DEF Inv, AttemptsLeft, Contest, Keep
<1> QED
  BY <1>3, <1>4, <1>5 DEF Inv

\* The promise: one runner at a time, and attempts left for every open job, also
\* for a contested one.
THEOREM Kept ==
  ASSUME Limit \in Nat \ {0}
  PROVE  Spec => [](OneOwner /\ AttemptsLeft)
<1>1. Init => Inv
  BY DEF Init, Inv, NothingCounted, OneOwner, AttemptsLeft, Open
<1>2. Inv /\ [Next]_vars => Inv'
  BY Inductive
<1>3. Inv => OneOwner /\ AttemptsLeft
  BY DEF Inv
<1> QED
  BY <1>1, <1>2, <1>3, PTL DEF Spec

\* An outcome stands until a person asks for another run.
THEOREM OutcomesStand ==
  ASSUME Limit \in Nat \ {0}
  PROVE  Spec => OutcomeStands
<1> DEFINE Stands == \A j \in Jobs \ contested' :
                       status[j] \in Outcomes =>
                         \/ status'[j] = status[j]
                         \/ status'[j] = "waiting" /\ attempts'[j] = 0
<1>1. Init => Inv
  BY DEF Init, Inv, NothingCounted, OneOwner, AttemptsLeft, Open
<1>2. Inv /\ [Next]_vars => Inv'
  BY Inductive
<1>3. Inv /\ [Next]_vars => Stands
  <2> SUFFICES ASSUME Inv, [Next]_vars,
                      NEW j \in Jobs \ contested', status[j] \in Outcomes
               PROVE  \/ status'[j] = status[j]
                      \/ status'[j] = "waiting" /\ attempts'[j] = 0
    OBVIOUS
  <2>1. j \notin contested /\ Step(j)
    BY QuietStep
  <2>2. owners[j] = {}
    BY <2>1 DEF Inv, OneOwner, Outcomes
  <2> QED
    BY <2>1, <2>2 DEF Step, Keep, Enqueue, Lose, Reset, Claim, CountFailure, Finish,
       Fail, Open, Outcomes
<1> QED
  BY <1>1, <1>2, <1>3, PTL DEF Spec, OutcomeStands

\* No failure is forgotten, unless a person asks for another run.
THEOREM FailuresCount == Spec => NoFailureForgotten
<1> DEFINE Counts == \A j \in Jobs \ contested' :
                       \/ attempts'[j] \in {attempts[j], attempts[j] + 1}
                       \/ status'[j] = "waiting" /\ attempts'[j] = 0
<1>1. [Next]_vars => Counts
  BY QuietStep DEF Step, Keep, Enqueue, Lose, Reset, Claim, CountFailure, Finish, Fail
<1> QED
  BY <1>1, PTL DEF Spec, NoFailureForgotten

=============================================================================
