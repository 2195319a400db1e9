----------------------- MODULE LenderTransmissionProofs -----------------------
(***************************************************************************)
(* What is true of LenderTransmission for any number of submits, retries   *)
(* and movers, any goals and any limit of retries.                         *)
(***************************************************************************)
EXTENDS LenderTransmission, TLAPS

USE DEF Accepted

-------------------------------------------------------------------------------
(* The inductive invariant *)

\* A submit under way holds the application's row, so that the submission is
\* still missing and the stage is the one it read.
SubmitInv ==
  \A c \in Submits : Busy(c) =>
    /\ appLock = c
    /\ pc[c] \in {"sending", "sent"}
    /\ submission = "none"
    /\ view[c].read = stage
    /\ stage \in {"IN_REVIEW", "DOCUMENTS_REQUIRED"}

Routes == {<<>>, <<"REJECTED">>, <<"OFF_TO_LENDER">>, <<"IN_REVIEW", "OFF_TO_LENDER">>}

\* Where a retry is, and what it holds there.
RetryInv ==
  /\ \A c \in Retries :
       /\ Busy(c) => submission # "none" /\ view[c].count < MaxRetries
       /\ appLock = c => pc[c] \in {"moving", "writing"}
       /\ outcome[c] # "timeout"
       /\ plan[c] \in Routes
       /\ pc[c] = "writing" => plan[c] # <<>>

\* A call has an answer once it has called the lender.
AnswerInv ==
  \A c \in Calls : outcome[c] = NoAnswer <=> pc[c] \in {"idle", "sending"}

\* Unless retries overlapped, one is under way at most, and only of a failure.
AloneInv ==
  "overlap" \notin causes =>
    /\ \A c \in Retries : Busy(c) => submission = "failed"
    /\ \A c, d \in Retries : Busy(c) /\ Busy(d) => c = d

\* What the lender has is recorded, or in the hands of the call that sent it.
ReceivedInv ==
  causes \cap {"rolledBack", "unanswered", "overlap"} = {} =>
    \/ received = 0
    \/ /\ received = 1
       /\ submission = "submitted" \/ \E c \in Calls : outcome[c] = "accepted"

\* Retries are counted when they commit.
CountInv ==
  /\ submission = "none" => retry = [status |-> "none", count |-> 0] /\ cancel = None
  /\ causes \cap {"rolledBack", "overlap", "cancelRaced"} = {} =>
       /\ \A c \in Retries : Busy(c) => view[c].count = retry.count
       /\ tries <= retry.count
            \/ /\ tries <= retry.count + 1
               /\ \E c \in Retries : pc[c] \in {"sent", "moving", "writing"}

\* A retry's own change of stage is legal from the stage it read.
MoveInv ==
  /\ \A m \in Movers : move[m] # NoMove => move[m].to \in Legal[move[m].from]
  /\ \A c \in Retries :
       /\ pc[c] = "writing" =>
            Head(plan[c]) \in Legal[IF appLock = c THEN view[c].wrote ELSE view[c].read]
       /\ appLock = c => LegalMove(view[c].read, view[c].wrote)
       /\ appLock = c /\ plan[c] # <<>> =>
            /\ plan[c] = <<"OFF_TO_LENDER">>
            /\ view[c].wrote = "IN_REVIEW"
            /\ "IN_REVIEW" \in Legal[view[c].read]

IInv ==
  /\ TypeOK
  /\ SubmitInv
  /\ RetryInv
  /\ AnswerInv
  /\ AloneInv
  /\ ReceivedInv
  /\ CountInv
  /\ MoveInv

-------------------------------------------------------------------------------
(* Facts *)

LEMMA LegalFacts ==
  /\ \A s \in Stages : Legal[s] \subseteq Stages
  /\ {"DOCUMENTS_REQUIRED", "OFF_TO_LENDER"} \subseteq Legal["IN_REVIEW"]
  /\ "REJECTED" \notin Legal["IN_REVIEW"]
  /\ "IN_REVIEW" \notin Legal["IN_REVIEW"]
  /\ "IN_REVIEW" \notin Legal["DOCUMENTS_REQUIRED"]
  /\ "REJECTED" \notin Legal["DOCUMENTS_REQUIRED"]
BY DEF Legal, Onward, Stages, Working, Parked

LEMMA StageFacts ==
  {"IN_REVIEW", "DOCUMENTS_REQUIRED", "OFF_TO_LENDER", "REJECTED"} \subseteq Stages
BY DEF Stages, Working, Parked

LEMMA PlanFacts ==
  /\ {<<>>, <<"REJECTED">>, <<"OFF_TO_LENDER">>, <<"IN_REVIEW", "OFF_TO_LENDER">>} \subseteq Routes
  /\ Routes \subseteq Plans
  /\ \A p \in Routes : p # <<>> =>
       /\ Head(p) \in Stages
       /\ Tail(p) \in Routes
       /\ Tail(p) # <<>> => Head(p) = "IN_REVIEW" /\ Tail(p) = <<"OFF_TO_LENDER">>
  /\ Head(<<"OFF_TO_LENDER">>) = "OFF_TO_LENDER"
  /\ Tail(<<"OFF_TO_LENDER">>) = <<>>
<1>1. \A p \in Routes : p = <<>> \/ p = <<"REJECTED">> \/ p = <<"OFF_TO_LENDER">>
                        \/ p = <<"IN_REVIEW", "OFF_TO_LENDER">>
  BY DEF Routes
<1>2. Tail(<<"REJECTED">>) = <<>> /\ Head(<<"REJECTED">>) = "REJECTED"
  OBVIOUS
<1>3. Tail(<<"OFF_TO_LENDER">>) = <<>> /\ Head(<<"OFF_TO_LENDER">>) = "OFF_TO_LENDER"
  OBVIOUS
<1>5. Tail(<<"IN_REVIEW", "OFF_TO_LENDER">>) = <<"OFF_TO_LENDER">>
  OBVIOUS
<1>6. Head(<<"IN_REVIEW", "OFF_TO_LENDER">>) = "IN_REVIEW"
  OBVIOUS
<1>7. <<"REJECTED">> \in Plans /\ <<"OFF_TO_LENDER">> \in Plans
  BY StageFacts DEF Plans
<1>8. <<>> \in Plans /\ <<"IN_REVIEW", "OFF_TO_LENDER">> \in Plans
  BY StageFacts DEF Plans
<1>4. {<<>>, <<"REJECTED">>, <<"OFF_TO_LENDER">>, <<"IN_REVIEW", "OFF_TO_LENDER">>} \subseteq Routes
  BY DEF Routes
<1>9. Routes \subseteq Plans
  BY <1>1, <1>7, <1>8
<1> QED
  BY <1>1, <1>2, <1>3, <1>4, <1>5, <1>6, <1>9, StageFacts

LEMMA BlankFacts == Blank \in [read : Stages, wrote : Stages, count : 0..MaxRetries]
<1>1. "IN_REVIEW" \in Stages /\ 0 \in 0..MaxRetries
  BY StageFacts, MaxRetriesAssumption
<1> QED
  BY <1>1 DEF Blank

LEMMA SubmitStep ==
  ASSUME IInv, NEW c \in Submits, Submit(c)
  PROVE  IInv'
<1>1. TypeOK'
  BY DEF IInv, TypeOK, Submit, Locked, rows, history, GoTo, Calls, Points
<1>2. SubmitInv'
  BY CallsAssumption DEF IInv, SubmitInv, Submit, MaySubmit, NotSubmittedYet,
     Locked, rows, Busy, GoTo, TypeOK
<1>3. RetryInv'
  BY CallsAssumption DEF IInv, RetryInv, Submit, MaySubmit, NotSubmittedYet,
     Locked, Busy, GoTo
<1>4. AnswerInv'
  BY DEF IInv, AnswerInv, Submit, MaySubmit, Busy, GoTo
<1>5. AloneInv'
  BY CallsAssumption DEF IInv, AloneInv, Submit, rows, history, Busy, GoTo
<1>6. ReceivedInv'
  BY DEF IInv, ReceivedInv, Submit, rows, history
<1>7. CountInv'
  BY CallsAssumption DEF IInv, CountInv, Submit, rows, history, Busy, GoTo
<1>8. MoveInv'
  BY CallsAssumption DEF IInv, MoveInv, Submit, MaySubmit, Locked, GoTo, RetryInv
<1> QED
  BY <1>1, <1>2, <1>3, <1>4, <1>5, <1>6, <1>7, <1>8 DEF IInv

LEMMA SubmitWithoutPapersStep ==
  ASSUME IInv, NEW c \in Submits, SubmitWithoutPapers(c)
  PROVE  IInv'
<1>1. TypeOK'
  BY StageFacts, MaxRetriesAssumption DEF IInv, TypeOK, SubmitWithoutPapers, locks,
     calls, history
<1>2. SubmitInv'
  BY CallsAssumption DEF IInv, SubmitInv, SubmitWithoutPapers, MaySubmit, calls,
     Busy
<1>3. RetryInv'
  BY DEF IInv, RetryInv, SubmitWithoutPapers, locks, calls, Busy
<1>4. AnswerInv'
  BY DEF IInv, AnswerInv, SubmitWithoutPapers, calls
<1>5. AloneInv'
  BY DEF IInv, AloneInv, SubmitWithoutPapers, calls, history, Busy
<1>6. ReceivedInv'
  BY DEF IInv, ReceivedInv, SubmitWithoutPapers, MaySubmit, NotSubmittedYet,
     calls, history
<1>7. CountInv'
  BY DEF IInv, CountInv, SubmitWithoutPapers, MaySubmit, NotSubmittedYet, calls,
     history, Busy, TypeOK, RetryInv
<1>8. MoveInv'
  BY DEF IInv, MoveInv, SubmitWithoutPapers, locks, calls
<1> QED
  BY <1>1, <1>2, <1>3, <1>4, <1>5, <1>6, <1>7, <1>8 DEF IInv

LEMMA SubmitAcceptedStep ==
  ASSUME IInv, NEW c \in Submits, SubmitAccepted(c)
  PROVE  IInv'
<1>1. TypeOK'
  BY PlanFacts, BlankFacts DEF IInv, TypeOK, SubmitAccepted, End, history, GoTo,
     Points
<1>2. SubmitInv'
  BY DEF IInv, SubmitInv, SubmitAccepted, End, Busy, GoTo, Calls, TypeOK
<1>3. RetryInv'
  BY CallsAssumption DEF IInv, RetryInv, SubmitAccepted, End, Busy, GoTo
<1>4. AnswerInv'
  BY DEF IInv, AnswerInv, SubmitAccepted, End, GoTo, TypeOK
<1>5. AloneInv'
  BY DEF IInv, AloneInv, SubmitAccepted, End, Busy, GoTo, RetryInv, SubmitInv
<1>6. ReceivedInv'
  BY DEF IInv, ReceivedInv, SubmitAccepted, history
<1>7. CountInv'
  BY DEF IInv, CountInv, SubmitAccepted, End, history, Busy, GoTo, AloneInv,
     SubmitInv
<1>8. MoveInv'
  BY CallsAssumption DEF IInv, MoveInv, SubmitAccepted, End, GoTo
<1> QED
  BY <1>1, <1>2, <1>3, <1>4, <1>5, <1>6, <1>7, <1>8 DEF IInv

LEMMA SubmitFailedStep ==
  ASSUME IInv, NEW c \in Submits, SubmitFailed(c)
  PROVE  IInv'
<1>1. TypeOK'
  BY PlanFacts, StageFacts, BlankFacts, MaxRetriesAssumption DEF IInv, TypeOK,
     SubmitFailed, AfterFailure, End, history, GoTo, Calls, Points
<1>2. SubmitInv'
  BY DEF IInv, SubmitInv, SubmitFailed, End, Busy, GoTo, Calls, TypeOK
<1>3. RetryInv'
  BY CallsAssumption DEF IInv, RetryInv, SubmitFailed, End, Busy, GoTo
<1>4. AnswerInv'
  BY DEF IInv, AnswerInv, SubmitFailed, End, GoTo, TypeOK
<1>5. AloneInv'
  BY DEF IInv, AloneInv, SubmitFailed, End, history, Busy, GoTo
<1>6. ReceivedInv'
  BY DEF IInv, ReceivedInv, SubmitFailed, End, history, Busy, SubmitInv
<1>7. CountInv'
  BY DEF IInv, CountInv, SubmitFailed, End, history, Busy, GoTo, TypeOK, RetryInv,
     SubmitInv
<1>8. MoveInv'
  <2>1. c \notin Retries /\ move' = move
    BY CallsAssumption DEF SubmitFailed
  <2>2. \A d \in Retries : pc'[d] = pc[d] /\ plan'[d] = plan[d] /\ view'[d] = view[d]
    BY <2>1 DEF IInv, TypeOK, SubmitFailed, End, GoTo, Calls
  <2>3. \A d \in Retries : appLock' = d <=> appLock = d
    BY <2>1, CallsAssumption DEF SubmitFailed, End, Calls
  <2> QED
    BY <2>1, <2>2, <2>3 DEF IInv, MoveInv
<1> QED
  BY <1>1, <1>2, <1>3, <1>4, <1>5, <1>6, <1>7, <1>8 DEF IInv

LEMMA RollbackStep ==
  ASSUME IInv, NEW c \in Calls, Rollback(c)
  PROVE  IInv'
<1>1. TypeOK'
  BY PlanFacts, BlankFacts DEF IInv, TypeOK, Rollback, End, rows, GoTo, Points
<1>2. SubmitInv'
  BY DEF IInv, SubmitInv, Rollback, End, rows, Busy, GoTo, TypeOK
<1>3. RetryInv'
  BY PlanFacts, CallsAssumption DEF IInv, RetryInv, Rollback, End, rows, Busy,
     GoTo, TypeOK, NoAnswer
<1>4. AnswerInv'
  BY DEF IInv, AnswerInv, Rollback, End, GoTo, TypeOK
<1>5. AloneInv'
  BY DEF IInv, AloneInv, Rollback, End, rows, Busy, GoTo
<1>6. ReceivedInv'
  BY DEF IInv, ReceivedInv, Rollback, End, rows, TypeOK
<1>7. CountInv'
  BY DEF IInv, CountInv, Rollback, End, rows, Busy, GoTo, Calls, TypeOK, AnswerInv
<1>8. MoveInv'
  BY CallsAssumption DEF IInv, MoveInv, Rollback, End, GoTo, TypeOK, Blank
<1> QED
  BY <1>1, <1>2, <1>3, <1>4, <1>5, <1>6, <1>7, <1>8 DEF IInv

LEMMA RetryStep ==
  ASSUME IInv, NEW c \in Retries, Retry(c)
  PROVE  IInv'
<1>1. TypeOK'
  BY DEF IInv, TypeOK, Retry, rows, locks, GoTo, Points
<1>2. SubmitInv'
  BY CallsAssumption DEF IInv, SubmitInv, Retry, Failed, Busy, GoTo
<1>3. RetryInv'
  BY DEF IInv, RetryInv, Retry, Failed, RetriesLeft, rows, locks, Busy, GoTo,
     TypeOK
<1>4. AnswerInv'
  BY DEF IInv, AnswerInv, Retry, Busy, GoTo
<1>5. AloneInv'
  BY DEF AloneInv, Retry, Failed, rows, Busy, GoTo
<1>6. ReceivedInv'
  BY DEF IInv, ReceivedInv, Retry, Failed
<1>7. CountInv'
  BY DEF IInv, CountInv, Retry, rows, Busy, GoTo, TypeOK
<1>8. MoveInv'
  BY DEF IInv, MoveInv, Retry, locks, Busy, GoTo, RetryInv
<1> QED
  BY <1>1, <1>2, <1>3, <1>4, <1>5, <1>6, <1>7, <1>8 DEF IInv

LEMMA RetryMarksStep ==
  ASSUME IInv, NEW c \in Retries, RetryMarks(c)
  PROVE  IInv'
<1>1. TypeOK'
  BY PlanFacts DEF IInv, TypeOK, RetryMarks, Route, AfterFailure, rows, history,
     GoTo, Points, RetryInv
<1>2. SubmitInv'
  BY CallsAssumption DEF IInv, SubmitInv, RetryMarks, rows, Busy, GoTo
<1>3. RetryInv'
  BY PlanFacts DEF IInv, RetryInv, RetryMarks, Route, AfterFailure, rows, Busy,
     GoTo
<1>4. AnswerInv'
  BY DEF IInv, AnswerInv, RetryMarks, GoTo
<1>5. AloneInv'
  BY DEF IInv, AloneInv, RetryMarks, rows, history, Busy, GoTo
<1>6. ReceivedInv'
  BY DEF IInv, ReceivedInv, RetryMarks, rows, history
<1>7. CountInv'
  BY DEF IInv, CountInv, RetryMarks, rows, history, Busy, GoTo
<1>8. MoveInv'
  BY DEF IInv, MoveInv, RetryMarks, GoTo, RetryInv
<1> QED
  BY <1>1, <1>2, <1>3, <1>4, <1>5, <1>6, <1>7, <1>8 DEF IInv

LEMMA RetryReadsStep ==
  ASSUME IInv, NEW c \in Retries, RetryReads(c)
  PROVE  IInv'
<1>1. TypeOK'
  <2>1. plan[c] \in Routes /\ Tail(plan[c]) \in Plans
    BY PlanFacts DEF IInv, RetryInv, RetryReads
  <2>2. plan' \in [Calls -> Plans]
    BY <2>1 DEF IInv, TypeOK, RetryReads
  <2>3. pc' \in [Calls -> Points]
    BY DEF IInv, TypeOK, RetryReads, GoTo, Points
  <2>4. view' \in [Calls -> [read : Stages, wrote : Stages, count : 0..MaxRetries]]
    BY DEF IInv, TypeOK, RetryReads, Calls
  <2> QED
    BY <2>2, <2>3, <2>4 DEF IInv, TypeOK, RetryReads, rows, locks, history
<1>2. SubmitInv'
  BY DEF IInv, SubmitInv, RetryReads, rows, locks, Busy, GoTo, Calls, TypeOK
<1>3. RetryInv'
  <2>1. UNCHANGED <<submission, appLock, outcome>> /\ plan[c] # <<>>
    BY DEF RetryReads, rows, locks
  <2>2. \A d \in Retries : (Busy(d)' <=> Busy(d)) /\ view'[d].count = view[d].count
    BY DEF IInv, TypeOK, RetryReads, GoTo, Busy, Calls
  <2>3. \A d \in Retries \ {c} : pc'[d] = pc[d] /\ plan'[d] = plan[d]
    BY DEF IInv, TypeOK, RetryReads, GoTo, Calls
  <2>4. /\ pc'[c] \in {"moving", "writing"}
        /\ plan'[c] \in Routes
        /\ pc'[c] = "writing" => plan'[c] # <<>>
    BY <2>1, PlanFacts DEF IInv, TypeOK, RetryInv, RetryReads, GoTo, Calls
  <2> QED
    BY <2>1, <2>2, <2>3, <2>4 DEF IInv, RetryInv
<1>4. AnswerInv'
  BY DEF IInv, AnswerInv, RetryReads, GoTo, TypeOK
<1>5. AloneInv'
  <2>1. \A d \in Retries : Busy(d)' <=> Busy(d)
    BY DEF IInv, TypeOK, RetryReads, GoTo, Busy, Calls
  <2> QED
    BY <2>1 DEF IInv, AloneInv, RetryReads, rows, history
<1>6. ReceivedInv'
  BY DEF IInv, ReceivedInv, RetryReads, rows, history
<1>7. CountInv'
  BY DEF IInv, CountInv, RetryReads, rows, history, Busy, GoTo, Calls, TypeOK
<1>8. MoveInv'
  BY DEF IInv, MoveInv, RetryReads, Now, MayMove, locks, GoTo, Calls, TypeOK,
     RetryInv, NoMove, Moves, LegalMove
<1> QED
  BY <1>1, <1>2, <1>3, <1>4, <1>5, <1>6, <1>7, <1>8 DEF IInv

LEMMA RetryMovesStep ==
  ASSUME IInv, NEW c \in Retries, RetryMoves(c)
  PROVE  IInv'
<1>1. TypeOK'
  <2>1. plan[c] # <<>> /\ plan[c] \in Routes
    BY DEF IInv, RetryInv, RetryMoves
  <2>2. Head(plan[c]) \in Stages /\ Tail(plan[c]) \in Plans
    BY <2>1, PlanFacts
  <2>3. plan' \in [Calls -> Plans]
    BY <2>2 DEF IInv, TypeOK, RetryMoves
  <2>4. pc' \in [Calls -> Points]
    BY DEF IInv, TypeOK, RetryMoves, GoTo, Points
  <2>5. view' \in [Calls -> [read : Stages, wrote : Stages, count : 0..MaxRetries]]
    BY <2>2 DEF IInv, TypeOK, RetryMoves, Calls
  <2>6. appLock' \in Calls \cup {Nobody}
    BY DEF RetryMoves, Calls
  <2> QED
    BY <2>3, <2>4, <2>5, <2>6 DEF IInv, TypeOK, RetryMoves, rows, history
<1>2. SubmitInv'
  BY CallsAssumption DEF IInv, SubmitInv, RetryMoves, Busy, GoTo
<1>3. RetryInv'
  BY PlanFacts DEF IInv, RetryInv, RetryMoves, rows, Busy, GoTo, TypeOK
<1>4. AnswerInv'
  BY DEF IInv, AnswerInv, RetryMoves, GoTo
<1>5. AloneInv'
  BY DEF IInv, AloneInv, RetryMoves, rows, history, Busy, GoTo
<1>6. ReceivedInv'
  BY DEF IInv, ReceivedInv, RetryMoves, rows, history
<1>7. CountInv'
  BY DEF IInv, CountInv, RetryMoves, rows, history, Busy, GoTo
<1>8. MoveInv'
  <2>1. /\ plan[c] # <<>> /\ plan[c] \in Routes
        /\ Head(plan[c]) \in Legal[IF appLock = c THEN view[c].wrote ELSE view[c].read]
        /\ \A d \in Retries \ {c} : appLock # d /\ appLock' # d
    BY CallsAssumption DEF IInv, RetryInv, MoveInv, RetryMoves
  <2>2. /\ appLock' = c /\ pc'[c] = "moving" /\ plan'[c] = Tail(plan[c])
        /\ view'[c].wrote = Head(plan[c]) /\ view'[c].read = view[c].read
    BY DEF IInv, TypeOK, RetryMoves, GoTo, Calls
  <2>3. \A d \in Retries \ {c} : pc'[d] = pc[d] /\ plan'[d] = plan[d] /\ view'[d] = view[d]
    BY DEF IInv, TypeOK, RetryMoves, GoTo, Calls
  <2>4. LegalMove(view[c].read, Head(plan[c]))
    <3>1. CASE appLock # c
      BY <2>1, <3>1 DEF LegalMove
    <3>2. CASE appLock = c
      <4>1. /\ plan[c] = <<"OFF_TO_LENDER">>
            /\ "IN_REVIEW" \in Legal[view[c].read]
        BY <2>1, <3>2 DEF IInv, MoveInv
      <4> QED
        BY <4>1, PlanFacts, LegalFacts DEF LegalMove
    <3> QED
      BY <3>1, <3>2
  <2>5. plan'[c] # <<>> => /\ plan'[c] = <<"OFF_TO_LENDER">>
                           /\ view'[c].wrote = "IN_REVIEW"
                           /\ "IN_REVIEW" \in Legal[view'[c].read]
    <3>1. CASE appLock # c
      BY <2>1, <2>2, <3>1, PlanFacts
    <3>2. CASE appLock = c
      <4>1. plan[c] = <<"OFF_TO_LENDER">>
        BY <2>1, <3>2 DEF IInv, MoveInv
      <4> QED
        BY <4>1, <2>2, PlanFacts
    <3> QED
      BY <3>1, <3>2
  <2> QED
    BY <2>1, <2>2, <2>3, <2>4, <2>5 DEF IInv, MoveInv, RetryMoves
<1> QED
  BY <1>1, <1>2, <1>3, <1>4, <1>5, <1>6, <1>7, <1>8 DEF IInv

LEMMA RetryCommitsStep ==
  ASSUME IInv, NEW c \in Retries, RetryCommits(c)
  PROVE  IInv'
<1>1. TypeOK'
  <2>1. view[c].wrote \in Stages /\ NextCount(view[c].count) \in 0..MaxRetries
    BY MaxRetriesAssumption DEF IInv, TypeOK, RetryInv, RetryCommits, Busy, NextCount,
       Calls
  <2>2. stage' \in Stages
    BY <2>1 DEF IInv, TypeOK, RetryCommits, Now
  <2>3. retry' \in [status : {"none", "pending", "succeeded", "canceled"},
                    count : 0..MaxRetries]
    BY <2>1 DEF RetryCommits
  <2>4. /\ pc' \in [Calls -> Points] /\ outcome' \in [Calls -> Outcomes \cup {NoAnswer}]
        /\ appLock' \in Calls \cup {Nobody} /\ subLock' \in Retries \cup {Nobody}
    BY DEF IInv, TypeOK, RetryCommits, End, GoTo, Points
  <2>5. /\ view' \in [Calls -> [read : Stages, wrote : Stages, count : 0..MaxRetries]]
        /\ plan' \in [Calls -> Plans]
    BY BlankFacts, PlanFacts DEF IInv, TypeOK, RetryCommits, End
  <2> QED
    BY <2>2, <2>3, <2>4, <2>5 DEF IInv, TypeOK, RetryCommits, history
<1>2. SubmitInv'
  BY DEF IInv, SubmitInv, RetryCommits, End, Busy, GoTo, RetryInv
<1>3. RetryInv'
  BY CallsAssumption DEF IInv, RetryInv, RetryCommits, End, Busy, GoTo, TypeOK,
     NoAnswer
<1>4. AnswerInv'
  BY DEF IInv, AnswerInv, RetryCommits, End, GoTo, TypeOK
<1>5. AloneInv'
  BY DEF IInv, AloneInv, RetryCommits, End, history, Busy, GoTo, Calls, TypeOK
<1>6. ReceivedInv'
  BY DEF IInv, ReceivedInv, RetryCommits, End, history, Busy, AloneInv
<1>7. CountInv'
  BY DEF IInv, CountInv, RetryCommits, NextCount, End, history, Busy, GoTo, Calls,
     TypeOK, AloneInv
<1>8. MoveInv'
  BY CallsAssumption DEF IInv, MoveInv, RetryCommits, End, GoTo, RetryInv, NoMove,
     Moves, LegalMove, Blank
<1> QED
  BY <1>1, <1>2, <1>3, <1>4, <1>5, <1>6, <1>7, <1>8 DEF IInv

LEMMA SendStep ==
  ASSUME IInv, NEW c \in Calls, Send(c)
  PROVE  IInv'
<1>0. PICK sent \in SheetSends \cup EmailSends \cup ApiSends(c) :
        /\ outcome' = [outcome EXCEPT ![c] = sent.answer]
        /\ received' = IF sent.arrives THEN OneMore(received, Twice) ELSE received
        /\ causes' = IF sent.answer = "unanswered"
                       THEN causes \cup {"unanswered"} ELSE causes
  BY DEF Send
<1>00. /\ sent.answer \in Outcomes
       /\ sent.answer = "timeout" => c \in Submits
       /\ sent.arrives => sent.answer \in {"accepted", "unanswered"}
  <2>1. CASE sent \in SheetSends \cup EmailSends
    BY <2>1 DEF SheetSends, EmailSends, Outcomes
  <2>2. CASE sent \in ApiSends(c)
    BY <2>2 DEF ApiSends, Outcomes
  <2> QED
    BY <2>1, <2>2
<1>1. TypeOK'
  BY <1>0, <1>00, MaxRetriesAssumption DEF IInv, TypeOK, Send, rows, locks, GoTo, Points, None,
     Twice, OneMore, RetryInv, NoAnswer
<1>2. SubmitInv'
  BY DEF IInv, SubmitInv, Send, rows, locks, Busy, GoTo
<1>3. RetryInv'
  BY <1>0, <1>00, CallsAssumption DEF IInv, RetryInv, Send, rows, locks, Busy, GoTo
<1>4. AnswerInv'
  BY <1>0, <1>00 DEF IInv, AnswerInv, Send, Outcomes, GoTo, TypeOK, NoAnswer
<1>5. AloneInv'
  BY <1>0, <1>00 DEF IInv, AloneInv, Send, rows, Busy, GoTo
<1>6. ReceivedInv'
  BY <1>0, <1>00 DEF IInv, ReceivedInv, Send, Busy, Calls, TypeOK, AnswerInv, SubmitInv,
     AloneInv, NoAnswer, OneMore
<1>7. CountInv'
  <2>1. /\ UNCHANGED <<submission, retry, cancel, view>> /\ causes \subseteq causes'
        /\ pc[c] = "sending" /\ pc' = [pc EXCEPT ![c] = "sent"]
        /\ tries' = IF c \in Retries THEN OneMore(tries, None) ELSE tries
    BY <1>0 DEF Send, rows, GoTo
  <2>2. \A d \in Retries : Busy(d)' => Busy(d)
    BY <2>1 DEF IInv, TypeOK, Busy, Calls
  <2>3. SUFFICES ASSUME causes' \cap {"rolledBack", "overlap", "cancelRaced"} = {}
                 PROVE  tries' <= retry.count
                          \/ /\ tries' <= retry.count + 1
                             /\ \E d \in Retries : pc'[d] \in {"sent", "moving", "writing"}
    BY <2>1, <2>2 DEF IInv, CountInv
  <2>4. /\ "overlap" \notin causes /\ tries \in Nat /\ retry.count \in Nat
        /\ causes \cap {"rolledBack", "overlap", "cancelRaced"} = {}
    BY <2>1, <2>3, MaxRetriesAssumption DEF IInv, TypeOK, None
  <2>5. CASE c \in Submits
    <3>1. tries' = tries /\ \A d \in Retries : pc'[d] = pc[d]
      BY <2>1, <2>5, CallsAssumption DEF IInv, TypeOK, Calls
    <3> QED
      BY <2>4, <3>1 DEF IInv, CountInv
  <2>6. CASE c \in Retries
    <3>1. \A d \in Retries : pc[d] \notin {"sent", "moving", "writing"}
      BY <2>1, <2>4, <2>6 DEF IInv, AloneInv, Busy
    <3>2. tries <= retry.count
      BY <2>4, <3>1 DEF IInv, CountInv
    <3>3. tries' <= tries + 1 /\ pc'[c] = "sent"
      BY <2>1, <2>4, <2>6, MaxRetriesAssumption DEF IInv, TypeOK, OneMore, None, Calls
    <3>4. tries' \in Nat
      BY <2>1, <2>4, <2>6, MaxRetriesAssumption DEF OneMore, None
    <3> QED
      BY <2>4, <2>6, <3>2, <3>3, <3>4
  <2> QED
    BY <2>5, <2>6 DEF Calls
<1>8. MoveInv'
  BY DEF IInv, MoveInv, Send, locks, GoTo
<1> QED
  BY <1>1, <1>2, <1>3, <1>4, <1>5, <1>6, <1>7, <1>8 DEF IInv

LEMMA CancelReadsStep ==
  ASSUME IInv, CancelReads
  PROVE  IInv'
<1>1. TypeOK'
  BY MaxRetriesAssumption DEF IInv, TypeOK, CancelReads, rows, locks, calls,
     history, None
<1>2. SubmitInv'
  BY DEF IInv, SubmitInv, CancelReads, rows, locks, calls, Busy
<1>3. RetryInv'
  BY DEF IInv, RetryInv, CancelReads, rows, locks, calls, Busy
<1>4. AnswerInv'
  BY DEF IInv, AnswerInv, CancelReads, calls
<1>5. AloneInv'
  BY DEF IInv, AloneInv, CancelReads, rows, calls, history, Busy
<1>6. ReceivedInv'
  BY DEF IInv, ReceivedInv, CancelReads, rows, calls, history
<1>7. CountInv'
  BY DEF IInv, CountInv, CancelReads, rows, calls, history, Busy
<1>8. MoveInv'
  BY DEF IInv, MoveInv, CancelReads, locks, calls
<1> QED
  BY <1>1, <1>2, <1>3, <1>4, <1>5, <1>6, <1>7, <1>8 DEF IInv

LEMMA CancelWritesStep ==
  ASSUME IInv, CancelWrites
  PROVE  IInv'
<1>1. TypeOK'
  BY MaxRetriesAssumption DEF IInv, TypeOK, CancelWrites, locks, calls, None
<1>2. SubmitInv'
  BY DEF IInv, SubmitInv, CancelWrites, locks, calls, Busy
<1>3. RetryInv'
  BY DEF IInv, RetryInv, CancelWrites, locks, calls, Busy
<1>4. AnswerInv'
  BY DEF IInv, AnswerInv, CancelWrites, calls
<1>5. AloneInv'
  BY DEF IInv, AloneInv, CancelWrites, calls, Busy
<1>6. ReceivedInv'
  BY DEF IInv, ReceivedInv, CancelWrites, calls
<1>7. CountInv'
  BY DEF IInv, CountInv, CancelWrites, calls, Busy
<1>8. MoveInv'
  BY DEF IInv, MoveInv, CancelWrites, locks, calls
<1> QED
  BY <1>1, <1>2, <1>3, <1>4, <1>5, <1>6, <1>7, <1>8 DEF IInv

LEMMA PapersStep ==
  ASSUME IInv, AcceptPapers \/ DeletePapers
  PROVE  IInv'
<1>1. TypeOK'
  BY DEF IInv, TypeOK, AcceptPapers, DeletePapers, locks, calls, history
<1>2. SubmitInv'
  BY DEF IInv, SubmitInv, AcceptPapers, DeletePapers, locks, calls, Busy
<1>3. RetryInv'
  BY DEF IInv, RetryInv, AcceptPapers, DeletePapers, locks, calls, Busy
<1>4. AnswerInv'
  BY DEF IInv, AnswerInv, AcceptPapers, DeletePapers, calls
<1>5. AloneInv'
  BY DEF IInv, AloneInv, AcceptPapers, DeletePapers, calls, history, Busy
<1>6. ReceivedInv'
  BY DEF IInv, ReceivedInv, AcceptPapers, DeletePapers, calls, history
<1>7. CountInv'
  BY DEF IInv, CountInv, AcceptPapers, DeletePapers, calls, history, Busy
<1>8. MoveInv'
  BY DEF IInv, MoveInv, AcceptPapers, DeletePapers, locks, calls
<1> QED
  BY <1>1, <1>2, <1>3, <1>4, <1>5, <1>6, <1>7, <1>8 DEF IInv

LEMMA MoveReadsStep ==
  ASSUME IInv, NEW m \in Movers, MoveReads(m)
  PROVE  IInv'
<1>1. TypeOK'
  BY LegalFacts DEF IInv, TypeOK, MoveReads, rows, locks, calls, history, Moves,
     None
<1>2. SubmitInv'
  BY DEF IInv, SubmitInv, MoveReads, rows, locks, calls, Busy
<1>3. RetryInv'
  BY DEF IInv, RetryInv, MoveReads, rows, locks, calls, Busy
<1>4. AnswerInv'
  BY DEF IInv, AnswerInv, MoveReads, calls
<1>5. AloneInv'
  BY DEF IInv, AloneInv, MoveReads, rows, calls, history, Busy
<1>6. ReceivedInv'
  BY DEF IInv, ReceivedInv, MoveReads, rows, calls, history
<1>7. CountInv'
  BY DEF IInv, CountInv, MoveReads, rows, calls, history, Busy
<1>8. MoveInv'
  BY DEF IInv, MoveInv, MoveReads, locks, calls
<1> QED
  BY <1>1, <1>2, <1>3, <1>4, <1>5, <1>6, <1>7, <1>8 DEF IInv

LEMMA MoveWritesStep ==
  ASSUME IInv, NEW m \in Movers, MoveWrites(m)
  PROVE  IInv'
<1>1. TypeOK'
  BY DEF IInv, TypeOK, MoveWrites, locks, calls, history, Moves
<1>2. SubmitInv'
  BY CallsAssumption DEF IInv, SubmitInv, MoveWrites, calls, Busy
<1>3. RetryInv'
  BY DEF IInv, RetryInv, MoveWrites, locks, calls, Busy
<1>4. AnswerInv'
  BY DEF IInv, AnswerInv, MoveWrites, calls
<1>5. AloneInv'
  BY DEF IInv, AloneInv, MoveWrites, calls, history, Busy
<1>6. ReceivedInv'
  BY DEF IInv, ReceivedInv, MoveWrites, calls, history
<1>7. CountInv'
  BY DEF IInv, CountInv, MoveWrites, calls, history, Busy
<1>8. MoveInv'
  BY DEF IInv, MoveInv, MoveWrites, locks, calls
<1> QED
  BY <1>1, <1>2, <1>3, <1>4, <1>5, <1>6, <1>7, <1>8 DEF IInv

LEMMA StutterStep ==
  ASSUME IInv, UNCHANGED vars
  PROVE  IInv'
BY DEF IInv, TypeOK, SubmitInv, RetryInv, AnswerInv, AloneInv, ReceivedInv,
   CountInv, MoveInv, vars, Busy

-------------------------------------------------------------------------------
(* Theorems *)

LEMMA InitIInv == Init => IInv
<1> SUFFICES ASSUME Init PROVE IInv
  OBVIOUS
<1>1. TypeOK
  BY StageFacts, PlanFacts, BlankFacts, MaxRetriesAssumption
     DEF Init, TypeOK, Points, Moves, None, Twice
<1>2. SubmitInv /\ AnswerInv /\ AloneInv
  BY DEF Init, SubmitInv, AnswerInv, AloneInv, Busy, Calls
<1>3. RetryInv
  BY PlanFacts, CallsAssumption DEF Init, RetryInv, Busy, Calls, NoAnswer
<1>4. ReceivedInv /\ CountInv
  BY DEF Init, ReceivedInv, CountInv, Busy, Calls
<1>5. MoveInv
  BY CallsAssumption DEF Init, MoveInv, Calls
<1> QED
  BY <1>1, <1>2, <1>3, <1>4, <1>5 DEF IInv

LEMMA NextIInv == IInv /\ [Next]_vars => IInv'
<1> SUFFICES ASSUME IInv, [Next]_vars PROVE IInv'
  OBVIOUS
<1>1. ASSUME NEW c \in Submits,
             \/ Submit(c) \/ SubmitWithoutPapers(c)
             \/ SubmitAccepted(c) \/ SubmitFailed(c) \/ SubmitIllegal(c)
      PROVE  IInv'
  <2>1. SubmitIllegal(c) => Rollback(c)
    BY DEF SubmitIllegal
  <2>2. c \in Calls
    BY DEF Calls
  <2> QED
    BY <1>1, <2>1, <2>2, SubmitStep, SubmitWithoutPapersStep, SubmitAcceptedStep,
              SubmitFailedStep, RollbackStep
<1>2. ASSUME NEW c \in Retries,
             \/ Retry(c) \/ RetryMarks(c) \/ RetryReads(c) \/ RetryIllegal(c)
             \/ RetryMoves(c) \/ RetryCommits(c)
      PROVE  IInv'
  <2>1. RetryIllegal(c) => Rollback(c)
    BY DEF RetryIllegal
  <2>2. c \in Calls
    BY DEF Calls
  <2> QED
    BY <1>2, <2>1, <2>2, RetryStep, RetryMarksStep, RetryReadsStep, RetryMovesStep,
              RetryCommitsStep, RollbackStep
<1>3. ASSUME NEW c \in Calls, Send(c) \/ CutOff(c)
      PROVE  IInv'
  <2>1. CutOff(c) => Rollback(c)
    BY DEF CutOff
  <2> QED
    BY <1>3, <2>1, SendStep, RollbackStep
<1>4. CASE CancelReads \/ CancelWrites \/ AcceptPapers \/ DeletePapers
  BY <1>4, CancelReadsStep, CancelWritesStep, PapersStep
<1>5. ASSUME NEW m \in Movers, MoveReads(m) \/ MoveWrites(m)
      PROVE  IInv'
  BY <1>5, MoveReadsStep, MoveWritesStep
<1>6. CASE UNCHANGED vars
  BY <1>6, StutterStep
<1> QED
  BY <1>1, <1>2, <1>3, <1>4, <1>5, <1>6 DEF Next

\* What the properties below follow from holds in every reachable state.
THEOREM Inductive == Spec => []IInv
BY InitIInv, NextIInv, PTL DEF Spec

\* Every variable keeps its type, and no retry is counted beyond the limit.
THEOREM TypeCorrect == Spec => []TypeOK
<1>1. IInv => TypeOK
  BY DEF IInv
<1> QED
  BY Inductive, <1>1, PTL

\* The lender has an application twice only after a rollback, a lost answer or
\* an overlap of retries.
THEOREM OnceUnlessExplained == Spec => []NoUnexplainedResend
<1>1. IInv => NoUnexplainedResend
  BY DEF IInv, TypeOK, ReceivedInv, NoUnexplainedResend, Twice
<1> QED
  BY Inductive, <1>1, PTL

\* The limit of retries bounds the calls for them, unless a count was lost.
THEOREM RetriesAreLimited == Spec => []RetryLimit
<1>1. IInv => RetryLimit
  <2> SUFFICES ASSUME IInv, causes \cap {"rolledBack", "overlap", "cancelRaced"} = {}
               PROVE  tries <= MaxRetries
    BY DEF RetryLimit
  <2>1. tries \in Nat /\ retry.count \in 0..MaxRetries
    BY MaxRetriesAssumption DEF IInv, TypeOK, None
  <2>2. CASE tries <= retry.count
    BY <2>1, <2>2, MaxRetriesAssumption
  <2>3. CASE /\ tries <= retry.count + 1
             /\ \E c \in Retries : pc[c] \in {"sent", "moving", "writing"}
    <3>1. PICK c \in Retries : pc[c] \in {"sent", "moving", "writing"}
      BY <2>3
    <3>2. retry.count < MaxRetries
      BY <3>1 DEF IInv, CountInv, RetryInv, Busy
    <3> QED
      BY <2>1, <2>3, <3>2, MaxRetriesAssumption
  <2> QED
    BY <2>2, <2>3 DEF IInv, CountInv
<1> QED
  BY Inductive, <1>1, PTL

\* A recorded submission is not overwritten but by an overlap of retries.
THEOREM RecordIsKept == Spec => SubmittedIsKept
<1> DEFINE Kept == submission = "submitted" => submission' = "submitted" \/ "overlap" \in causes
<1>1. IInv /\ [Next]_vars => Kept
  <2> SUFFICES ASSUME IInv, [Next]_vars, submission = "submitted", "overlap" \notin causes
               PROVE  submission' = "submitted"
    OBVIOUS
  <2>1. /\ \A c \in Submits : ~Busy(c)
        /\ \A c \in Retries : ~Busy(c)
    BY DEF IInv, SubmitInv, AloneInv
  <2>2. \A c \in Submits : /\ ~SubmitWithoutPapers(c) /\ ~SubmitAccepted(c)
                           /\ ~SubmitFailed(c)
    BY <2>1 DEF SubmitWithoutPapers, MaySubmit, NotSubmittedYet, SubmitAccepted,
       SubmitFailed, Busy
  <2>3. \A c \in Retries : ~RetryCommits(c)
    BY <2>1 DEF RetryCommits, Busy
  <2> QED
    BY <2>2, <2>3 DEF Next, vars, Submit, SubmitIllegal, Retry, RetryMarks, RetryReads,
              RetryIllegal, RetryMoves, Send, CutOff, Rollback, CancelReads, CancelWrites,
              AcceptPapers, DeletePapers, MoveReads, MoveWrites, rows
<1> QED
  BY Inductive, <1>1, PTL DEF Spec, SubmittedIsKept

\* The stage moves as LEGAL_TRANSITIONS says, but by a caller whose check was stale.
THEOREM MovesAreLegal == Spec => StageMovesAreLegal
<1> DEFINE Fine == stage' # stage => LegalMove(stage, stage') \/ Stale
<1>1. IInv /\ [Next]_vars => Fine
  <2> SUFFICES ASSUME IInv, [Next]_vars, stage' # stage
               PROVE  LegalMove(stage, stage') \/ Stale
    OBVIOUS
  <2>1. ASSUME NEW c \in Submits,
               SubmitWithoutPapers(c) \/ SubmitAccepted(c) \/ SubmitFailed(c)
        PROVE  LegalMove(stage, stage')
    BY <2>1, LegalFacts DEF IInv, SubmitInv, SubmitWithoutPapers, MaySubmit, SubmitAccepted,
       SubmitFailed, MayKeep, MayMove, AfterFailure, Busy, LegalMove
  <2>2. ASSUME NEW c \in Retries, RetryCommits(c)
        PROVE  LegalMove(stage, stage') \/ Stale
    <3>1. appLock = c /\ appLock' = Nobody /\ stage' = view[c].wrote
      BY <2>2 DEF RetryCommits, Now, End
    <3>2. CASE view[c].read = stage
      BY <3>1, <3>2 DEF IInv, MoveInv
    <3>3. CASE view[c].read # stage
      BY <3>1, <3>3 DEF Stale
    <3> QED
      BY <3>2, <3>3
  <2>3. ASSUME NEW m \in Movers, MoveWrites(m)
        PROVE  LegalMove(stage, stage') \/ Stale
    <3>1. CASE move[m].from = stage
      BY <2>3, <3>1 DEF IInv, MoveInv, MoveWrites, LegalMove
    <3>2. CASE move[m].from # stage
      BY <2>3, <3>2 DEF IInv, TypeOK, MoveWrites, Stale
    <3> QED
      BY <3>1, <3>2
  <2> QED
    BY <2>1, <2>2, <2>3 DEF Next, vars, Submit, SubmitIllegal, Retry, RetryMarks,
              RetryReads, RetryIllegal, RetryMoves, Send, CutOff, Rollback, CancelReads,
              CancelWrites, AcceptPapers, DeletePapers, MoveReads, rows
<1> QED
  BY Inductive, <1>1, PTL DEF Spec, StageMovesAreLegal

\* A submit holds the application from its first look at it until it ends: two of
\* them never send, and while one does no submission appears and no stage moves
\* under it (lender.service.ts:845-899).
THEOREM SubmitsExclude ==
  Spec => [](\A c \in Submits : Busy(c) =>
               /\ \A d \in Submits : Busy(d) => d = c
               /\ submission = "none" /\ view[c].read = stage)
<1>1. IInv => \A c \in Submits : Busy(c) =>
                /\ \A d \in Submits : Busy(d) => d = c
                /\ submission = "none" /\ view[c].read = stage
  BY DEF IInv, SubmitInv
<1> QED
  BY Inductive, <1>1, PTL

\* What the lender has received is on record, or in the hands of the call that
\* sent it, until a rollback, a lost answer or an overlap of retries.
THEOREM ReceivedOnRecord == Spec => []ReceivedIsRecorded
<1>1. IInv => ReceivedIsRecorded
  BY DEF IInv, TypeOK, ReceivedInv, ReceivedIsRecorded
<1> QED
  BY Inductive, <1>1, PTL

=============================================================================
