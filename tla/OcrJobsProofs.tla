--------------------------- MODULE OcrJobsProofs ---------------------------
(***************************************************************************)
(* What is true of OcrJobs for any documents and servers, any concurrency  *)
(* and any number of attempts, with or without stalls.                     *)
(***************************************************************************)
EXTENDS OcrJobs, TLAPS

-------------------------------------------------------------------------------
(* The inductive invariant *)

\* A count that will be written has room: so has the one a reader goes by.
AttemptsInv ==
  /\ \A d \in Docs : job[d] = "none" => attempts[d] = 0
  /\ OpenJobsHaveAttemptsLeft
  /\ \A s \in Servers, d \in Docs : pc[s][d] = "reading" => snap[s][d] < MaxAttempts

\* As long as nobody overtakes a reader, the job's row shows where the reader is,
\* and is not one that lockOcrJobs takes.
RowFollowsReader ==
  \A d \in Docs \ overlapped : \A s \in Servers :
    /\ pc[s][d] = "reading" => job[d] = "processing" /\ lock[d] = "held"
    /\ pc[s][d] \in {"saved", "wiped"} => job[d] = "succeeded"
    /\ pc[s][d] = "mirror" => job[d] = "canceled" \/ (job[d] = "failed" /\ ~due[d])

\* A re-extraction sees all there is, and nobody inserts next to it.
FieldsInv ==
  /\ \A d \in Docs : rex[d] # Closed => rex[d] <= copies[d]
  /\ \A d \in Docs \ overlapped :
       /\ rex[d] # Closed => rex[d] = copies[d]
       /\ \A s \in Servers : pc[s][d] = "wiped" => copies[d] = 0 /\ rex[d] = Closed

IInv ==
  /\ TypeOK
  /\ AttemptsInv
  /\ RowFollowsReader
  /\ OneReader
  /\ SucceededMeansReadable
  /\ FieldsInv
  /\ FieldsNotDoubled

-------------------------------------------------------------------------------
(* Steps *)

LEMMA SubmitStep ==
  ASSUME IInv, Submit
  PROVE  IInv'
<1>1. TypeOK'
  BY DEF IInv, TypeOK, Submit, readers
<1>2. AttemptsInv'
  BY DEF IInv, AttemptsInv, Submit, readers, OpenJobsHaveAttemptsLeft
<1>3. RowFollowsReader'
  BY DEF IInv, RowFollowsReader, Submit, readers
<1>4. OneReader'
  BY DEF IInv, OneReader, Submit, readers, InHand
<1>5. SucceededMeansReadable'
  BY DEF IInv, SucceededMeansReadable, Submit
<1>6. FieldsInv'
  BY DEF IInv, FieldsInv, Submit, readers
<1>7. FieldsNotDoubled'
  BY DEF IInv, FieldsNotDoubled, Submit
<1> QED
  BY <1>1, <1>2, <1>3, <1>4, <1>5, <1>6, <1>7 DEF IInv

LEMMA EnqueueStep ==
  ASSUME IInv, NEW d \in Docs, Enqueue(d)
  PROVE  IInv'
<1>1. TypeOK'
  BY DEF IInv, TypeOK, Enqueue, readers, JobStates
<1>2. AttemptsInv'
  BY MaxAttemptsAssumption DEF IInv, AttemptsInv, Enqueue, readers,
     OpenJobsHaveAttemptsLeft
<1>3. RowFollowsReader'
  BY DEF IInv, RowFollowsReader, Enqueue, readers
<1>4. OneReader'
  BY DEF IInv, OneReader, Enqueue, readers, InHand
<1>5. SucceededMeansReadable'
  BY DEF IInv, SucceededMeansReadable, Enqueue
<1>6. FieldsInv'
  BY DEF IInv, FieldsInv, Enqueue, readers
<1>7. FieldsNotDoubled'
  BY DEF IInv, FieldsNotDoubled, Enqueue
<1> QED
  BY <1>1, <1>2, <1>3, <1>4, <1>5, <1>6, <1>7 DEF IInv

LEMMA ResetStep ==
  ASSUME IInv, NEW d \in Docs, Reset(d)
  PROVE  IInv'
<1>1. TypeOK'
  BY MaxAttemptsAssumption DEF IInv, TypeOK, Reset, readers, Overtaken, JobStates,
     LockStates
<1>2. AttemptsInv'
  BY MaxAttemptsAssumption DEF IInv, AttemptsInv, Reset, readers, TypeOK,
     OpenJobsHaveAttemptsLeft
<1>3. RowFollowsReader'
  BY DEF IInv, RowFollowsReader, Reset, readers, InHand, InHands, Overtaken
<1>4. OneReader'
  BY DEF IInv, OneReader, Reset, readers, InHand, Overtaken
<1>5. SucceededMeansReadable'
  BY DEF IInv, SucceededMeansReadable, Reset, Overtaken
<1>6. FieldsInv'
  BY DEF IInv, FieldsInv, Reset, readers, Overtaken
<1>7. FieldsNotDoubled'
  BY DEF IInv, FieldsNotDoubled, Reset, Overtaken
<1> QED
  BY <1>1, <1>2, <1>3, <1>4, <1>5, <1>6, <1>7 DEF IInv

LEMMA LockAgesStep ==
  ASSUME IInv, NEW d \in Docs, LockAges(d)
  PROVE  IInv'
<1>1. TypeOK'
  BY DEF IInv, TypeOK, LockAges, readers, Overtaken, LockStates
<1>2. AttemptsInv'
  BY DEF IInv, AttemptsInv, LockAges, readers, OpenJobsHaveAttemptsLeft
<1>3. RowFollowsReader'
  BY DEF IInv, RowFollowsReader, LockAges, readers, InHand, InHands, Overtaken
<1>4. OneReader'
  BY DEF IInv, OneReader, LockAges, readers, InHand, Overtaken
<1>5. SucceededMeansReadable'
  BY DEF IInv, SucceededMeansReadable, LockAges, Overtaken
<1>6. FieldsInv'
  BY DEF IInv, FieldsInv, LockAges, readers, Overtaken
<1>7. FieldsNotDoubled'
  BY DEF IInv, FieldsNotDoubled, LockAges, Overtaken
<1> QED
  BY <1>1, <1>2, <1>3, <1>4, <1>5, <1>6, <1>7 DEF IInv

LEMMA BackoffEndsStep ==
  ASSUME IInv, NEW d \in Docs, BackoffEnds(d)
  PROVE  IInv'
<1>1. TypeOK'
  BY DEF IInv, TypeOK, BackoffEnds, readers, Overtaken
<1>2. AttemptsInv'
  BY DEF IInv, AttemptsInv, BackoffEnds, readers, OpenJobsHaveAttemptsLeft
<1>3. RowFollowsReader'
  BY DEF IInv, RowFollowsReader, BackoffEnds, readers, InHand, InHands, Overtaken
<1>4. OneReader'
  BY DEF IInv, OneReader, BackoffEnds, readers, InHand, Overtaken
<1>5. SucceededMeansReadable'
  BY DEF IInv, SucceededMeansReadable, BackoffEnds, Overtaken
<1>6. FieldsInv'
  BY DEF IInv, FieldsInv, BackoffEnds, readers, Overtaken
<1>7. FieldsNotDoubled'
  BY DEF IInv, FieldsNotDoubled, BackoffEnds, Overtaken
<1> QED
  BY <1>1, <1>2, <1>3, <1>4, <1>5, <1>6, <1>7 DEF IInv

LEMMA LockJobsStep ==
  ASSUME IInv, NEW s \in Servers, NEW taken \in SUBSET Docs, LockJobs(s, taken)
  PROVE  IInv'
<1>1. TypeOK'
  BY MaxAttemptsAssumption DEF IInv, TypeOK, LockJobs, JobStates, LockStates,
     Points
<1>2. AttemptsInv'
  BY DEF IInv, AttemptsInv, LockJobs, Claimable, WaitingStates, Abandoned, TypeOK,
     OpenJobsHaveAttemptsLeft
<1>3. RowFollowsReader'
  BY DEF IInv, RowFollowsReader, LockJobs, Claimable, WaitingStates, Abandoned
<1>4. OneReader'
  <2>1. \A d \in taken \ overlapped, t \in Servers : ~InHand(t, d)
    <3>1. \A d \in taken : /\ lock[d] # "held"
                           /\ job[d] = "processing" \/ (job[d] \in WaitingStates /\ due[d])
      BY DEF LockJobs, Claimable, OpenLock, Abandoned
    <3>2. \A d \in taken, t \in Servers : pc[t][d] \in Points
      BY DEF IInv, TypeOK
    <3> QED
      BY <3>1, <3>2 DEF IInv, RowFollowsReader, WaitingStates, InHand, Points
  <2>2. \A t \in Servers, d \in Docs : InHand(t, d)' => InHand(t, d) \/ (t = s /\ d \in taken)
    BY DEF LockJobs, InHand
  <2>3. overlapped' = overlapped
    BY DEF LockJobs
  <2> QED
    BY <2>1, <2>2, <2>3 DEF IInv, OneReader
<1>5. SucceededMeansReadable'
  BY DEF IInv, SucceededMeansReadable, LockJobs
<1>6. FieldsInv'
  BY DEF IInv, FieldsInv, LockJobs
<1>7. FieldsNotDoubled'
  BY DEF IInv, FieldsNotDoubled, LockJobs
<1> QED
  BY <1>1, <1>2, <1>3, <1>4, <1>5, <1>6, <1>7 DEF IInv

LEMMA ClearExpiredLocksStep ==
  ASSUME IInv, NEW s \in Servers, ClearExpiredLocks(s)
  PROVE  IInv'
<1>1. TypeOK'
  BY DEF IInv, TypeOK, ClearExpiredLocks, readers, LockStates
<1>2. AttemptsInv'
  BY DEF IInv, AttemptsInv, ClearExpiredLocks, readers, OpenJobsHaveAttemptsLeft
<1>3. RowFollowsReader'
  BY DEF IInv, RowFollowsReader, ClearExpiredLocks, readers
<1>4. OneReader'
  BY DEF IInv, OneReader, ClearExpiredLocks, readers, InHand
<1>5. SucceededMeansReadable'
  BY DEF IInv, SucceededMeansReadable, ClearExpiredLocks
<1>6. FieldsInv'
  BY DEF IInv, FieldsInv, ClearExpiredLocks, readers
<1>7. FieldsNotDoubled'
  BY DEF IInv, FieldsNotDoubled, ClearExpiredLocks
<1> QED
  BY <1>1, <1>2, <1>3, <1>4, <1>5, <1>6, <1>7 DEF IInv

LEMMA SaveStep ==
  ASSUME IInv, NEW s \in Servers, NEW d \in Docs, Save(s, d)
  PROVE  IInv'
<1>1. TypeOK'
  BY DEF IInv, TypeOK, Save, SaveResult, MarkAfterSuccess, GoTo, JobStates,
     LockStates, Marks, Points
<1>2. AttemptsInv'
  BY DEF IInv, AttemptsInv, Save, SaveResult, GoTo, OpenJobsHaveAttemptsLeft
<1>3. RowFollowsReader'
  BY DEF IInv, RowFollowsReader, Save, SaveResult, InHand, GoTo, TypeOK, OneReader
<1>4. OneReader'
  BY DEF IInv, OneReader, Save, SaveResult, InHand, GoTo
<1>5. SucceededMeansReadable'
  BY DEF IInv, SucceededMeansReadable, Save, SaveResult, MarkAfterSuccess, TypeOK
<1>6. FieldsInv'
  BY DEF IInv, FieldsInv, Save, SaveResult, GoTo
<1>7. FieldsNotDoubled'
  BY DEF IInv, FieldsNotDoubled, Save, SaveResult
<1> QED
  BY <1>1, <1>2, <1>3, <1>4, <1>5, <1>6, <1>7 DEF IInv

LEMMA SaveUnansweredStep ==
  ASSUME IInv, NEW s \in Servers, NEW d \in Docs, SaveUnanswered(s, d)
  PROVE  IInv'
<1>1. TypeOK'
  BY DEF IInv, TypeOK, SaveUnanswered, SaveResult, MarkAfterSuccess, Overtaken,
     JobStates, LockStates, Marks
<1>2. AttemptsInv'
  BY DEF IInv, AttemptsInv, SaveUnanswered, SaveResult, OpenJobsHaveAttemptsLeft
<1>3. RowFollowsReader'
  BY DEF IInv, RowFollowsReader, SaveUnanswered, SaveResult, Overtaken
<1>4. OneReader'
  BY DEF IInv, OneReader, SaveUnanswered, InHand, Overtaken
<1>5. SucceededMeansReadable'
  BY DEF IInv, SucceededMeansReadable, SaveUnanswered, SaveResult, Overtaken
<1>6. FieldsInv'
  BY DEF IInv, FieldsInv, SaveUnanswered, SaveResult, Overtaken
<1>7. FieldsNotDoubled'
  BY DEF IInv, FieldsNotDoubled, SaveUnanswered, SaveResult, Overtaken
<1> QED
  BY <1>1, <1>2, <1>3, <1>4, <1>5, <1>6, <1>7 DEF IInv

LEMMA WipeFieldsStep ==
  ASSUME IInv, NEW s \in Servers, NEW d \in Docs, WipeFields(s, d)
  PROVE  IInv'
<1>1. TypeOK'
  <2>1. copies' \in [Docs -> 0..TwoOrMore]
    BY DEF IInv, TypeOK, WipeFields, LeftByDelete, TwoOrMore
  <2>2. pc' \in [Servers -> [Docs -> Points]]
    <3>1. "idle" \in Points /\ "wiped" \in Points
      BY DEF Points
    <3>2. \E p \in {"idle", "wiped"} : pc' = [pc EXCEPT ![s][d] = p]
      BY DEF WipeFields, GoTo, Done
    <3> QED
      BY <3>1, <3>2 DEF IInv, TypeOK
  <2>3. snap' \in [Servers -> [Docs -> 0..MaxAttempts]]
    <3>1. 0 \in 0..MaxAttempts
      BY MaxAttemptsAssumption
    <3>2. CASE UNCHANGED snap
      BY <3>2 DEF IInv, TypeOK
    <3>3. CASE Done(s, d)
      BY <3>1, <3>3 DEF IInv, TypeOK, Done
    <3> QED
      BY <3>2, <3>3 DEF WipeFields
  <2>4. overlapped' \subseteq Docs
    BY DEF IInv, TypeOK, WipeFields, Overtaken
  <2> QED
    BY <2>1, <2>2, <2>3, <2>4 DEF IInv, TypeOK, WipeFields
<1>2. AttemptsInv'
  <2>1. \A t \in Servers, e \in Docs :
          pc'[t][e] = "reading" => pc[t][e] = "reading" /\ snap'[t][e] = snap[t][e]
    <3>1. /\ \E p \in {"idle", "wiped"} : pc' = [pc EXCEPT ![s][d] = p]
          /\ snap' = snap \/ snap' = [snap EXCEPT ![s][d] = 0]
      BY DEF WipeFields, GoTo, Done
    <3> QED
      BY <3>1 DEF IInv, TypeOK
  <2> QED
    BY <2>1 DEF IInv, AttemptsInv, OpenJobsHaveAttemptsLeft, WipeFields
<1>3. RowFollowsReader'
  BY MaxAttemptsAssumption DEF IInv, RowFollowsReader, WipeFields, LeftByDelete,
     InHand, GoTo, Done, Overtaken, TypeOK, OneReader
<1>4. OneReader'
  <2>1. \A t \in Servers, e \in Docs : InHand(t, e)' => InHand(t, e)
    BY DEF IInv, TypeOK, WipeFields, GoTo, Done, InHand
  <2>2. overlapped \subseteq overlapped'
    BY DEF WipeFields, Overtaken
  <2> QED
    BY <2>1, <2>2 DEF IInv, OneReader
<1>5. SucceededMeansReadable'
  BY DEF IInv, SucceededMeansReadable, WipeFields, Overtaken
<1>6. FieldsInv'
  <2>1. \A t \in Servers, e \in Docs :
          pc'[t][e] = "wiped" => pc[t][e] = "wiped" \/ (t = s /\ e = d /\ copies'[d] = 0)
    BY DEF IInv, TypeOK, WipeFields, GoTo, Done, LeftByDelete
  <2>2. \A e \in Docs : copies'[e] = copies[e] \/ (e = d /\ copies'[e] = 0)
    BY DEF IInv, TypeOK, WipeFields, LeftByDelete
  <2>3. /\ rex' = rex /\ rex[d] \in {0, Closed}
        /\ d \notin overlapped' => rex[d] = Closed
        /\ overlapped \subseteq overlapped'
    BY DEF WipeFields, Overtaken
  <2>4. \A e \in Docs : copies[e] \in 0..TwoOrMore
    BY DEF IInv, TypeOK
  <2> QED
    BY <2>1, <2>2, <2>3, <2>4 DEF IInv, FieldsInv, TwoOrMore, Closed
<1>7. FieldsNotDoubled'
  BY DEF IInv, FieldsNotDoubled, WipeFields, LeftByDelete, Overtaken, TypeOK
<1> QED
  BY <1>1, <1>2, <1>3, <1>4, <1>5, <1>6, <1>7 DEF IInv

LEMMA WipeAfterReextractStep ==
  ASSUME IInv, NEW s \in Servers, NEW d \in Docs, WipeAfterReextract(s, d)
  PROVE  IInv'
<1>1. TypeOK'
  BY DEF IInv, TypeOK, WipeAfterReextract, LeftByDelete, GoTo, Overtaken, Points,
     TwoOrMore, Closed
<1>2. AttemptsInv'
  BY DEF IInv, AttemptsInv, WipeAfterReextract, GoTo, OpenJobsHaveAttemptsLeft
<1>3. RowFollowsReader'
  BY DEF IInv, RowFollowsReader, WipeAfterReextract, GoTo, Overtaken
<1>4. OneReader'
  BY DEF IInv, OneReader, WipeAfterReextract, InHand, GoTo, Overtaken
<1>5. SucceededMeansReadable'
  BY DEF IInv, SucceededMeansReadable, WipeAfterReextract, Overtaken
<1>6. FieldsInv'
  BY DEF IInv, FieldsInv, WipeAfterReextract, GoTo, Overtaken, TypeOK
<1>7. FieldsNotDoubled'
  BY DEF IInv, FieldsNotDoubled, WipeAfterReextract, Overtaken
<1> QED
  BY <1>1, <1>2, <1>3, <1>4, <1>5, <1>6, <1>7 DEF IInv

LEMMA InsertFieldsStep ==
  ASSUME IInv, NEW s \in Servers, NEW d \in Docs, InsertFields(s, d)
  PROVE  IInv'
<1>1. TypeOK'
  BY MaxAttemptsAssumption DEF IInv, TypeOK, InsertFields, Count, GoTo, Done,
     Overtaken, JobStates, Points, TwoOrMore
<1>2. AttemptsInv'
  BY DEF IInv, AttemptsInv, InsertFields, GoTo, Done, OpenJobsHaveAttemptsLeft
<1>3. RowFollowsReader'
  BY DEF IInv, RowFollowsReader, InsertFields, GoTo, Done, Overtaken
<1>4. OneReader'
  BY DEF IInv, OneReader, InsertFields, InHand, GoTo, Done, Overtaken
<1>5. SucceededMeansReadable'
  BY DEF IInv, SucceededMeansReadable, InsertFields, Overtaken
<1>6. FieldsInv'
  <2>1. \A t \in Servers, e \in Docs :
          pc'[t][e] = "wiped" => pc[t][e] = "wiped" /\ ~(t = s /\ e = d)
    BY DEF IInv, TypeOK, InsertFields, GoTo, Done
  <2>2. \A e \in Docs : copies[e] \in 0..TwoOrMore
    BY DEF IInv, TypeOK
  <2>3. \A e \in Docs : IF e = d THEN copies'[e] \in {copies[e], Count(copies[e] + 1)}
                                 ELSE copies'[e] = copies[e]
    BY DEF IInv, TypeOK, InsertFields
  <2>4. \A e \in Docs : copies'[e] >= copies[e]
    BY <2>2, <2>3 DEF Count
  <2>5. /\ rex' = rex
        /\ d \notin overlapped' => rex[d] = Closed
        /\ overlapped \subseteq overlapped'
    BY DEF InsertFields, Overtaken
  <2>6. \A e \in Docs : rex[e] \in 0..Closed /\ copies'[e] \in Nat
    BY <2>2, <2>3 DEF IInv, TypeOK, Count, TwoOrMore
  <2>7. \A e \in Docs \ overlapped', t \in Servers : pc'[t][e] = "wiped" => e # d
    BY <2>1, <2>5 DEF IInv, OneReader, InHand, InsertFields
  <2>8. \A e \in Docs : rex'[e] # Closed => rex'[e] <= copies'[e]
    BY <2>2, <2>4, <2>5, <2>6 DEF IInv, FieldsInv
  <2> QED
    BY <2>1, <2>3, <2>5, <2>7, <2>8 DEF IInv, FieldsInv
<1>7. FieldsNotDoubled'
  BY DEF IInv, FieldsNotDoubled, InsertFields, Count, Overtaken, TypeOK,
     FieldsInv, TwoOrMore
<1> QED
  BY <1>1, <1>2, <1>3, <1>4, <1>5, <1>6, <1>7 DEF IInv

LEMMA RecordFailureStep ==
  ASSUME IInv, NEW s \in Servers, NEW d \in Docs, NEW why \in Failures, RecordFailure(s, d, why)
  PROVE  IInv'
<1>1. TypeOK'
  <2> DEFINE n == NextAttempt(snap[s][d], why)
             gaveUp == GivenUp(n, why)
  <2>1. n \in 0..MaxAttempts /\ (~gaveUp => n < MaxAttempts)
    BY MaxAttemptsAssumption DEF IInv, TypeOK, AttemptsInv, RecordFailure,
       NextAttempt, GivenUp, Exhausted, Failures
  <2>2. /\ pc[s][d] = "reading"
        /\ job' = [job EXCEPT ![d] = IF gaveUp THEN "canceled" ELSE "failed"]
        /\ attempts' = [attempts EXCEPT ![d] = n]
        /\ due' = [due EXCEPT ![d] = gaveUp]
        /\ lock' = [lock EXCEPT ![d] = "free"]
        /\ pc' = [pc EXCEPT ![s][d] = "mirror"] \/ (gaveUp /\ pc' = [pc EXCEPT ![s][d] = "idle"])
        /\ snap' = snap \/ snap' = [snap EXCEPT ![s][d] = 0]
        /\ UNCHANGED <<submitted, stored, mark, copies, rex, overlapped>>
    BY DEF RecordFailure, Done, GoTo
  <2> HIDE DEF n, gaveUp
  <2>3. 0 \in 0..MaxAttempts /\ gaveUp \in BOOLEAN
    BY MaxAttemptsAssumption DEF gaveUp, GivenUp
  <2>4. job' \in [Docs -> JobStates] /\ lock' \in [Docs -> LockStates]
    BY <2>2 DEF IInv, TypeOK, JobStates, LockStates
  <2>5. attempts' \in [Docs -> 0..MaxAttempts] /\ due' \in [Docs -> BOOLEAN]
    BY <2>1, <2>2, <2>3 DEF IInv, TypeOK
  <2>6. pc' \in [Servers -> [Docs -> Points]]
    <3>1. "idle" \in Points /\ "mirror" \in Points
      BY DEF Points
    <3>2. \E p \in {"mirror", "idle"} : pc' = [pc EXCEPT ![s][d] = p]
      BY <2>2
    <3> QED
      BY <3>1, <3>2 DEF IInv, TypeOK
  <2>7. snap' \in [Servers -> [Docs -> 0..MaxAttempts]]
    <3>1. snap \in [Servers -> [Docs -> 0..MaxAttempts]]
      BY DEF IInv, TypeOK
    <3>2. CASE snap' = snap
      BY <3>1, <3>2
    <3>3. CASE snap' = [snap EXCEPT ![s][d] = 0]
      BY <2>3, <3>1, <3>3
    <3> QED
      BY <2>2, <3>2, <3>3
  <2> QED
    BY <2>2, <2>4, <2>5, <2>6, <2>7 DEF IInv, TypeOK
<1>2. AttemptsInv'
  <2> DEFINE n == NextAttempt(snap[s][d], why)
             gaveUp == GivenUp(n, why)
  <2>1. n \in 0..MaxAttempts /\ (~gaveUp => n < MaxAttempts)
    BY MaxAttemptsAssumption DEF IInv, TypeOK, AttemptsInv, RecordFailure,
       NextAttempt, GivenUp, Exhausted, Failures
  <2>2. /\ pc[s][d] = "reading"
        /\ job' = [job EXCEPT ![d] = IF gaveUp THEN "canceled" ELSE "failed"]
        /\ attempts' = [attempts EXCEPT ![d] = n]
        /\ due' = [due EXCEPT ![d] = gaveUp]
        /\ lock' = [lock EXCEPT ![d] = "free"]
        /\ pc' = [pc EXCEPT ![s][d] = "mirror"] \/ (gaveUp /\ pc' = [pc EXCEPT ![s][d] = "idle"])
        /\ snap' = snap \/ snap' = [snap EXCEPT ![s][d] = 0]
        /\ UNCHANGED <<submitted, stored, mark, copies, rex, overlapped>>
    BY DEF RecordFailure, Done, GoTo
  <2> HIDE DEF n, gaveUp
  <2>3. \A e \in Docs :
          \/ job'[e] = job[e] /\ attempts'[e] = attempts[e]
          \/ job'[e] = "canceled"
          \/ job'[e] = "failed" /\ attempts'[e] = n /\ n < MaxAttempts
    BY <2>1, <2>2 DEF IInv, TypeOK
  <2>4. \A t \in Servers, e \in Docs :
          pc'[t][e] = "reading" => pc[t][e] = "reading" /\ snap'[t][e] = snap[t][e]
    BY <2>2 DEF IInv, TypeOK
  <2> QED
    BY <2>3, <2>4 DEF IInv, AttemptsInv, OpenJobsHaveAttemptsLeft
<1>3. RowFollowsReader'
  <2> DEFINE n == NextAttempt(snap[s][d], why)
             gaveUp == GivenUp(n, why)
  <2>1. n \in 0..MaxAttempts /\ (~gaveUp => n < MaxAttempts)
    BY MaxAttemptsAssumption DEF IInv, TypeOK, AttemptsInv, RecordFailure,
       NextAttempt, GivenUp, Exhausted, Failures
  <2>2. /\ pc[s][d] = "reading"
        /\ job' = [job EXCEPT ![d] = IF gaveUp THEN "canceled" ELSE "failed"]
        /\ attempts' = [attempts EXCEPT ![d] = n]
        /\ due' = [due EXCEPT ![d] = gaveUp]
        /\ lock' = [lock EXCEPT ![d] = "free"]
        /\ pc' = [pc EXCEPT ![s][d] = "mirror"] \/ (gaveUp /\ pc' = [pc EXCEPT ![s][d] = "idle"])
        /\ snap' = snap \/ snap' = [snap EXCEPT ![s][d] = 0]
        /\ UNCHANGED <<submitted, stored, mark, copies, rex, overlapped>>
    BY DEF RecordFailure, Done, GoTo
  <2> HIDE DEF n, gaveUp
  <2>3. \A e \in Docs \ overlapped, t \in Servers : InHand(t, e) /\ e = d => t = s
    BY <2>2 DEF IInv, OneReader, InHand
  <2>4. \A e \in Docs, t \in Servers : e # d => pc'[t][e] = pc[t][e]
    <3>1. \E p \in {"mirror", "idle"} : pc' = [pc EXCEPT ![s][d] = p]
      BY <2>2
    <3> QED
      BY <3>1 DEF IInv, TypeOK
  <2>5. \A e \in Docs : e # d => job'[e] = job[e] /\ lock'[e] = lock[e] /\ due'[e] = due[e]
    BY <2>2
  <2>6. \A t \in Servers : t # s => pc'[t][d] = pc[t][d]
    BY <2>2 DEF IInv, TypeOK
  <2>7. pc'[s][d] \in {"mirror", "idle"}
    BY <2>2 DEF IInv, TypeOK
  <2>8. job'[d] = "canceled" \/ (job'[d] = "failed" /\ ~due'[d])
    BY <2>2 DEF IInv, TypeOK
  <2> QED
    BY <2>2, <2>3, <2>4, <2>5, <2>6, <2>7, <2>8 DEF IInv, RowFollowsReader, InHand
<1>4. OneReader'
  BY MaxAttemptsAssumption DEF IInv, OneReader, RecordFailure, NextAttempt,
     GivenUp, Exhausted, Failures, InHand, GoTo, Done, TypeOK, RowFollowsReader
<1>5. SucceededMeansReadable'
  BY DEF IInv, SucceededMeansReadable, RecordFailure
<1>6. FieldsInv'
  BY MaxAttemptsAssumption DEF IInv, FieldsInv, RecordFailure, NextAttempt,
     GivenUp, Exhausted, Failures, InHand, GoTo, Done, TypeOK, TwoOrMore, Closed,
     OneReader, FieldsNotDoubled
<1>7. FieldsNotDoubled'
  BY DEF IInv, FieldsNotDoubled, RecordFailure
<1> QED
  BY <1>1, <1>2, <1>3, <1>4, <1>5, <1>6, <1>7 DEF IInv

LEMMA MirrorFailureStep ==
  ASSUME IInv, NEW s \in Servers, NEW d \in Docs, MirrorFailure(s, d)
  PROVE  IInv'
<1>1. TypeOK'
  BY MaxAttemptsAssumption DEF IInv, TypeOK, MirrorFailure, GoTo, Done, Marks,
     Points
<1>2. AttemptsInv'
  BY DEF IInv, AttemptsInv, MirrorFailure, GoTo, Done, OpenJobsHaveAttemptsLeft
<1>3. RowFollowsReader'
  BY DEF IInv, RowFollowsReader, MirrorFailure, GoTo, Done
<1>4. OneReader'
  BY DEF IInv, OneReader, MirrorFailure, InHand, GoTo, Done
<1>5. SucceededMeansReadable'
  BY DEF IInv, SucceededMeansReadable, MirrorFailure, TypeOK, RowFollowsReader
<1>6. FieldsInv'
  BY DEF IInv, FieldsInv, MirrorFailure, GoTo, Done
<1>7. FieldsNotDoubled'
  BY DEF IInv, FieldsNotDoubled, MirrorFailure
<1> QED
  BY <1>1, <1>2, <1>3, <1>4, <1>5, <1>6, <1>7 DEF IInv

LEMMA FailureLostStep ==
  ASSUME IInv, NEW s \in Servers, NEW d \in Docs, FailureLost(s, d)
  PROVE  IInv'
<1>1. TypeOK'
  BY MaxAttemptsAssumption DEF IInv, TypeOK, FailureLost, rows, GoTo, Done, Points
<1>2. AttemptsInv'
  BY DEF IInv, AttemptsInv, FailureLost, rows, GoTo, Done, TypeOK,
     OpenJobsHaveAttemptsLeft
<1>3. RowFollowsReader'
  BY DEF IInv, RowFollowsReader, FailureLost, rows, GoTo, Done
<1>4. OneReader'
  BY DEF IInv, OneReader, FailureLost, InHand, GoTo, Done
<1>5. SucceededMeansReadable'
  BY DEF IInv, SucceededMeansReadable, FailureLost, rows
<1>6. FieldsInv'
  BY DEF IInv, FieldsInv, FailureLost, rows, GoTo, Done
<1>7. FieldsNotDoubled'
  BY DEF IInv, FieldsNotDoubled, FailureLost, rows
<1> QED
  BY <1>1, <1>2, <1>3, <1>4, <1>5, <1>6, <1>7 DEF IInv

LEMMA CrashStep ==
  ASSUME IInv, NEW s \in Servers, Crash(s)
  PROVE  IInv'
<1>1. TypeOK'
  BY MaxAttemptsAssumption DEF IInv, TypeOK, Crash, rows, Points
<1>2. AttemptsInv'
  BY DEF IInv, AttemptsInv, Crash, rows, TypeOK, OpenJobsHaveAttemptsLeft
<1>3. RowFollowsReader'
  BY DEF IInv, RowFollowsReader, Crash, rows
<1>4. OneReader'
  BY DEF IInv, OneReader, Crash, InHand
<1>5. SucceededMeansReadable'
  BY DEF IInv, SucceededMeansReadable, Crash, rows
<1>6. FieldsInv'
  BY DEF IInv, FieldsInv, Crash, rows
<1>7. FieldsNotDoubled'
  BY DEF IInv, FieldsNotDoubled, Crash, rows
<1> QED
  BY <1>1, <1>2, <1>3, <1>4, <1>5, <1>6, <1>7 DEF IInv

LEMMA BeginReextractStep ==
  ASSUME IInv, NEW d \in Docs, BeginReextract(d)
  PROVE  IInv'
<1>1. TypeOK'
  BY DEF IInv, TypeOK, BeginReextract, rows, readers, Overtaken, TwoOrMore, Closed
<1>2. AttemptsInv'
  BY DEF IInv, AttemptsInv, BeginReextract, rows, readers,
     OpenJobsHaveAttemptsLeft
<1>3. RowFollowsReader'
  BY DEF IInv, RowFollowsReader, BeginReextract, rows, readers, Overtaken
<1>4. OneReader'
  BY DEF IInv, OneReader, BeginReextract, readers, InHand, Overtaken
<1>5. SucceededMeansReadable'
  BY DEF IInv, SucceededMeansReadable, BeginReextract, rows, Overtaken
<1>6. FieldsInv'
  BY DEF IInv, FieldsInv, BeginReextract, rows, readers, InHand, InHands,
     Overtaken, TypeOK, FieldsNotDoubled
<1>7. FieldsNotDoubled'
  BY DEF IInv, FieldsNotDoubled, BeginReextract, rows, Overtaken
<1> QED
  BY <1>1, <1>2, <1>3, <1>4, <1>5, <1>6, <1>7 DEF IInv

LEMMA EndReextractStep ==
  ASSUME IInv, NEW d \in Docs, EndReextract(d)
  PROVE  IInv'
<1>1. TypeOK'
  BY DEF IInv, TypeOK, EndReextract, Count, readers, JobStates, TwoOrMore, Closed,
     FieldsInv
<1>2. AttemptsInv'
  BY DEF IInv, AttemptsInv, EndReextract, readers, OpenJobsHaveAttemptsLeft
<1>3. RowFollowsReader'
  BY DEF IInv, RowFollowsReader, EndReextract, readers
<1>4. OneReader'
  BY DEF IInv, OneReader, EndReextract, readers, InHand
<1>5. SucceededMeansReadable'
  BY DEF IInv, SucceededMeansReadable, EndReextract
<1>6. FieldsInv'
  BY DEF IInv, FieldsInv, EndReextract, readers, TypeOK
<1>7. FieldsNotDoubled'
  BY DEF IInv, FieldsNotDoubled, EndReextract, Count, TypeOK, FieldsInv,
     TwoOrMore, Closed
<1> QED
  BY <1>1, <1>2, <1>3, <1>4, <1>5, <1>6, <1>7 DEF IInv

LEMMA StutterStep ==
  ASSUME IInv, UNCHANGED vars
  PROVE  IInv'
BY DEF IInv, TypeOK, AttemptsInv, OpenJobsHaveAttemptsLeft, RowFollowsReader,
   OneReader, SucceededMeansReadable, FieldsInv, FieldsNotDoubled, vars, InHand

-------------------------------------------------------------------------------
(* Theorems *)

LEMMA InitIInv == Init => IInv
<1> SUFFICES ASSUME Init PROVE IInv
  OBVIOUS
<1>1. TypeOK
  <2>1. 0 \in 0..MaxAttempts /\ 0 \in 0..TwoOrMore /\ Closed \in 0..Closed
    BY MaxAttemptsAssumption DEF TwoOrMore, Closed
  <2> QED
    BY <2>1 DEF Init, TypeOK, JobStates, LockStates, Marks, Points
<1>2. AttemptsInv
  BY MaxAttemptsAssumption DEF Init, AttemptsInv, OpenJobsHaveAttemptsLeft
<1>3. RowFollowsReader /\ OneReader
  BY DEF Init, RowFollowsReader, OneReader, InHand
<1>4. SucceededMeansReadable /\ FieldsInv /\ FieldsNotDoubled
  BY DEF Init, SucceededMeansReadable, FieldsInv, FieldsNotDoubled
<1> QED
  BY <1>1, <1>2, <1>3, <1>4 DEF IInv

LEMMA NextIInv == IInv /\ [Next]_vars => IInv'
<1> SUFFICES ASSUME IInv, [Next]_vars PROVE IInv'
  OBVIOUS
<1>1. CASE Submit
  BY <1>1, SubmitStep
<1>2. ASSUME NEW d \in Docs,
             \/ Enqueue(d) \/ Reset(d) \/ LockAges(d) \/ BackoffEnds(d)
             \/ BeginReextract(d) \/ EndReextract(d)
      PROVE  IInv'
  BY <1>2, EnqueueStep, ResetStep, LockAgesStep, BackoffEndsStep, BeginReextractStep,
     EndReextractStep
<1>3. ASSUME NEW s \in Servers, TakesJobs(s) \/ ClearExpiredLocks(s) \/ Crash(s)
      PROVE  IInv'
  BY <1>3, LockJobsStep, ClearExpiredLocksStep, CrashStep DEF TakesJobs
<1>4. ASSUME NEW s \in Servers, NEW d \in Docs, Reads(s, d)
      PROVE  IInv'
  <2>1. ASSUME NEW why \in Failures \ {"limited"}, RecordFailure(s, d, why)
        PROVE  IInv'
    BY <2>1, RecordFailureStep
  <2> QED
    BY <1>4, <2>1, SaveStep, WipeFieldsStep, WipeAfterReextractStep, InsertFieldsStep,
              MirrorFailureStep DEF Reads
<1>5. ASSUME NEW s \in Servers, NEW d \in Docs,
             FailureLost(s, d) \/ SaveUnanswered(s, d) \/ RecordFailure(s, d, "limited")
      PROVE  IInv'
  <2>1. "limited" \in Failures
    BY DEF Failures
  <2> QED
    BY <1>5, <2>1, FailureLostStep, SaveUnansweredStep, RecordFailureStep
<1>6. CASE UNCHANGED vars
  BY <1>6, StutterStep
<1> QED
  BY <1>1, <1>2, <1>3, <1>4, <1>5, <1>6 DEF Next, Calm, Trouble

\* What the properties below follow from holds in every reachable state.
THEOREM Inductive == Spec => []IInv
BY InitIInv, NextIInv, PTL DEF Spec

\* Every variable keeps its type, and no job is tried more than max_attempts times.
THEOREM TypeCorrect == Spec => []TypeOK
<1>1. IInv => TypeOK
  BY DEF IInv
<1> QED
  BY Inductive, <1>1, PTL

\* One server reads a document at a time, unless its reader was overtaken.
THEOREM ReadersExclude == Spec => []OneReader
<1>1. IInv => OneReader
  BY DEF IInv
<1> QED
  BY Inductive, <1>1, PTL

\* A job that can still be taken has attempts left, whatever old count was written.
THEOREM AttemptsLast == Spec => []OpenJobsHaveAttemptsLeft
<1>1. IInv => OpenJobsHaveAttemptsLeft
  BY DEF IInv, AttemptsInv
<1> QED
  BY Inductive, <1>1, PTL

\* A job that says 'succeeded' has its text, and its document says 'completed'.
THEOREM SuccessIsReadable == Spec => []SucceededMeansReadable
<1>1. IInv => SucceededMeansReadable
  BY DEF IInv
<1> QED
  BY Inductive, <1>1, PTL

\* The parsed fields of a document are there once.
THEOREM FieldsAreThereOnce == Spec => []FieldsNotDoubled
<1>1. IInv => FieldsNotDoubled
  BY DEF IInv
<1> QED
  BY Inductive, <1>1, PTL

\* Only a person takes a success back.
THEOREM SuccessStays == Spec => SuccessIsFinal
<1> DEFINE Final == \A d \in Docs \ overlapped :
                      job[d] = "succeeded" => job'[d] \in {"succeeded", "queued"}
<1>1. IInv /\ [Next]_vars => Final
  <2> SUFFICES ASSUME IInv, [Next]_vars,
                      NEW d \in Docs \ overlapped, job[d] = "succeeded"
               PROVE  job'[d] \in {"succeeded", "queued"}
    OBVIOUS
  <2>1. ASSUME NEW e \in Docs, Enqueue(e) \/ Reset(e)
        PROVE  job'[d] \in {"succeeded", "queued"}
    BY <2>1 DEF IInv, TypeOK, Enqueue, Reset
  <2>2. ASSUME NEW s \in Servers, NEW taken \in SUBSET Docs, LockJobs(s, taken)
        PROVE  job'[d] = "succeeded"
    BY <2>2 DEF LockJobs, Claimable, WaitingStates, Abandoned
  <2>3. ASSUME NEW s \in Servers, NEW e \in Docs, SaveResult(s, e)
        PROVE  job'[d] = "succeeded"
    BY <2>3 DEF IInv, TypeOK, SaveResult
  <2>4. ASSUME NEW s \in Servers, NEW e \in Docs, NEW why \in Failures, RecordFailure(s, e, why)
        PROVE  job'[d] = "succeeded"
    BY <2>4 DEF IInv, TypeOK, RowFollowsReader, RecordFailure
  <2>5. "limited" \in Failures
    BY DEF Failures
  <2> QED
    BY <2>1, <2>2, <2>3, <2>4, <2>5 DEF Next, Calm, Trouble, TakesJobs, Reads, Save,
              SaveUnanswered, vars, Submit, LockAges, BackoffEnds, BeginReextract,
              EndReextract, ClearExpiredLocks, WipeFields, WipeAfterReextract, InsertFields,
              MirrorFailure, FailureLost, Crash, rows
<1> QED
  BY Inductive, <1>1, PTL DEF Spec, SuccessIsFinal

-------------------------------------------------------------------------------
(* The rows of ocr_jobs are retried jobs *)

Reading(s, d) == pc[s][d] = "reading"

\* Who reads a document after a step.
SameReaders(d) == \A t \in Servers : Reading(t, d)' <=> Reading(t, d)
LosesReader(d, s) ==
  /\ Reading(s, d) /\ ~Reading(s, d)'
  /\ \A t \in Servers \ {s} : Reading(t, d)' <=> Reading(t, d)
GainsReader(d, s) ==
  /\ Reading(s, d)'
  /\ \A t \in Servers \ {s} : Reading(t, d)' <=> Reading(t, d)

\* All that a step of the system may do to the row of one document ...
RowChange(d) ==
  \/ /\ UNCHANGED <<job[d], attempts[d]>>
     /\ SameReaders(d) \/ \E s \in Servers : LosesReader(d, s)
  \/ /\ job[d] = "none" /\ job'[d] = "queued"
     /\ UNCHANGED attempts[d] /\ SameReaders(d)
  \/ /\ job[d] # "none" /\ job'[d] = "queued" /\ attempts'[d] = 0
     /\ SameReaders(d)
     /\ d \notin overlapped' => ~InHands(d)
  \/ \E s \in Servers :
       /\ Claimable(d) /\ job'[d] = "processing"
       /\ UNCHANGED attempts[d] /\ GainsReader(d, s)
  \/ \E s \in Servers :
       /\ job'[d] = "succeeded" /\ UNCHANGED attempts[d]
       /\ LosesReader(d, s) \/ (SameReaders(d) /\ d \in overlapped')
  \/ \E s \in Servers :
       /\ job'[d] \in {"failed", "canceled"}
       /\ attempts'[d] \in {snap[s][d], snap[s][d] + 1}
       /\ LosesReader(d, s)

\* ... to what its readers know, and to what is known of them.
KnownChange(d) ==
  /\ overlapped \subseteq overlapped'
  /\ d \in overlapped' => d \in overlapped \/ InHands(d)
  /\ InHands(d)' => InHands(d) \/ job'[d] = "processing"
  /\ \A t \in Servers :
       Reading(t, d)' => \/ Reading(t, d) /\ snap'[t][d] = snap[t][d]
                         \/ snap'[t][d] = attempts'[d]

DocStep(d) == RowChange(d) /\ KnownChange(d)

\* A document somebody works on has a row, and as long as nobody overtakes its
\* reader the count the reader goes by is the one in the row.
QueueInv ==
  /\ \A d \in Docs : InHands(d) \/ d \in overlapped => job[d] # "none"
  /\ \A d \in Docs \ overlapped, s \in Servers :
       Reading(s, d) => snap[s][d] = attempts[d]

\* A step that writes no row and moves no reader.
LEMMA RestStep ==
  ASSUME UNCHANGED <<job, attempts, pc, snap>>,
         overlapped \subseteq overlapped',
         \A d \in Docs : d \in overlapped' => d \in overlapped \/ InHands(d),
         NEW e \in Docs
  PROVE  DocStep(e)
BY DEF DocStep, RowChange, KnownChange, SameReaders, Reading, InHands, InHand

\* A step of one reader that writes no row.
LEMMA ReaderMoves ==
  ASSUME IInv, NEW s \in Servers, NEW d \in Docs, InHand(s, d),
         NEW point \in Points \ {"reading"}, GoTo(s, d, point),
         UNCHANGED <<job, attempts>>,
         snap' = snap \/ snap' = [snap EXCEPT ![s][d] = 0],
         overlapped' = overlapped \/ Overtaken({d}),
         NEW e \in Docs
  PROVE  DocStep(e)
<1>1. \A t \in Servers, c \in Docs :
        pc'[t][c] = IF t = s /\ c = d THEN point ELSE pc[t][c]
  BY DEF IInv, TypeOK, GoTo
<1>2. \A t \in Servers, c \in Docs : ~(t = s /\ c = d) => snap'[t][c] = snap[t][c]
  BY DEF IInv, TypeOK
<1>3. RowChange(e)
  BY <1>1 DEF RowChange, SameReaders, LosesReader, Reading
<1>4. KnownChange(e)
  <2>1. InHands(e)' => InHands(e)
    BY <1>1 DEF InHands, InHand
  <2>2. e \in overlapped' => e \in overlapped \/ InHands(e)
    BY DEF Overtaken, InHands
  <2> QED
    BY <1>1, <1>2, <2>1, <2>2 DEF KnownChange, Overtaken, Reading
<1> QED
  BY <1>3, <1>4 DEF DocStep

LEMMA RowsStep ==
  ASSUME NEW d \in Docs, Enqueue(d) \/ Reset(d), IInv, NEW e \in Docs
  PROVE  DocStep(e)
<1>1. UNCHANGED <<pc, snap>>
  BY DEF Enqueue, Reset, readers
<1>2. CASE Enqueue(d)
  BY <1>1, <1>2 DEF IInv, TypeOK, Enqueue, DocStep, RowChange, KnownChange, SameReaders,
     Reading, InHands, InHand
<1>3. CASE Reset(d)
  <2>1. KnownChange(e)
    BY <1>1, <1>3 DEF Reset, Overtaken, KnownChange, Reading, InHands, InHand
  <2>2. RowChange(e)
    BY <1>1, <1>3 DEF IInv, TypeOK, Reset, Overtaken, RowChange, SameReaders, Reading
  <2> QED
    BY <2>1, <2>2 DEF DocStep
<1> QED
  BY <1>2, <1>3

LEMMA TakenStep ==
  ASSUME IInv, NEW s \in Servers, NEW taken \in SUBSET Docs, LockJobs(s, taken),
         NEW e \in Docs
  PROVE  DocStep(e)
<1>1. \A t \in Servers, c \in Docs :
        /\ pc'[t][c] = IF t = s THEN IF c \in taken THEN "reading" ELSE "idle"
                                ELSE pc[t][c]
        /\ snap'[t][c] = IF t = s THEN IF c \in taken THEN attempts[c] ELSE 0
                                  ELSE snap[t][c]
  BY DEF IInv, TypeOK, LockJobs
<1>2. /\ UNCHANGED <<attempts, overlapped>>
      /\ job'[e] = IF e \in taken THEN "processing" ELSE job[e]
      /\ e \in taken => Claimable(e)
      /\ pc[s][e] = "idle"
  BY DEF LockJobs, Resting, InHand
<1>3. RowChange(e)
  BY <1>1, <1>2 DEF RowChange, SameReaders, GainsReader, Reading
<1>4. KnownChange(e)
  BY <1>1, <1>2 DEF KnownChange, Reading, InHands, InHand
<1> QED
  BY <1>3, <1>4 DEF DocStep

LEMMA SavedStep ==
  ASSUME IInv, NEW s \in Servers, NEW d \in Docs,
         Save(s, d) \/ SaveUnanswered(s, d), NEW e \in Docs
  PROVE  DocStep(e)
<1>1. /\ Reading(s, d) /\ UNCHANGED <<attempts, snap>>
      /\ \A c \in Docs : job'[c] = IF c = d THEN "succeeded" ELSE job[c]
  BY DEF IInv, TypeOK, Save, SaveUnanswered, SaveResult, Reading
<1>2. InHand(s, d)
  BY <1>1 DEF Reading, InHand
<1>3. CASE Save(s, d)
  <2>1. \A t \in Servers, c \in Docs :
          pc'[t][c] = IF t = s /\ c = d THEN "saved" ELSE pc[t][c]
    BY <1>3 DEF IInv, TypeOK, Save, GoTo
  <2>2. RowChange(e)
    BY <1>1, <2>1 DEF RowChange, SameReaders, LosesReader, Reading
  <2>3. InHands(e)' => InHands(e)
    BY <1>2, <2>1 DEF InHands, InHand
  <2>4. KnownChange(e)
    BY <1>1, <1>3, <2>1, <2>3 DEF KnownChange, Reading, Save
  <2> QED
    BY <2>2, <2>4 DEF DocStep
<1>4. CASE SaveUnanswered(s, d)
  <2>1. pc' = pc /\ overlapped' = overlapped \cup {d}
    BY <1>4 DEF SaveUnanswered, Overtaken
  <2>2. RowChange(e)
    BY <1>1, <2>1 DEF RowChange, SameReaders, Reading
  <2>3. KnownChange(e)
    BY <1>1, <1>2, <2>1 DEF KnownChange, Reading, InHands, InHand
  <2> QED
    BY <2>2, <2>3 DEF DocStep
<1> QED
  BY <1>3, <1>4

LEMMA FailedStep ==
  ASSUME IInv, NEW s \in Servers, NEW d \in Docs, NEW why \in Failures,
         RecordFailure(s, d, why), NEW e \in Docs
  PROVE  DocStep(e)
<1> DEFINE n == NextAttempt(snap[s][d], why)
<1>1. /\ Reading(s, d) /\ n \in {snap[s][d], snap[s][d] + 1}
      /\ \A c \in Docs : attempts'[c] = IF c = d THEN n ELSE attempts[c]
      /\ \A c \in Docs : IF c = d THEN job'[c] \in {"failed", "canceled"}
                                  ELSE job'[c] = job[c]
      /\ UNCHANGED overlapped
  BY DEF IInv, TypeOK, RecordFailure, NextAttempt, Reading
<1> HIDE DEF n
<1>2. /\ \E point \in {"mirror", "idle"} : pc' = [pc EXCEPT ![s][d] = point]
      /\ snap' = snap \/ snap' = [snap EXCEPT ![s][d] = 0]
  BY DEF RecordFailure, Done, GoTo
<1>3. \A t \in Servers, c \in Docs :
        IF t = s /\ c = d THEN pc'[t][c] \in {"mirror", "idle"}
                          ELSE pc'[t][c] = pc[t][c] /\ snap'[t][c] = snap[t][c]
  BY <1>2 DEF IInv, TypeOK
<1>4. RowChange(e)
  BY <1>1, <1>3 DEF RowChange, SameReaders, LosesReader, Reading
<1>5. InHands(e)' => InHands(e)
  BY <1>1, <1>3 DEF InHands, InHand, Reading
<1>6. KnownChange(e)
  BY <1>1, <1>3, <1>5 DEF KnownChange, Reading
<1> QED
  BY <1>4, <1>6 DEF DocStep

LEMMA CrashedStep ==
  ASSUME IInv, NEW s \in Servers, Crash(s), NEW e \in Docs
  PROVE  DocStep(e)
<1>1. \A t \in Servers, c \in Docs :
        IF t = s THEN pc'[t][c] = "idle"
                 ELSE pc'[t][c] = pc[t][c] /\ snap'[t][c] = snap[t][c]
  BY DEF IInv, TypeOK, Crash
<1>2. UNCHANGED <<job, attempts, overlapped>>
  BY DEF Crash, rows
<1>3. RowChange(e)
  BY <1>1, <1>2 DEF RowChange, SameReaders, LosesReader, Reading
<1>4. InHands(e)' => InHands(e)
  BY <1>1 DEF InHands, InHand
<1>5. KnownChange(e)
  BY <1>1, <1>2, <1>4 DEF KnownChange, Reading
<1> QED
  BY <1>3, <1>5 DEF DocStep

LEMMA EveryDocStep ==
  ASSUME IInv, [Next]_vars, NEW e \in Docs
  PROVE  DocStep(e)
<1> USE DEF Points
<1>1. CASE Submit \/ (\E s \in Servers : ClearExpiredLocks(s)) \/ UNCHANGED vars
  <2>1. UNCHANGED <<job, attempts, pc, snap, overlapped>>
    BY <1>1 DEF Submit, ClearExpiredLocks, readers, vars
  <2> QED
    BY <2>1, RestStep
<1>2. ASSUME NEW d \in Docs,
             \/ LockAges(d) \/ BackoffEnds(d) \/ BeginReextract(d) \/ EndReextract(d)
      PROVE  DocStep(e)
  <2>1. UNCHANGED <<job, attempts, pc, snap>>
    BY <1>2 DEF LockAges, BackoffEnds, BeginReextract, EndReextract, readers, rows
  <2>2. overlapped' = overlapped \/ (InHands(d) /\ overlapped' = overlapped \cup {d})
    BY <1>2 DEF LockAges, BackoffEnds, BeginReextract, EndReextract, Overtaken
  <2> QED
    BY <2>1, <2>2, RestStep
<1>3. ASSUME NEW s \in Servers, NEW d \in Docs,
             WipeFields(s, d) \/ WipeAfterReextract(s, d) \/ InsertFields(s, d)
      PROVE  DocStep(e)
  <2>1. \E point \in {"wiped", "idle"} : GoTo(s, d, point)
    BY <1>3 DEF WipeFields, WipeAfterReextract, InsertFields, Done
  <2>2. /\ InHand(s, d) /\ UNCHANGED <<job, attempts>>
        /\ snap' = snap \/ snap' = [snap EXCEPT ![s][d] = 0]
        /\ overlapped' = overlapped \/ Overtaken({d})
    BY <1>3 DEF WipeFields, WipeAfterReextract, InsertFields, Done, InHand, Overtaken
  <2> QED
    BY <2>1, <2>2, ReaderMoves
<1>4. ASSUME NEW s \in Servers, NEW d \in Docs, MirrorFailure(s, d) \/ FailureLost(s, d)
      PROVE  DocStep(e)
  <2>1. /\ InHand(s, d) /\ GoTo(s, d, "idle") /\ UNCHANGED <<job, attempts, overlapped>>
        /\ snap' = [snap EXCEPT ![s][d] = 0]
    BY <1>4 DEF MirrorFailure, FailureLost, Done, InHand, rows
  <2> QED
    BY <2>1, ReaderMoves
<1>5. ASSUME NEW s \in Servers, NEW d \in Docs, NEW why \in Failures,
             RecordFailure(s, d, why)
      PROVE  DocStep(e)
  BY <1>5, FailedStep
<1>6. "limited" \in Failures
  BY DEF Failures
<1> QED
  BY <1>1, <1>2, <1>3, <1>4, <1>5, <1>6, RowsStep, TakenStep, SavedStep, CrashedStep
  DEF Next, Calm, Trouble, TakesJobs, Reads

LEMMA NextQueueInv ==
  ASSUME IInv, QueueInv, [Next]_vars
  PROVE  QueueInv'
<1>1. \A e \in Docs : DocStep(e)
  BY EveryDocStep
<1>2. ASSUME NEW d \in Docs, InHands(d)' \/ d \in overlapped'
      PROVE  job'[d] # "none"
  BY <1>1, <1>2 DEF QueueInv, DocStep, RowChange, KnownChange
<1>3. ASSUME NEW d \in Docs \ overlapped', NEW s \in Servers, Reading(s, d)'
      PROVE  snap'[s][d] = attempts'[d]
  <2>1. DocStep(d) /\ d \notin overlapped
    BY <1>1 DEF DocStep, KnownChange
  <2>2. CASE attempts'[d] = attempts[d]
    BY <1>3, <2>1, <2>2 DEF QueueInv, DocStep, KnownChange
  <2>3. CASE Reading(s, d) /\ attempts'[d] # attempts[d]
    <3>1. \A t \in Servers : Reading(t, d) => t = s
      BY <2>1, <2>3 DEF IInv, OneReader, InHand, Reading
    <3> QED
      BY <1>3, <2>1, <2>3, <3>1
      DEF DocStep, RowChange, LosesReader, SameReaders, InHands, InHand, Reading
  <2> QED
    BY <1>3, <2>1, <2>2, <2>3 DEF DocStep, KnownChange
<1> QED
  BY <1>2, <1>3 DEF QueueInv

\* One step, seen by the abstract queue: of a document nobody overtook ...
LEMMA QuietDoc ==
  ASSUME IInv, QueueInv, IInv', NEW d \in Docs \ overlapped', DocStep(d)
  PROVE  Queue!Step(d)
<1> DEFINE R == {s \in Servers : pc[s][d] = "reading"}
<1>0. d \notin overlapped
  BY DEF DocStep, KnownChange
<1>1. \A s \in Servers : Reading(s, d) => R = {s}
  BY <1>0 DEF IInv, OneReader, InHand, Reading
<1>2. SameReaders(d) => R' = R
  BY DEF SameReaders, Reading
<1>3. \A s \in Servers : LosesReader(d, s) => R = {s} /\ R' = {}
  BY <1>1 DEF LosesReader, Reading
<1>4. \A s \in Servers : Claimable(d) /\ GainsReader(d, s) => R = {} /\ R' = {s}
  <2>1. Claimable(d) => \A s \in Servers : ~Reading(s, d)
    BY <1>0 DEF IInv, RowFollowsReader, Claimable, OpenLock, Reading
  <2> QED
    BY <2>1 DEF GainsReader, Reading
<1> USE DEF Queue!Step
<1>5. CASE /\ UNCHANGED <<job[d], attempts[d]>>
           /\ SameReaders(d) \/ \E s \in Servers : LosesReader(d, s)
  BY <1>2, <1>3, <1>5 DEF Queue!Keep, Queue!Lose
<1>6. CASE /\ job[d] = "none" /\ job'[d] = "queued"
           /\ UNCHANGED attempts[d] /\ SameReaders(d)
  BY <1>2, <1>6 DEF Queue!Enqueue, RowStatus
<1>7. CASE /\ job[d] # "none" /\ job'[d] = "queued" /\ attempts'[d] = 0
           /\ SameReaders(d) /\ ~InHands(d)
  <2>1. R = {}
    BY <1>7 DEF InHands, InHand
  <2> QED
    BY <1>2, <1>7, <2>1 DEF IInv, TypeOK, JobStates, Queue!Reset, RowStatus
<1>8. ASSUME NEW s \in Servers, Claimable(d), job'[d] = "processing",
             UNCHANGED attempts[d], GainsReader(d, s)
      PROVE  Queue!Step(d)
  <2>1. RowStatus(job[d]) \in {"waiting", "running"} /\ RowStatus(job'[d]) = "running"
    BY <1>8 DEF Claimable, WaitingStates, Abandoned, RowStatus
  <2>2. Queue!Claim(d, s)
    BY <1>4, <1>8, <2>1 DEF Queue!Claim, Queue!Open
  <2> QED
    BY <2>2
<1>9. ASSUME NEW s \in Servers, job'[d] = "succeeded", UNCHANGED attempts[d],
             LosesReader(d, s)
      PROVE  Queue!Step(d)
  <2>1. Queue!Finish(d, s)
    BY <1>3, <1>9 DEF Queue!Finish, RowStatus
  <2> QED
    BY <2>1
<1>10. ASSUME NEW s \in Servers, job'[d] \in {"failed", "canceled"},
              attempts'[d] \in {snap[s][d], snap[s][d] + 1}, LosesReader(d, s)
       PROVE  Queue!Step(d)
  <2>1. attempts'[d] \in {attempts[d], attempts[d] + 1}
    BY <1>0, <1>10 DEF QueueInv, LosesReader
  <2>2. \/ RowStatus(job'[d]) = "givenUp"
        \/ RowStatus(job'[d]) = "waiting" /\ attempts'[d] < MaxAttempts
    BY <1>10 DEF IInv, AttemptsInv, OpenJobsHaveAttemptsLeft, RowStatus
  <2>3. Queue!Fail(d, s)
    BY <1>3, <1>10, <2>1, <2>2 DEF Queue!Fail
  <2> QED
    BY <2>3
<1> QED
  BY <1>5, <1>6, <1>7, <1>8, <1>9, <1>10 DEF DocStep, RowChange

\* ... and of one whose reader may have been overtaken.
LEMMA ContestedDoc ==
  ASSUME IInv', QueueInv', NEW d \in Docs, d \in overlapped'
  PROVE  Queue!Contest(d)
<1>1. /\ job'[d] \in JobStates \ {"none"} /\ attempts'[d] \in 0..MaxAttempts
      /\ job'[d] \in {"queued", "processing", "failed"} => attempts'[d] < MaxAttempts
  BY DEF IInv, TypeOK, QueueInv, AttemptsInv, OpenJobsHaveAttemptsLeft
<1>2. /\ RowStatus(job'[d]) \in Queue!Statuses \ {"none"}
      /\ RowStatus(job'[d]) \in Queue!Open =>
           job'[d] \in {"queued", "processing", "failed"}
  BY <1>1 DEF JobStates, RowStatus, Queue!Statuses, Queue!Open
<1> QED
  BY <1>1, <1>2 DEF Queue!Contest

\* OcrJobs implements RetriedJobs: for any number of servers, documents and
\* attempts, whoever stalls, dies or is overtaken (ocr.repo.ts:69-260).
THEOREM JobsRetried == Spec => JobsAreRetried
<1>1. Init => IInv /\ QueueInv /\ Queue!Init
  <2>1. Init => QueueInv
    BY DEF Init, QueueInv, InHands, InHand, Reading
  <2>2. Init => Queue!Init
    <3> SUFFICES ASSUME Init PROVE Queue!Init
      OBVIOUS
    <3>1. \A d \in Docs : RowStatus(job[d]) = "none"
      BY DEF Init, RowStatus
    <3>2. \A d \in Docs : {s \in Servers : pc[s][d] = "reading"} = {}
      BY DEF Init
    <3>3. attempts = [d \in Docs |-> 0] /\ overlapped = {}
      BY DEF Init
    <3> QED
      BY <3>1, <3>2, <3>3 DEF Queue!Init
  <2> QED
    BY <2>1, <2>2, InitIInv
<1>2. IInv /\ QueueInv /\ [Next]_vars => IInv' /\ QueueInv'
  BY NextIInv, NextQueueInv
<1>3. IInv /\ QueueInv /\ [Next]_vars => [Queue!Next]_(Queue!vars)
  <2> SUFFICES ASSUME IInv, QueueInv, [Next]_vars PROVE Queue!Next
    OBVIOUS
  <2>1. IInv' /\ QueueInv'
    BY <1>2
  <2>2. \A d \in Docs : DocStep(d)
    BY EveryDocStep
  <2>3. \A d \in Docs : d \in overlapped' => Queue!Contest(d)
    BY <2>1, ContestedDoc
  <2>4. \A d \in Docs : d \notin overlapped' => Queue!Step(d)
    BY <2>1, <2>2, QuietDoc
  <2>5. overlapped \subseteq overlapped'
    BY <2>2 DEF DocStep, KnownChange, IInv, TypeOK
  <2> QED
    BY <2>3, <2>4, <2>5 DEF Queue!Next
<1> QED
  BY <1>1, <1>2, <1>3, PTL DEF Spec, JobsAreRetried, Queue!Spec

-------------------------------------------------------------------------------
(* What RetriedJobsProofs says of the rows of ocr_jobs *)

Rows == INSTANCE RetriedJobsProofs
  WITH Jobs <- Docs, Runners <- Servers, Limit <- MaxAttempts,
       status <- [d \in Docs |-> RowStatus(job[d])],
       owners <- [d \in Docs |-> {s \in Servers : pc[s][d] = "reading"}],
       contested <- overlapped

LEMMA RowsRetried == Spec => Rows!Spec
<1>1. Queue!Init => Rows!Init
  BY DEF Queue!Init, Rows!Init
<1>2. [Queue!Next]_(Queue!vars) => [Rows!Next]_(Rows!vars)
  <2>1. Queue!vars = Rows!vars /\ Queue!vars' = Rows!vars'
    BY DEF Queue!vars, Rows!vars
  <2>2. \A d \in Docs : Queue!Step(d) => Rows!Step(d)
    BY DEF Queue!Step, Queue!Keep, Queue!Enqueue, Queue!Lose, Queue!Reset, Queue!Claim,
       Queue!CountFailure, Queue!Finish, Queue!Fail, Queue!Open, Rows!Step, Rows!Keep,
       Rows!Enqueue, Rows!Lose, Rows!Reset, Rows!Claim, Rows!CountFailure,
       Rows!Finish, Rows!Fail, Rows!Open
  <2>3. \A d \in Docs : Queue!Contest(d) => Rows!Contest(d)
    BY DEF Queue!Contest, Queue!Statuses, Queue!Open, Rows!Contest, Rows!Statuses,
       Rows!Open
  <2>4. Queue!Next => Rows!Next
    BY <2>2, <2>3 DEF Queue!Next, Rows!Next
  <2> QED
    BY <2>1, <2>4
<1> QED
  BY JobsRetried, <1>1, <1>2, PTL DEF JobsAreRetried, Queue!Spec, Rows!Spec

\* 'succeeded' and 'canceled' stand until staff re-run the job, which then has all
\* its attempts (ocr.repo.ts:241-247).
THEOREM OutcomesStand == Spec => Rows!OutcomeStands
<1>1. Rows!Spec => Rows!OutcomeStands
  BY Rows!OutcomesStand, MaxAttemptsAssumption
<1> QED
  BY RowsRetried, <1>1, PTL

\* As long as nobody overtakes its reader, no step takes a counted failure back but
\* the one by which staff re-run the job (ocr.service.ts:756, ocr.repo.ts:200).
THEOREM FailuresCount == Spec => Rows!NoFailureForgotten
<1>1. Rows!Spec => Rows!NoFailureForgotten
  BY Rows!FailuresCount
<1> QED
  BY RowsRetried, <1>1, PTL

=============================================================================
