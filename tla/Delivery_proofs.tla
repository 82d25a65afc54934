--------------------------- MODULE Delivery_proofs ---------------------------
(***************************************************************************)
(* Notifications implements Delivery, for every number of rows, jobs,      *)
(* requests and workers and every limit: two more facts about rows and     *)
(* attempts are inductive on top of Inv, and with them every step is a     *)
(* step of Delivery or leaves its variables alone.                         *)
(***************************************************************************)
EXTENDS Notifications_proofs

-----------------------------------------------------------------------------
(* Rows and attempts *)

\* Nobody works for a row that does not exist.
LEMMA RowsExist == Spec => []RowInv
<1>1. Init => RowInv
  BY NotificationsAssumption DEF Init, RowInv, IdleCaller
<1>2. Inv /\ RowInv /\ [Next]_vars => RowInv'
  <2> SUFFICES ASSUME Inv, RowInv, [Next]_vars PROVE RowInv'
    OBVIOUS
  <2> USE NotificationsAssumption
      DEF Inv, TypeOK, QueueInv, RowInv, MessageStatus
  <2>1. ASSUME NEW c \in Callers, NEW l \in Logs, InsertLog(c, l) PROVE RowInv'
    BY <2>1 DEF InsertLog, queue, ghost, CallerState, IdleCaller
  <2>2. ASSUME NEW c \in Callers, NEW l \in Logs, FindLog(c, l) PROVE RowInv'
    BY <2>2 DEF FindLog, rows, queue, ghost, CallerState, IdleCaller
  <2>3. ASSUME NEW c \in Callers, ResetLog(c) PROVE RowInv'
    BY <2>3 DEF ResetLog, queue, ghost, CallerState, IdleCaller
  <2>4. ASSUME NEW c \in Callers, NEW j \in Jobs, AddJob(c, j) PROVE RowInv'
    BY <2>4 DEF AddJob, rows, CallerState, IdleCaller
  <2>5. ASSUME NEW c \in Callers, AddJobFails(c) PROVE RowInv'
    BY <2>5 DEF AddJobFails, rows, queue, CallerState, IdleCaller
  <2>6. ASSUME NEW w \in Workers, NEW j \in Jobs, TakeJob(w, j) PROVE RowInv'
    BY <2>6 DEF TakeJob, rows, ghost, WorkerState, IdleWorker
  <2>7. ASSUME NEW w \in Workers, SendAccepted(w) PROVE RowInv'
    BY <2>7 DEF SendAccepted, rows, queue, WorkerState
  <2>8. ASSUME NEW w \in Workers, SendRejected(w) PROVE RowInv'
    BY <2>8 DEF SendRejected, rows, queue, ghost, WorkerState
  <2>9. ASSUME NEW w \in Workers, MarkSent(w) PROVE RowInv'
    BY <2>9 DEF MarkSent, queue, WorkerState
  <2>10. ASSUME NEW w \in Workers, MarkSentFails(w) PROVE RowInv'
    BY <2>10 DEF MarkSentFails, rows, queue, WorkerState
  <2>11. ASSUME NEW w \in Workers, MarkFailed(w) PROVE RowInv'
    BY <2>11 DEF MarkFailed, queue, WorkerState
  <2>12. ASSUME NEW w \in Workers, MarkFailedFails(w) PROVE RowInv'
    BY <2>12 DEF MarkFailedFails, rows, queue, WorkerState
  <2>13. ASSUME NEW w \in Workers, CompleteJob(w) PROVE RowInv'
    BY <2>13 DEF CompleteJob, rows, ghost, WorkerState, IdleWorker
  <2>14. ASSUME NEW w \in Workers, RetryOrFailJob(w) PROVE RowInv'
    BY <2>14 DEF RetryOrFailJob, rows, ghost, WorkerState, IdleWorker
  <2>15. ASSUME NEW j \in Jobs, StalledJob(j) PROVE RowInv'
    BY <2>15 DEF StalledJob, rows, Held, WorkerState
  <2>16. CASE Crash
    BY <2>16 DEF Crash, rows, queue, CallerState, IdleCaller, WorkerState,
       IdleWorker
  <2>17. CASE UNCHANGED vars
    BY <2>17 DEF vars
  <2> QED
    BY <2>1, <2>2, <2>3, <2>4, <2>5, <2>6, <2>7, <2>8, <2>9,
       <2>10, <2>11, <2>12, <2>13, <2>14, <2>15, <2>16, <2>17
       DEF Next, CallerStep, Process
<1> QED
  BY <1>1, <1>2, QueueIsSound, PTL DEF Spec

\* Every acceptance was paid for with an attempt or a stall of its job.
LEMMA AttemptsPayForSends == Spec => []BoundInv
<1>1. Init => BoundInv
  BY NotificationsAssumption DEF Init, BoundInv, IdleWorker
<1>2. Inv /\ BoundInv /\ [Next]_vars => BoundInv'
  <2> SUFFICES ASSUME Inv, BoundInv, [Next]_vars PROVE BoundInv'
    OBVIOUS
  <2> USE NotificationsAssumption DEF Inv, TypeOK, QueueInv, BoundInv
  <2>1. ASSUME NEW c \in Callers, NEW l \in Logs, InsertLog(c, l) PROVE BoundInv'
    BY <2>1 DEF InsertLog, queue, ghost, CallerState, IdleCaller
  <2>2. ASSUME NEW c \in Callers, NEW l \in Logs, FindLog(c, l) PROVE BoundInv'
    BY <2>2 DEF FindLog, rows, queue, ghost, CallerState, IdleCaller
  <2>3. ASSUME NEW c \in Callers, ResetLog(c) PROVE BoundInv'
    BY <2>3 DEF ResetLog, queue, ghost, CallerState, IdleCaller
  <2>4. ASSUME NEW c \in Callers, NEW j \in Jobs, AddJob(c, j) PROVE BoundInv'
    BY <2>4 DEF AddJob, rows, CallerState, IdleCaller
  <2>5. ASSUME NEW c \in Callers, AddJobFails(c) PROVE BoundInv'
    BY <2>5 DEF AddJobFails, rows, queue, CallerState, IdleCaller
  <2>6. ASSUME NEW w \in Workers, NEW j \in Jobs, TakeJob(w, j) PROVE BoundInv'
    BY <2>6 DEF TakeJob, rows, ghost, WorkerState, IdleWorker
  <2>7. ASSUME NEW w \in Workers, SendAccepted(w) PROVE BoundInv'
    BY <2>7 DEF SendAccepted, rows, queue, WorkerState
  <2>8. ASSUME NEW w \in Workers, SendRejected(w) PROVE BoundInv'
    BY <2>8 DEF SendRejected, rows, queue, ghost, WorkerState
  <2>9. ASSUME NEW w \in Workers, MarkSent(w) PROVE BoundInv'
    BY <2>9 DEF MarkSent, queue, WorkerState
  <2>10. ASSUME NEW w \in Workers, MarkSentFails(w) PROVE BoundInv'
    BY <2>10 DEF MarkSentFails, rows, queue, WorkerState
  <2>11. ASSUME NEW w \in Workers, MarkFailed(w) PROVE BoundInv'
    BY <2>11 DEF MarkFailed, queue, WorkerState
  <2>12. ASSUME NEW w \in Workers, MarkFailedFails(w) PROVE BoundInv'
    BY <2>12 DEF MarkFailedFails, rows, queue, WorkerState
  <2>13. ASSUME NEW w \in Workers, CompleteJob(w) PROVE BoundInv'
    BY <2>13 DEF CompleteJob, rows, ghost, WorkerState, IdleWorker
  <2>14. ASSUME NEW w \in Workers, RetryOrFailJob(w) PROVE BoundInv'
    BY <2>14 DEF RetryOrFailJob, rows, ghost, WorkerState, IdleWorker
  <2>15. ASSUME NEW j \in Jobs, StalledJob(j) PROVE BoundInv'
    BY <2>15 DEF StalledJob, rows, Held, WorkerState
  <2>16. CASE Crash
    BY <2>16 DEF Crash, rows, queue, CallerState, IdleCaller, WorkerState,
       IdleWorker
  <2>17. CASE UNCHANGED vars
    BY <2>17 DEF vars
  <2> QED
    BY <2>1, <2>2, <2>3, <2>4, <2>5, <2>6, <2>7, <2>8, <2>9,
       <2>10, <2>11, <2>12, <2>13, <2>14, <2>15, <2>16, <2>17
       DEF Next, CallerStep, Process
<1> QED
  BY <1>1, <1>2, QueueIsSound, PTL DEF Spec

\* A customer gets one text at most attempts + stalls times from one job.
THEOREM SendsAreBounded == Spec => []SendsBounded
<1>1. BoundInv => SendsBounded
  BY DEF BoundInv, SendsBounded
<1> QED
  BY <1>1, AttemptsPayForSends, PTL

-----------------------------------------------------------------------------
(* What FAILED means *)

\* A job no fault has hit and whose text was accepted is where FailInv says.
LEMMA AcceptedIsNotFailed == Spec => []FailInv
<1>1. Init => FailInv
  BY NotificationsAssumption DEF Init, FailInv
<1>2. Inv /\ FailInv /\ [Next]_vars => FailInv'
  <2> SUFFICES ASSUME Inv, FailInv, [Next]_vars PROVE FailInv'
    OBVIOUS
  <2> USE NotificationsAssumption
      DEF Inv, TypeOK, QueueInv, FailInv, Held, MessageStatus
  <2>1. ASSUME NEW c \in Callers, NEW l \in Logs, InsertLog(c, l) PROVE FailInv'
    BY <2>1 DEF InsertLog, queue, ghost, CallerState, IdleCaller
  <2>2. ASSUME NEW c \in Callers, NEW l \in Logs, FindLog(c, l) PROVE FailInv'
    BY <2>2 DEF FindLog, rows, queue, ghost, CallerState, IdleCaller
  <2>3. ASSUME NEW c \in Callers, ResetLog(c) PROVE FailInv'
    BY <2>3 DEF ResetLog, queue, ghost, CallerState, IdleCaller
  <2>4. ASSUME NEW c \in Callers, NEW j \in Jobs, AddJob(c, j) PROVE FailInv'
    BY <2>4 DEF AddJob, rows, CallerState, IdleCaller
  <2>5. ASSUME NEW c \in Callers, AddJobFails(c) PROVE FailInv'
    BY <2>5 DEF AddJobFails, rows, queue, CallerState, IdleCaller
  <2>6. ASSUME NEW w \in Workers, NEW j \in Jobs, TakeJob(w, j) PROVE FailInv'
    BY <2>6 DEF TakeJob, rows, ghost, WorkerState, IdleWorker
  <2>7. ASSUME NEW w \in Workers, SendAccepted(w) PROVE FailInv'
    BY <2>7 DEF SendAccepted, rows, queue, WorkerState
  <2>8. ASSUME NEW w \in Workers, SendRejected(w) PROVE FailInv'
    BY <2>8 DEF SendRejected, rows, queue, ghost, WorkerState
  <2>9. ASSUME NEW w \in Workers, MarkSent(w) PROVE FailInv'
    BY <2>9 DEF MarkSent, queue, WorkerState
  <2>10. ASSUME NEW w \in Workers, MarkSentFails(w) PROVE FailInv'
    BY <2>10 DEF MarkSentFails, rows, queue, WorkerState
  <2>11. ASSUME NEW w \in Workers, MarkFailed(w) PROVE FailInv'
    BY <2>11 DEF MarkFailed, queue, WorkerState
  <2>12. ASSUME NEW w \in Workers, MarkFailedFails(w) PROVE FailInv'
    BY <2>12 DEF MarkFailedFails, rows, queue, WorkerState
  <2>13. ASSUME NEW w \in Workers, CompleteJob(w) PROVE FailInv'
    BY <2>13 DEF CompleteJob, rows, ghost, WorkerState, IdleWorker
  <2>14. ASSUME NEW w \in Workers, RetryOrFailJob(w) PROVE FailInv'
    BY <2>14 DEF RetryOrFailJob, rows, ghost, WorkerState, IdleWorker
  <2>15. ASSUME NEW j \in Jobs, StalledJob(j) PROVE FailInv'
    BY <2>15 DEF StalledJob, rows, WorkerState
  <2>16. CASE Crash
    BY <2>16 DEF Crash, rows, queue, CallerState, IdleCaller, WorkerState,
       IdleWorker
  <2>17. CASE UNCHANGED vars
    BY <2>17 DEF vars
  <2> QED
    BY <2>1, <2>2, <2>3, <2>4, <2>5, <2>6, <2>7, <2>8, <2>9,
       <2>10, <2>11, <2>12, <2>13, <2>14, <2>15, <2>16, <2>17
       DEF Next, CallerStep, Process
<1> QED
  BY <1>1, <1>2, QueueIsSound, PTL DEF Spec

\* A row left FAILED by its only job, without a fault of that job, tells of a
\* text that never reached the customer.
THEOREM FailedIsTrue == Spec => []FailedMeansUndelivered
<1>1. Inv /\ FailInv => FailedMeansUndelivered
  BY DEF Inv, TypeOK, QueueInv, FailInv, FailedMeansUndelivered,
         JobsOf, Held
<1> QED
  BY <1>1, QueueIsSound, AcceptedIsNotFailed, PTL

-----------------------------------------------------------------------------
(* The refinement *)

\* The rest of the program may think of a Delivery: each await of the requests,
\* the processor or BullMQ is one of its steps or changes nothing it shows.
THEOREM PromiseIsKept == Spec => DeliveryPromised
<1>1. Init => Promise!Init
  BY DEF Init, Promise!Init
<1>2. Inv /\ RowInv /\ BoundInv /\ BoundInv' /\ Sent /\ [Next]_vars
        => [Promise!Next]_(Promise!vars)
  <2> SUFFICES ASSUME Inv, RowInv, BoundInv, BoundInv', Sent, [Next]_vars
               PROVE  Promise!Next \/ UNCHANGED Promise!vars
    OBVIOUS
  <2> DEFINE Goal == Promise!Next \/ UNCHANGED Promise!vars
  <2> USE NotificationsAssumption DEF Inv, TypeOK, QueueInv, Promise!vars
  <2>1. ASSUME NEW c \in Callers, NEW l \in Logs, InsertLog(c, l) PROVE Goal
    <3>1. Promise!Request(l)
      BY <2>1 DEF InsertLog, queue, ghost, Promise!Request
    <3> QED BY <3>1 DEF Promise!Next
  <2>2. ASSUME NEW c \in Callers, NEW l \in Logs, FindLog(c, l) PROVE Goal
    BY <2>2 DEF FindLog, rows, queue, ghost
  <2>3. ASSUME NEW c \in Callers, ResetLog(c) PROVE Goal
    <3>1. caller[c].log \in Logs
      BY <2>3 DEF ResetLog
    <3>2. Promise!Request(caller[c].log)
      BY <2>3 DEF ResetLog, queue, ghost, Promise!Request
    <3> QED BY <3>1, <3>2 DEF Promise!Next
  <2>4. ASSUME NEW c \in Callers, NEW j \in Jobs, AddJob(c, j) PROVE Goal
    <3>1. caller[c].log \in Logs /\ logStatus[caller[c].log] # None
      BY <2>4 DEF AddJob, RowInv
    <3>2. jobLog[j] = None
      BY <2>4 DEF AddJob
    <3>3. Promise!Place(j, caller[c].log)
      BY <2>4, <3>1, <3>2 DEF AddJob, rows, Promise!Place
    <3> QED BY <3>1, <3>3 DEF Promise!Next
  <2>5. ASSUME NEW c \in Callers, AddJobFails(c) PROVE Goal
    BY <2>5 DEF AddJobFails, rows, queue
  <2>6. ASSUME NEW w \in Workers, NEW j \in Jobs, TakeJob(w, j) PROVE Goal
    BY <2>6 DEF TakeJob, rows, ghost
  <2>7. ASSUME NEW w \in Workers, SendAccepted(w) PROVE Goal
    <3>j. PICK j \in Jobs : j = worker[w].job
      BY <2>7 DEF SendAccepted
    <3>1. jobLog[j] # None
      BY <2>7, <3>j DEF SendAccepted
    <3>2. accepted' = [accepted EXCEPT ![j] = @ + 1]
      BY <2>7, <3>j DEF SendAccepted
    <3>3. accepted[j] + 1 <= MaxAttempts + MaxStalls
      BY <3>2 DEF BoundInv
    <3>4. accepted[j] < MaxAttempts + MaxStalls
      BY <3>3
    <3>5. Promise!HandOver(j)
      BY <2>7, <3>1, <3>2, <3>4 DEF SendAccepted, rows, queue, Promise!HandOver
    <3> QED BY <3>5 DEF Promise!Next
  <2>8. ASSUME NEW w \in Workers, SendRejected(w) PROVE Goal
    BY <2>8 DEF SendRejected, rows, queue, ghost
  <2>9. ASSUME NEW w \in Workers, MarkSent(w) PROVE Goal
    <3>1. worker[w].job \in Jobs /\ jobLog[worker[w].job] \in Logs
      BY <2>9 DEF MarkSent
    <3>2. accepted[worker[w].job] > 0
      BY <2>9 DEF MarkSent, Sent, MarkSentInv
    <3>3. Promise!ReportSent(jobLog[worker[w].job])
      BY <2>9, <3>1, <3>2 DEF MarkSent, queue, Promise!ReportSent
    <3> QED BY <3>1, <3>3 DEF Promise!Next
  <2>10. ASSUME NEW w \in Workers, MarkSentFails(w) PROVE Goal
    BY <2>10 DEF MarkSentFails, rows, queue
  <2>11. ASSUME NEW w \in Workers, MarkFailed(w) PROVE Goal
    <3>1. worker[w].job \in Jobs /\ jobLog[worker[w].job] \in Logs
      BY <2>11 DEF MarkFailed
    <3>2. Promise!ReportFailed(jobLog[worker[w].job])
      BY <2>11, <3>1 DEF MarkFailed, queue, Promise!ReportFailed
    <3> QED BY <3>1, <3>2 DEF Promise!Next
  <2>12. ASSUME NEW w \in Workers, MarkFailedFails(w) PROVE Goal
    BY <2>12 DEF MarkFailedFails, rows, queue
  <2>13. ASSUME NEW w \in Workers, CompleteJob(w) PROVE Goal
    BY <2>13 DEF CompleteJob, rows, ghost
  <2>14. ASSUME NEW w \in Workers, RetryOrFailJob(w) PROVE Goal
    BY <2>14 DEF RetryOrFailJob, rows, ghost
  <2>15. ASSUME NEW j \in Jobs, StalledJob(j) PROVE Goal
    BY <2>15 DEF StalledJob, rows
  <2>16. CASE Crash
    BY <2>16 DEF Crash, rows, queue
  <2>17. CASE UNCHANGED vars
    BY <2>17 DEF vars
  <2> QED
    BY <2>1, <2>2, <2>3, <2>4, <2>5, <2>6, <2>7, <2>8, <2>9,
       <2>10, <2>11, <2>12, <2>13, <2>14, <2>15, <2>16, <2>17
       DEF Next, CallerStep, Process
<1> QED
  BY <1>1, <1>2, QueueIsSound, RowsExist, AttemptsPayForSends, SentAndMarked, PTL
     DEF Spec, DeliveryPromised, Promise!Spec
=============================================================================
