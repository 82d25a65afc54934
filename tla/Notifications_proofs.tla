------------------------ MODULE Notifications_proofs ------------------------
(***************************************************************************)
(* Theorems about Notifications for every number of rows, jobs, requests   *)
(* and workers, every limit and every set of faults.  Types and the shape  *)
(* of the queue are inductive together (Inv); the safety properties follow *)
(* from it one at a time.                                                  *)
(***************************************************************************)
EXTENDS Notifications, TLAPS

Inv == TypeOK /\ QueueInv

-----------------------------------------------------------------------------
(* Types and the shape of the queue *)

\* Attempts and stalls stay within their limits, no two workers run one job,
\* and every job and every request in flight has its row.
THEOREM QueueIsSound == Spec => []Inv
<1>1. Init => Inv
  BY NotificationsAssumption
     DEF Init, Inv, TypeOK, QueueInv, IdleCaller, IdleWorker, CallerState,
         WorkerState, JobState
<1>2. Inv /\ [Next]_vars => Inv'
  <2> SUFFICES ASSUME Inv, [Next]_vars PROVE Inv'
    OBVIOUS
  <2> USE NotificationsAssumption DEF Inv
  <2>1. ASSUME NEW c \in Callers, NEW l \in Logs, InsertLog(c, l) PROVE Inv'
    <3>1. TypeOK'
      BY <2>1 DEF InsertLog, queue, ghost, TypeOK, QueueInv, MessageStatus,
         CallerState, IdleCaller
    <3>2. QueueInv'
      BY <2>1 DEF InsertLog, queue, ghost, TypeOK, QueueInv, CallerState,
         IdleCaller
    <3> QED BY <3>1, <3>2
  <2>2. ASSUME NEW c \in Callers, NEW l \in Logs, FindLog(c, l) PROVE Inv'
    <3>1. TypeOK'
      BY <2>2 DEF FindLog, rows, queue, ghost, TypeOK, QueueInv, CallerState,
         IdleCaller
    <3>2. QueueInv'
      BY <2>2 DEF FindLog, rows, queue, ghost, TypeOK, QueueInv, CallerState,
         IdleCaller
    <3> QED BY <3>1, <3>2
  <2>3. ASSUME NEW c \in Callers, ResetLog(c) PROVE Inv'
    <3>1. TypeOK'
      BY <2>3 DEF ResetLog, queue, ghost, TypeOK, QueueInv, MessageStatus,
         CallerState, IdleCaller
    <3>2. QueueInv'
      BY <2>3 DEF ResetLog, queue, ghost, TypeOK, QueueInv, CallerState, IdleCaller
    <3> QED BY <3>1, <3>2
  <2>4. ASSUME NEW c \in Callers, NEW j \in Jobs, AddJob(c, j) PROVE Inv'
    <3>1. TypeOK'
      BY <2>4 DEF AddJob, rows, TypeOK, QueueInv, CallerState, IdleCaller, JobState
    <3>2. QueueInv'
      BY <2>4 DEF AddJob, rows, TypeOK, QueueInv, CallerState, IdleCaller
    <3> QED BY <3>1, <3>2
  <2>5. ASSUME NEW c \in Callers, AddJobFails(c) PROVE Inv'
    <3>1. TypeOK'
      BY <2>5 DEF AddJobFails, rows, queue, TypeOK, QueueInv, CallerState,
         IdleCaller
    <3>2. QueueInv'
      BY <2>5 DEF AddJobFails, rows, queue, TypeOK, QueueInv, CallerState,
         IdleCaller
    <3> QED BY <3>1, <3>2
  <2>6. ASSUME NEW w \in Workers, NEW j \in Jobs, TakeJob(w, j) PROVE Inv'
    <3>1. TypeOK'
      BY <2>6 DEF TakeJob, rows, ghost, TypeOK, QueueInv, WorkerState, IdleWorker,
         JobState
    <3>2. QueueInv'
      BY <2>6 DEF TakeJob, rows, ghost, TypeOK, QueueInv, WorkerState, IdleWorker
    <3> QED BY <3>1, <3>2
  <2>7. ASSUME NEW w \in Workers, SendAccepted(w) PROVE Inv'
    <3>1. TypeOK'
      BY <2>7 DEF SendAccepted, rows, queue, TypeOK, QueueInv, WorkerState,
         IdleWorker
    <3>2. QueueInv'
      BY <2>7 DEF SendAccepted, rows, queue, TypeOK, QueueInv, WorkerState
    <3> QED BY <3>1, <3>2
  <2>8. ASSUME NEW w \in Workers, SendRejected(w) PROVE Inv'
    <3>1. TypeOK'
      BY <2>8 DEF SendRejected, rows, queue, ghost, TypeOK, QueueInv, WorkerState,
         IdleWorker
    <3>2. QueueInv'
      BY <2>8 DEF SendRejected, rows, queue, ghost, TypeOK, QueueInv, WorkerState
    <3> QED BY <3>1, <3>2
  <2>9. ASSUME NEW w \in Workers, MarkSent(w) PROVE Inv'
    <3>1. TypeOK'
      BY <2>9 DEF MarkSent, queue, TypeOK, QueueInv, MessageStatus, WorkerState,
         IdleWorker
    <3>2. QueueInv'
      BY <2>9 DEF MarkSent, queue, TypeOK, QueueInv, WorkerState
    <3> QED BY <3>1, <3>2
  <2>10. ASSUME NEW w \in Workers, MarkSentFails(w) PROVE Inv'
    <3>1. TypeOK'
      BY <2>10 DEF MarkSentFails, rows, queue, TypeOK, QueueInv, WorkerState,
         IdleWorker
    <3>2. QueueInv'
      BY <2>10 DEF MarkSentFails, rows, queue, TypeOK, QueueInv, WorkerState
    <3> QED BY <3>1, <3>2
  <2>11. ASSUME NEW w \in Workers, MarkFailed(w) PROVE Inv'
    <3>1. TypeOK'
      BY <2>11 DEF MarkFailed, queue, TypeOK, QueueInv, MessageStatus, WorkerState,
         IdleWorker
    <3>2. QueueInv'
      BY <2>11 DEF MarkFailed, queue, TypeOK, QueueInv, WorkerState
    <3> QED BY <3>1, <3>2
  <2>12. ASSUME NEW w \in Workers, MarkFailedFails(w) PROVE Inv'
    <3>1. TypeOK'
      BY <2>12 DEF MarkFailedFails, rows, queue, TypeOK, QueueInv, WorkerState,
         IdleWorker
    <3>2. QueueInv'
      BY <2>12 DEF MarkFailedFails, rows, queue, TypeOK, QueueInv, WorkerState
    <3> QED BY <3>1, <3>2
  <2>13. ASSUME NEW w \in Workers, CompleteJob(w) PROVE Inv'
    <3>1. TypeOK'
      BY <2>13 DEF CompleteJob, rows, ghost, TypeOK, QueueInv, WorkerState,
         IdleWorker, JobState
    <3>2. QueueInv'
      BY <2>13 DEF CompleteJob, rows, ghost, TypeOK, QueueInv, WorkerState,
         IdleWorker
    <3> QED BY <3>1, <3>2
  <2>14. ASSUME NEW w \in Workers, RetryOrFailJob(w) PROVE Inv'
    <3>1. TypeOK'
      BY <2>14 DEF RetryOrFailJob, rows, ghost, TypeOK, QueueInv, WorkerState,
         IdleWorker, JobState
    <3>2. QueueInv'
      BY <2>14 DEF RetryOrFailJob, rows, ghost, TypeOK, QueueInv, WorkerState,
         IdleWorker
    <3> QED BY <3>1, <3>2
  <2>15. ASSUME NEW j \in Jobs, StalledJob(j) PROVE Inv'
    <3>1. TypeOK'
      BY <2>15 DEF StalledJob, rows, TypeOK, QueueInv, JobState
    <3>2. QueueInv'
      BY <2>15 DEF StalledJob, rows, TypeOK, QueueInv, WorkerState, Held
    <3> QED BY <3>1, <3>2
  <2>16. CASE Crash
    <3>1. TypeOK'
      BY <2>16 DEF Crash, rows, queue, TypeOK, QueueInv, CallerState, IdleCaller,
         WorkerState, IdleWorker
    <3>2. QueueInv'
      BY <2>16 DEF Crash, rows, queue, TypeOK, QueueInv, CallerState, IdleCaller,
         WorkerState, IdleWorker
    <3> QED BY <3>1, <3>2
  <2>17. CASE UNCHANGED vars
    BY <2>17 DEF vars, TypeOK, QueueInv
  <2> QED
    BY <2>1, <2>2, <2>3, <2>4, <2>5, <2>6, <2>7, <2>8, <2>9,
       <2>10, <2>11, <2>12, <2>13, <2>14, <2>15, <2>16, <2>17
       DEF Next, CallerStep, Process
<1> QED
  BY <1>1, <1>2, PTL DEF Spec

\* The type invariant of the runs.
THEOREM TypeCorrect == Spec => []TypeOK
<1>1. Inv => TypeOK
  BY DEF Inv
<1> QED
  BY <1>1, QueueIsSound, PTL

-----------------------------------------------------------------------------
(* What a row's status means *)

Sent == SentWasAccepted /\ MarkSentInv

\* SENT, and the worker about to write it, follow an accepted text.
LEMMA SentAndMarked == Spec => []Sent
<1>1. Init => Sent
  BY NotificationsAssumption
     DEF Init, Sent, SentWasAccepted, MarkSentInv, IdleWorker, MessageStatus
<1>2. Inv /\ Sent /\ [Next]_vars => Sent'
  <2> SUFFICES ASSUME Inv, Sent, [Next]_vars PROVE Sent'
    OBVIOUS
  <2> USE NotificationsAssumption
      DEF Inv, TypeOK, QueueInv, Sent, SentWasAccepted, MarkSentInv, JobsOf
  <2>1. ASSUME NEW c \in Callers, NEW l \in Logs, InsertLog(c, l) PROVE Sent'
    BY <2>1 DEF InsertLog, queue, ghost, CallerState, IdleCaller
  <2>2. ASSUME NEW c \in Callers, NEW l \in Logs, FindLog(c, l) PROVE Sent'
    BY <2>2 DEF FindLog, rows, queue, ghost, CallerState, IdleCaller
  <2>3. ASSUME NEW c \in Callers, ResetLog(c) PROVE Sent'
    BY <2>3 DEF ResetLog, queue, ghost, CallerState, IdleCaller
  <2>4. ASSUME NEW c \in Callers, NEW j \in Jobs, AddJob(c, j) PROVE Sent'
    BY <2>4 DEF AddJob, rows, CallerState, IdleCaller
  <2>5. ASSUME NEW c \in Callers, AddJobFails(c) PROVE Sent'
    BY <2>5 DEF AddJobFails, rows, queue, CallerState, IdleCaller
  <2>6. ASSUME NEW w \in Workers, NEW j \in Jobs, TakeJob(w, j) PROVE Sent'
    BY <2>6 DEF TakeJob, rows, ghost, WorkerState, IdleWorker
  <2>7. ASSUME NEW w \in Workers, SendAccepted(w) PROVE Sent'
    BY <2>7 DEF SendAccepted, rows, queue, WorkerState
  <2>8. ASSUME NEW w \in Workers, SendRejected(w) PROVE Sent'
    BY <2>8 DEF SendRejected, rows, queue, ghost, WorkerState
  <2>9. ASSUME NEW w \in Workers, MarkSent(w) PROVE Sent'
    BY <2>9 DEF MarkSent, queue, WorkerState
  <2>10. ASSUME NEW w \in Workers, MarkSentFails(w) PROVE Sent'
    BY <2>10 DEF MarkSentFails, rows, queue, WorkerState
  <2>11. ASSUME NEW w \in Workers, MarkFailed(w) PROVE Sent'
    BY <2>11 DEF MarkFailed, queue, WorkerState
  <2>12. ASSUME NEW w \in Workers, MarkFailedFails(w) PROVE Sent'
    BY <2>12 DEF MarkFailedFails, rows, queue, WorkerState
  <2>13. ASSUME NEW w \in Workers, CompleteJob(w) PROVE Sent'
    BY <2>13 DEF CompleteJob, rows, ghost, WorkerState, IdleWorker
  <2>14. ASSUME NEW w \in Workers, RetryOrFailJob(w) PROVE Sent'
    BY <2>14 DEF RetryOrFailJob, rows, ghost, WorkerState, IdleWorker
  <2>15. ASSUME NEW j \in Jobs, StalledJob(j) PROVE Sent'
    BY <2>15 DEF StalledJob, rows
  <2>16. CASE Crash
    BY <2>16 DEF Crash, rows, queue, CallerState, IdleCaller, WorkerState,
       IdleWorker
  <2>17. CASE UNCHANGED vars
    BY <2>17 DEF vars, JobsOf
  <2> QED
    BY <2>1, <2>2, <2>3, <2>4, <2>5, <2>6, <2>7, <2>8, <2>9,
       <2>10, <2>11, <2>12, <2>13, <2>14, <2>15, <2>16, <2>17
       DEF Next, CallerStep, Process
<1> QED
  BY <1>1, <1>2, QueueIsSound, PTL DEF Spec

\* No row says SENT for a text the provider has not accepted.
THEOREM SentIsTrue == Spec => []SentWasAccepted
<1>1. Sent => SentWasAccepted
  BY DEF Sent
<1> QED
  BY <1>1, SentAndMarked, PTL

-----------------------------------------------------------------------------
(* Who still has to write a row *)

\* Steps of requests leave every job and every worker as they are.
LEMMA MarksUntouched ==
  ASSUME UNCHANGED <<jobLog, jobState, made, worker>>
  PROVE  /\ \A j \in Jobs : WillMark(j)' <=> WillMark(j)
         /\ \A l \in Logs : JobsOf(l)' = JobsOf(l)
  BY DEF WillMark, Held, JobsOf

\* A worker's step does not change what becomes of the jobs of other workers.
LEMMA OtherMarksKept ==
  ASSUME Inv, NEW w \in Workers, NEW r \in WorkerState, worker[w].pc # "idle",
         worker' = [worker EXCEPT ![w] = r],
         r = IdleWorker \/ r.job = worker[w].job,
         NEW j \in Jobs, j # worker[w].job,
         jobState'[j] = jobState[j], made'[j] = made[j],
         WillMark(j)
  PROVE  WillMark(j)'
<1> USE NotificationsAssumption DEF Inv, TypeOK, WorkerState, IdleWorker
<1>1. CASE jobState[j] = "waiting"
  BY <1>1 DEF WillMark
<1>2. CASE jobState[j] = "active" /\ ~ Held(j)
  <2>1. ~ Held(j)'
    BY <1>2 DEF Held
  <2> QED BY <1>2, <2>1 DEF WillMark
<1>3. ASSUME NEW v \in Workers, worker[v].job = j,
             \/ worker[v].pc \in {"send", "markSent", "markFailed"}
             \/ worker[v].pc = "retry" /\ made[j] + 1 < MaxAttempts
      PROVE  WillMark(j)'
  <2>1. worker'[v] = worker[v]
    BY <1>3
  <2> QED BY <1>3, <2>1 DEF WillMark
<1> QED BY <1>1, <1>2, <1>3 DEF WillMark

\* A job whose worker has nothing left to write is nobody else's.
LEMMA DoneMarking ==
  ASSUME Inv, NEW w \in Workers,
         \/ worker[w].pc = "complete"
         \/ worker[w].pc = "retry" /\ ~ (made[worker[w].job] + 1 < MaxAttempts)
  PROVE  ~ WillMark(worker[w].job)
<1>1. jobState[worker[w].job] = "active" /\ Held(worker[w].job)
  BY DEF Inv, QueueInv, Held
<1>2. \A v \in Workers : worker[v].pc # "idle" /\ worker[v].job = worker[w].job => v = w
  BY DEF Inv, QueueInv
<1> QED BY <1>1, <1>2 DEF WillMark

\* A row is PENDING only while somebody still has to do something about it, or
\* after a fault at the await that would have.
THEOREM PendingIsNotForgotten == Spec => []PendingIsOwned
<1>1. Init => PendingIsOwned
  BY NotificationsAssumption DEF Init, PendingIsOwned, MessageStatus
<1>2. Inv /\ PendingIsOwned /\ [Next]_vars => PendingIsOwned'
  <2> SUFFICES ASSUME Inv, PendingIsOwned, [Next]_vars, NEW x \in Logs,
                      logStatus'[x] = "PENDING"
               PROVE  \/ \E c \in Callers : caller'[c] = [pc |-> "add", log |-> x]
                      \/ \E j \in JobsOf(x)' : WillMark(j)'
                      \/ x \in dropped'
    BY DEF PendingIsOwned
  <2> DEFINE Owned == \/ \E c \in Callers : caller'[c] = [pc |-> "add", log |-> x]
                      \/ \E j \in JobsOf(x)' : WillMark(j)'
                      \/ x \in dropped'
  <2> USE NotificationsAssumption DEF Inv, TypeOK
  <2>a. ASSUME logStatus[x] = "PENDING"
        PROVE  \/ \E c \in Callers : caller[c] = [pc |-> "add", log |-> x]
               \/ \E j \in JobsOf(x) : WillMark(j)
               \/ x \in dropped
    BY <2>a DEF PendingIsOwned
  <2>1. ASSUME NEW c \in Callers, NEW l \in Logs, InsertLog(c, l) PROVE Owned
    <3>1. \A j \in Jobs : WillMark(j)' <=> WillMark(j)
      BY <2>1, MarksUntouched DEF InsertLog, queue
    <3>2. JobsOf(x)' = JobsOf(x) /\ dropped' = dropped
      BY <2>1 DEF InsertLog, queue, ghost, JobsOf
    <3>3. CASE x = l
      BY <2>1, <3>3 DEF InsertLog
    <3>4. CASE x # l
      <4>1. logStatus[x] = "PENDING"
        BY <2>1, <3>4 DEF InsertLog
      <4>2. \A d \in Callers : caller[d] = [pc |-> "add", log |-> x] => caller'[d] = caller[d]
        BY <2>1 DEF InsertLog, IdleCaller
      <4> QED BY <2>a, <3>1, <3>2, <4>1, <4>2 DEF JobsOf
    <3> QED BY <3>3, <3>4
  <2>2. ASSUME NEW c \in Callers, NEW l \in Logs, FindLog(c, l) PROVE Owned
    <3>1. \A j \in Jobs : WillMark(j)' <=> WillMark(j)
      BY <2>2, MarksUntouched DEF FindLog, queue
    <3>2. JobsOf(x)' = JobsOf(x) /\ dropped' = dropped /\ logStatus' = logStatus
      BY <2>2 DEF FindLog, queue, rows, ghost, JobsOf
    <3>3. \A d \in Callers : caller[d] = [pc |-> "add", log |-> x] => caller'[d] = caller[d]
      BY <2>2 DEF FindLog, IdleCaller
    <3> QED BY <2>a, <3>1, <3>2, <3>3 DEF JobsOf
  <2>3. ASSUME NEW c \in Callers, ResetLog(c) PROVE Owned
    <3>1. \A j \in Jobs : WillMark(j)' <=> WillMark(j)
      BY <2>3, MarksUntouched DEF ResetLog, queue
    <3>2. JobsOf(x)' = JobsOf(x) /\ dropped' = dropped
      BY <2>3 DEF ResetLog, queue, ghost, JobsOf
    <3>3. CASE x = caller[c].log
      BY <2>3, <3>3 DEF ResetLog, CallerState
    <3>4. CASE x # caller[c].log
      <4>1. logStatus[x] = "PENDING"
        BY <2>3, <3>4 DEF ResetLog
      <4>2. \A d \in Callers : caller[d] = [pc |-> "add", log |-> x] => caller'[d] = caller[d]
        BY <2>3 DEF ResetLog
      <4> QED BY <2>a, <3>1, <3>2, <4>1, <4>2 DEF JobsOf
    <3> QED BY <3>3, <3>4
  <2>4. ASSUME NEW c \in Callers, NEW j \in Jobs, AddJob(c, j) PROVE Owned
    <3>1. logStatus' = logStatus
      BY <2>4 DEF AddJob, rows
    <3>2. jobState'[j] = "waiting" /\ jobLog'[j] = caller[c].log
      BY <2>4 DEF AddJob
    <3>3. CASE x = caller[c].log
      BY <3>2, <3>3 DEF JobsOf, WillMark
    <3>4. CASE x # caller[c].log
      <4>1. ASSUME NEW i \in JobsOf(x), WillMark(i) PROVE i \in JobsOf(x)' /\ WillMark(i)'
        <5>1. i # j /\ i \in Jobs
          BY <2>4, <4>1 DEF AddJob, JobsOf, QueueInv
        <5>2. jobLog'[i] = jobLog[i] /\ jobState'[i] = jobState[i] /\ made' = made /\ worker' = worker
          BY <2>4, <5>1 DEF AddJob
        <5> QED BY <4>1, <5>1, <5>2 DEF WillMark, Held, JobsOf
      <4>2. \A d \in Callers : caller[d] = [pc |-> "add", log |-> x] => caller'[d] = caller[d]
        BY <2>4, <3>4 DEF AddJob
      <4>3. x \in dropped => x \in dropped'
        BY <2>4, <3>4 DEF AddJob
      <4> QED BY <2>a, <3>1, <4>1, <4>2, <4>3
    <3> QED BY <3>3, <3>4
  <2>5. ASSUME NEW c \in Callers, AddJobFails(c) PROVE Owned
    <3>1. \A j \in Jobs : WillMark(j)' <=> WillMark(j)
      BY <2>5, MarksUntouched DEF AddJobFails, queue
    <3>2. JobsOf(x)' = JobsOf(x) /\ logStatus' = logStatus
      BY <2>5 DEF AddJobFails, queue, rows, JobsOf
    <3>3. \A d \in Callers : caller[d] = [pc |-> "add", log |-> x] =>
                               caller'[d] = caller[d] \/ x \in dropped'
      BY <2>5 DEF AddJobFails
    <3>4. dropped \subseteq dropped'
      BY <2>5 DEF AddJobFails
    <3> QED BY <2>a, <3>1, <3>2, <3>3, <3>4 DEF JobsOf
  <2>6. ASSUME NEW w \in Workers, NEW j \in Jobs, TakeJob(w, j) PROVE Owned
    <3>1. logStatus' = logStatus /\ caller' = caller /\ dropped' = dropped /\ jobLog' = jobLog
      BY <2>6 DEF TakeJob, rows, ghost
    <3>2. WillMark(j)'
      BY <2>6 DEF TakeJob, WillMark
    <3>3. ASSUME NEW i \in Jobs, i # j, WillMark(i) PROVE WillMark(i)'
      <4>1. jobState'[i] = jobState[i] /\ made' = made
        BY <2>6, <3>3 DEF TakeJob
      <4>2. Held(i)' => Held(i)
        BY <2>6, <3>3 DEF TakeJob, Held
      <4>3. \A v \in Workers : worker[v].pc # "idle" => worker'[v] = worker[v]
        BY <2>6 DEF TakeJob, IdleWorker
      <4> QED BY <3>3, <4>1, <4>2, <4>3 DEF WillMark
    <3>4. \A i \in JobsOf(x) : i \in JobsOf(x)' /\ i \in Jobs
      BY <3>1 DEF JobsOf
    <3> QED BY <2>a, <3>1, <3>2, <3>3, <3>4
  <2>b. ASSUME NEW w \in Workers, worker[w].pc # "idle",
               NEW k \in Jobs, k = worker[w].job,
               NEW r \in WorkerState, worker' = [worker EXCEPT ![w] = r],
               r = IdleWorker \/ r.job = worker[w].job,
               UNCHANGED <<jobLog, caller>>,
               \A j \in Jobs : j # k =>
                 jobState'[j] = jobState[j] /\ made'[j] = made[j],
               logStatus[x] = "PENDING",
               x \in dropped => x \in dropped',
               \/ WillMark(k)'
               \/ ~ WillMark(k)
               \/ x # jobLog[k]
               \/ x \in dropped'
        PROVE  Owned
    <3>1. ASSUME NEW j \in JobsOf(x), WillMark(j), x \notin dropped' PROVE Owned
      <4>1. j \in Jobs /\ j \in JobsOf(x)' /\ jobLog[j] = x
        BY <2>b, <3>1 DEF JobsOf
      <4>2. CASE j = k
        BY <2>b, <3>1, <4>1, <4>2
      <4>3. CASE j # k
        BY <2>b, <3>1, <4>1, <4>3, OtherMarksKept
      <4> QED BY <4>2, <4>3
    <3> QED BY <2>a, <2>b, <3>1
  <2>7. ASSUME NEW w \in Workers, SendAccepted(w) PROVE Owned
    <3>k. PICK k \in Jobs : k = worker[w].job
      BY <2>7 DEF SendAccepted, QueueInv
    <3>1. WillMark(k)'
      BY <2>7, <3>k DEF SendAccepted, WillMark, WorkerState
    <3> QED BY <2>7, <3>k, <2>b, <3>1 DEF SendAccepted, rows, queue, WorkerState
  <2>8. ASSUME NEW w \in Workers, SendRejected(w) PROVE Owned
    <3>k. PICK k \in Jobs : k = worker[w].job
      BY <2>8 DEF SendRejected, QueueInv
    <3>1. WillMark(k)'
      BY <2>8, <3>k DEF SendRejected, WillMark, WorkerState
    <3> QED BY <2>8, <3>k, <2>b, <3>1 DEF SendRejected, rows, queue, ghost, WorkerState
  <2>9. ASSUME NEW w \in Workers, MarkSent(w) PROVE Owned
    <3>k. PICK k \in Jobs : k = worker[w].job
      BY <2>9 DEF MarkSent, QueueInv
    <3>1. x # jobLog[k] /\ logStatus[x] = "PENDING"
      BY <2>9, <3>k DEF MarkSent
    <3> QED BY <2>9, <3>k, <2>b, <3>1 DEF MarkSent, queue, WorkerState
  <2>10. ASSUME NEW w \in Workers, MarkSentFails(w) PROVE Owned
    <3>k. PICK k \in Jobs : k = worker[w].job
      BY <2>10 DEF MarkSentFails, QueueInv
    <3>1. WillMark(k)'
      BY <2>10, <3>k DEF MarkSentFails, WillMark, WorkerState
    <3> QED BY <2>10, <3>k, <2>b, <3>1 DEF MarkSentFails, rows, queue, WorkerState
  <2>11. ASSUME NEW w \in Workers, MarkFailed(w) PROVE Owned
    <3>k. PICK k \in Jobs : k = worker[w].job
      BY <2>11 DEF MarkFailed, QueueInv
    <3>1. x # jobLog[k] /\ logStatus[x] = "PENDING"
      BY <2>11, <3>k DEF MarkFailed
    <3> QED BY <2>11, <3>k, <2>b, <3>1 DEF MarkFailed, queue, WorkerState
  <2>12. ASSUME NEW w \in Workers, MarkFailedFails(w) PROVE Owned
    <3>k. PICK k \in Jobs : k = worker[w].job
      BY <2>12 DEF MarkFailedFails, QueueInv
    <3>1. CASE made[k] + 1 < MaxAttempts
      <4>1. WillMark(k)'
        BY <2>12, <3>k, <3>1 DEF MarkFailedFails, WillMark, WorkerState, queue
      <4> QED BY <2>12, <3>k, <2>b, <3>1, <4>1 DEF MarkFailedFails, rows, queue, WorkerState
    <3>2. CASE ~ (made[k] + 1 < MaxAttempts)
      <4>1. x # jobLog[k] \/ x \in dropped'
        BY <2>12, <3>k, <3>2 DEF MarkFailedFails
      <4> QED BY <2>12, <3>k, <2>b, <3>2, <4>1 DEF MarkFailedFails, rows, queue, WorkerState
    <3> QED BY <3>1, <3>2
  <2>13. ASSUME NEW w \in Workers, CompleteJob(w) PROVE Owned
    <3>k. PICK k \in Jobs : k = worker[w].job
      BY <2>13 DEF CompleteJob, QueueInv
    <3>1. ~ WillMark(k)
      BY <2>13, <3>k, DoneMarking DEF CompleteJob
    <3> QED BY <2>13, <3>k, <2>b, <3>1 DEF CompleteJob, rows, ghost, WorkerState, IdleWorker
  <2>14. ASSUME NEW w \in Workers, RetryOrFailJob(w) PROVE Owned
    <3>k. PICK k \in Jobs : k = worker[w].job
      BY <2>14 DEF RetryOrFailJob, QueueInv
    <3>1. WillMark(k)' \/ ~ WillMark(k)
      <4>1. CASE made[k] + 1 < MaxAttempts
        BY <2>14, <3>k, <4>1 DEF RetryOrFailJob, WillMark, QueueInv
      <4>2. CASE ~ (made[k] + 1 < MaxAttempts)
        BY <2>14, <3>k, <4>2, DoneMarking DEF RetryOrFailJob
      <4> QED BY <4>1, <4>2
    <3> QED BY <2>14, <3>k, <2>b, <3>1 DEF RetryOrFailJob, rows, ghost, WorkerState, IdleWorker
  <2>15. ASSUME NEW j \in Jobs, StalledJob(j) PROVE Owned
    <3>1. /\ logStatus' = logStatus /\ caller' = caller /\ jobLog' = jobLog
          /\ made' = made /\ worker' = worker /\ dropped \subseteq dropped'
      BY <2>15 DEF StalledJob, rows
    <3>2. jobState'[j] = "waiting" \/ jobLog[j] \in dropped'
      BY <2>15 DEF StalledJob
    <3>3. \A i \in Jobs : i # j /\ WillMark(i) => WillMark(i)'
      BY <2>15, <3>1 DEF StalledJob, WillMark, Held
    <3>4. WillMark(j)' \/ jobLog[j] \in dropped'
      BY <3>2 DEF WillMark
    <3>5. JobsOf(x)' = JobsOf(x)
      BY <3>1 DEF JobsOf
    <3> QED BY <2>a, <3>1, <3>3, <3>4, <3>5 DEF JobsOf
  <2>16. CASE Crash
    <3>1. logStatus' = logStatus /\ jobLog' = jobLog /\ jobState' = jobState /\ dropped \subseteq dropped'
      BY <2>16 DEF Crash, rows, queue
    <3>2. \A c \in Callers : caller[c] = [pc |-> "add", log |-> x] => x \in dropped'
      BY <2>16 DEF Crash
    <3>3. \A j \in Jobs : ~ Held(j)'
      BY <2>16 DEF Crash, Held, IdleWorker
    <3>4. \A j \in Jobs : WillMark(j) => jobState[j] \in {"waiting", "active"}
      BY DEF WillMark, QueueInv
    <3>5. \A j \in Jobs : WillMark(j) => WillMark(j)'
      BY <3>1, <3>3, <3>4 DEF WillMark
    <3>6. JobsOf(x)' = JobsOf(x)
      BY <3>1 DEF JobsOf
    <3> QED BY <2>a, <3>1, <3>2, <3>5, <3>6 DEF JobsOf
  <2>17. CASE UNCHANGED vars
    <3>1. \A j \in Jobs : WillMark(j)' <=> WillMark(j)
      BY <2>17, MarksUntouched DEF vars
    <3>2. JobsOf(x)' = JobsOf(x)
      BY <2>17 DEF vars, JobsOf
    <3> QED BY <2>17, <2>a, <3>1, <3>2 DEF vars, JobsOf
  <2> QED
    BY <2>1, <2>2, <2>3, <2>4, <2>5, <2>6, <2>7, <2>8, <2>9,
       <2>10, <2>11, <2>12, <2>13, <2>14, <2>15, <2>16, <2>17
       DEF Next, CallerStep, Process
<1> QED
  BY <1>1, <1>2, QueueIsSound, PTL DEF Spec

-----------------------------------------------------------------------------
(* How often a text is sent *)

\* A job reaches the customer a second time only after a failed row update or
\* a stall of that job.
THEOREM DuplicatesNeedFaults == Spec => []DuplicateNeedsFault
<1>1. Init => SendInv
  BY NotificationsAssumption DEF Init, SendInv, IdleWorker
<1>2. Inv /\ SendInv /\ [Next]_vars => SendInv'
  <2> SUFFICES ASSUME Inv, SendInv, [Next]_vars PROVE SendInv'
    OBVIOUS
  <2> USE NotificationsAssumption DEF Inv, TypeOK, QueueInv, SendInv
  <2>1. ASSUME NEW c \in Callers, NEW l \in Logs, InsertLog(c, l) PROVE SendInv'
    BY <2>1 DEF InsertLog, queue, ghost, CallerState, IdleCaller
  <2>2. ASSUME NEW c \in Callers, NEW l \in Logs, FindLog(c, l) PROVE SendInv'
    BY <2>2 DEF FindLog, rows, queue, ghost, CallerState, IdleCaller
  <2>3. ASSUME NEW c \in Callers, ResetLog(c) PROVE SendInv'
    BY <2>3 DEF ResetLog, queue, ghost, CallerState, IdleCaller
  <2>4. ASSUME NEW c \in Callers, NEW j \in Jobs, AddJob(c, j) PROVE SendInv'
    BY <2>4 DEF AddJob, rows, CallerState, IdleCaller
  <2>5. ASSUME NEW c \in Callers, AddJobFails(c) PROVE SendInv'
    BY <2>5 DEF AddJobFails, rows, queue, CallerState, IdleCaller
  <2>6. ASSUME NEW w \in Workers, NEW j \in Jobs, TakeJob(w, j) PROVE SendInv'
    BY <2>6 DEF TakeJob, rows, ghost, WorkerState, IdleWorker
  <2>7. ASSUME NEW w \in Workers, SendAccepted(w) PROVE SendInv'
    BY <2>7 DEF SendAccepted, rows, queue, WorkerState
  <2>8. ASSUME NEW w \in Workers, SendRejected(w) PROVE SendInv'
    BY <2>8 DEF SendRejected, rows, queue, ghost, WorkerState
  <2>9. ASSUME NEW w \in Workers, MarkSent(w) PROVE SendInv'
    BY <2>9 DEF MarkSent, queue, WorkerState
  <2>10. ASSUME NEW w \in Workers, MarkSentFails(w) PROVE SendInv'
    BY <2>10 DEF MarkSentFails, rows, queue, WorkerState
  <2>11. ASSUME NEW w \in Workers, MarkFailed(w) PROVE SendInv'
    BY <2>11 DEF MarkFailed, queue, WorkerState
  <2>12. ASSUME NEW w \in Workers, MarkFailedFails(w) PROVE SendInv'
    BY <2>12 DEF MarkFailedFails, rows, queue, WorkerState
  <2>13. ASSUME NEW w \in Workers, CompleteJob(w) PROVE SendInv'
    BY <2>13 DEF CompleteJob, rows, ghost, WorkerState, IdleWorker
  <2>14. ASSUME NEW w \in Workers, RetryOrFailJob(w) PROVE SendInv'
    BY <2>14 DEF RetryOrFailJob, rows, ghost, WorkerState, IdleWorker
  <2>15. ASSUME NEW j \in Jobs, StalledJob(j) PROVE SendInv'
    BY <2>15 DEF StalledJob, rows, Held, WorkerState
  <2>16. CASE Crash
    BY <2>16 DEF Crash, rows, queue, CallerState, IdleCaller, WorkerState,
       IdleWorker
  <2>17. CASE UNCHANGED vars
    BY <2>17 DEF vars
  <2> QED
    BY <2>1, <2>2, <2>3, <2>4, <2>5, <2>6, <2>7, <2>8, <2>9,
       <2>10, <2>11, <2>12, <2>13, <2>14, <2>15, <2>16, <2>17
       DEF Next, CallerStep, Process
<1>3. SendInv => DuplicateNeedsFault
  BY DEF SendInv, DuplicateNeedsFault
<1> QED
  BY <1>1, <1>2, <1>3, QueueIsSound, PTL DEF Spec
=============================================================================
