--------------------------- MODULE Notifications ---------------------------
(***************************************************************************)
(* The notification path of the backend: NotificationsService writes a     *)
(* MessageLog row and adds a BullMQ job for it, NotificationsProcessor     *)
(* takes the jobs, hands the text to the SMS provider and records the      *)
(* outcome in the row.  The row is in Postgres, the job is in Redis and    *)
(* the text ends at the provider: no transaction spans two of the three.   *)
(*                                                                         *)
(* Every await of the code is a step of its own, so handlers and workers   *)
(* interleave between any two of them.  BullMQ itself (take, retry, stall  *)
(* check, completion) is not in the repository: it is modelled from the    *)
(* options the code passes to it and from its defaults.                    *)
(***************************************************************************)
EXTENDS Naturals, FiniteSets

CONSTANTS
  Logs,         \* ids of MessageLog rows
  Jobs,         \* ids of BullMQ jobs
  Callers,      \* requests in flight that run enqueueSms or resend
  Workers,      \* slots that run NotificationsProcessor.process
  None,         \* no row, no job, no log
  MaxAttempts,  \* option "attempts" of every job: 3 in the code
  MaxStalls,    \* BullMQ default maxStalledCount: 1
  Faults        \* the faults a run allows

FaultKinds == {"crash", "redis", "db"}
MessageStatus == {"PENDING", "SENT", "FAILED"}

ASSUME NotificationsAssumption ==
  /\ None \notin Logs \cup Jobs \cup MessageStatus
  /\ MaxAttempts \in Nat \ {0}
  /\ MaxStalls \in Nat
  /\ Faults \subseteq FaultKinds

VARIABLES
  logStatus,    \* MessageLog.status of each row, None before it is created
  jobLog,       \* job.data.logId
  jobState,     \* where BullMQ keeps the job
  made,         \* job.attemptsMade
  stalls,       \* stalled count of the job
  caller,       \* requests: what they have to do next and on which row
  worker,       \* workers: where in process they are and with which job
  accepted,     \* history: how often the provider accepted each job's text
  slips,        \* history: row updates that failed in a worker, by job
  dropped       \* history: rows whose delivery a fault has abandoned

rows  == <<logStatus>>
queue == <<jobLog, jobState, made, stalls>>
ghost == <<accepted, slips, dropped>>
vars  == <<logStatus, jobLog, jobState, made, stalls, caller, worker,
           accepted, slips, dropped>>

IdleCaller    == [pc |-> "idle", log |-> None]
IdleWorker    == [pc |-> "idle", job |-> None]

CallerState == [pc : {"idle", "reset", "add"}, log : Logs \cup {None}]
WorkerState == [pc : {"idle", "send", "markSent", "complete", "markFailed", "retry"},
                job : Jobs \cup {None}]
JobState == {"absent", "waiting", "active", "completed", "failed"}

TypeOK ==
  /\ logStatus \in [Logs -> MessageStatus \cup {None}]
  /\ jobLog    \in [Jobs -> Logs \cup {None}]
  /\ jobState  \in [Jobs -> JobState]
  /\ made      \in [Jobs -> 0 .. MaxAttempts]
  /\ stalls    \in [Jobs -> 0 .. MaxStalls + 1]
  /\ caller    \in [Callers -> CallerState]
  /\ worker    \in [Workers -> WorkerState]
  /\ accepted  \in [Jobs -> Nat]
  /\ slips     \in [Jobs -> Nat]
  /\ dropped   \in SUBSET Logs

Init ==
  /\ logStatus = [l \in Logs |-> None]
  /\ jobLog    = [j \in Jobs |-> None]
  /\ jobState  = [j \in Jobs |-> "absent"]
  /\ made      = [j \in Jobs |-> 0]
  /\ stalls    = [j \in Jobs |-> 0]
  /\ caller    = [c \in Callers |-> IdleCaller]
  /\ worker    = [w \in Workers |-> IdleWorker]
  /\ accepted  = [j \in Jobs |-> 0]
  /\ slips     = [j \in Jobs |-> 0]
  /\ dropped   = {}

-----------------------------------------------------------------------------
(* Vocabulary of the properties *)

JobsOf(l) == {j \in Jobs : jobLog[j] = l}
Held(j)   == \E w \in Workers : worker[w].pc # "idle" /\ worker[w].job = j

\* The processor will still write the row of job j: BullMQ will run the job
\* again, or a worker is on its way to a row update.
WillMark(j) ==
  \/ jobState[j] = "waiting"
  \/ jobState[j] = "active" /\ ~ Held(j)
  \/ \E w \in Workers :
       /\ worker[w].job = j
       /\ \/ worker[w].pc \in {"send", "markSent", "markFailed"}
          \/ worker[w].pc = "retry" /\ made[j] + 1 < MaxAttempts

-----------------------------------------------------------------------------
(* NotificationsService: enqueueSms and resend *)

\* BOUND: a request starts only while a job id is left for it to finish with.
JobIdLeft ==
  Cardinality({c \in Callers : caller[c] # IdleCaller})
    < Cardinality({j \in Jobs : jobState[j] = "absent"})

\* enqueueSms, first await: the row exists before there is a job for it.
InsertLog(c, l) ==
  /\ JobIdLeft
  /\ caller[c] = IdleCaller
  /\ logStatus[l] = None
  /\ logStatus' = [logStatus EXCEPT ![l] = "PENDING"]
  /\ caller' = [caller EXCEPT ![c] = [pc |-> "add", log |-> l]]
  /\ UNCHANGED <<queue, worker, ghost>>

\* resend, first await: only a row that exists is resent, whatever its status.
FindLog(c, l) ==
  /\ JobIdLeft
  /\ caller[c] = IdleCaller
  /\ logStatus[l] # None
  /\ caller' = [caller EXCEPT ![c] = [pc |-> "reset", log |-> l]]
  /\ UNCHANGED <<rows, queue, worker, ghost>>

\* resend, second await.
ResetLog(c) ==
  /\ caller[c].pc = "reset"
  /\ logStatus' = [logStatus EXCEPT ![caller[c].log] = "PENDING"]
  /\ caller' = [caller EXCEPT ![c].pc = "add"]
  /\ UNCHANGED <<queue, worker, ghost>>

\* Last await of both: a new job with its full number of attempts.
AddJob(c, j) ==
  /\ caller[c].pc = "add"
  /\ jobState[j] = "absent"
  /\ jobLog'   = [jobLog EXCEPT ![j] = caller[c].log]
  /\ jobState' = [jobState EXCEPT ![j] = "waiting"]
  /\ caller'   = [caller EXCEPT ![c] = IdleCaller]
  /\ dropped'  = dropped \ {caller[c].log}
  /\ UNCHANGED <<rows, made, stalls, worker, accepted, slips>>

\* queue.add rejects: the request answers 500 and the row stays as it is.
AddJobFails(c) ==
  /\ "redis" \in Faults
  /\ caller[c].pc = "add"
  /\ caller'  = [caller EXCEPT ![c] = IdleCaller]
  /\ dropped' = dropped \cup {caller[c].log}
  /\ UNCHANGED <<rows, queue, worker, accepted, slips>>

-----------------------------------------------------------------------------
(* NotificationsProcessor.process and BullMQ around it *)

\* BullMQ hands a job that waits, or whose backoff is over, to a free worker.
TakeJob(w, j) ==
  /\ worker[w] = IdleWorker
  /\ jobState[j] = "waiting"
  /\ jobState' = [jobState EXCEPT ![j] = "active"]
  /\ worker'   = [worker EXCEPT ![w] = [pc |-> "send", job |-> j]]
  /\ UNCHANGED <<rows, jobLog, made, stalls, caller, ghost>>

\* Mutant: an accepted send is taken for a failure, as after a client timeout.
SendAcceptedTimesOut(w) ==
  /\ worker[w].pc = "send"
  /\ accepted' = [accepted EXCEPT ![worker[w].job] = @ + 1]
  /\ worker'   = [worker EXCEPT ![w].pc = "markFailed"]
  /\ UNCHANGED <<rows, queue, caller, slips, dropped>>

\* smsSender.send resolves: the customer gets the text.
SendAccepted(w) ==
  /\ worker[w].pc = "send"
  /\ accepted' = [accepted EXCEPT ![worker[w].job] = @ + 1]
  /\ worker'   = [worker EXCEPT ![w].pc = "markSent"]
  /\ UNCHANGED <<rows, queue, caller, slips, dropped>>

\* Mutant: the provider's refusal is not turned into an exception.
SendRejectedIgnored(w) ==
  /\ worker[w].pc = "send"
  /\ worker' = [worker EXCEPT ![w].pc = "markSent"]
  /\ UNCHANGED <<rows, queue, caller, ghost>>

\* smsSender.send rejects.
SendRejected(w) ==
  /\ worker[w].pc = "send"
  /\ worker' = [worker EXCEPT ![w].pc = "markFailed"]
  /\ UNCHANGED <<rows, queue, caller, ghost>>

\* Mutant: process throws after the row is SENT, so the job is run again.
MarkSentThenThrow(w) ==
  /\ worker[w].pc = "markSent"
  /\ logStatus' = [logStatus EXCEPT ![jobLog[worker[w].job]] = "SENT"]
  /\ dropped'   = dropped \ {jobLog[worker[w].job]}
  /\ worker'    = [worker EXCEPT ![w].pc = "retry"]
  /\ UNCHANGED <<queue, caller, accepted, slips>>

MarkSent(w) ==
  /\ worker[w].pc = "markSent"
  /\ logStatus' = [logStatus EXCEPT ![jobLog[worker[w].job]] = "SENT"]
  /\ dropped'   = dropped \ {jobLog[worker[w].job]}
  /\ worker'    = [worker EXCEPT ![w].pc = "complete"]
  /\ UNCHANGED <<queue, caller, accepted, slips>>

\* Mutant: process sends the text again at once when its row is not updated.
MarkSentFailsSendAgain(w) ==
  /\ "db" \in Faults
  /\ worker[w].pc = "markSent"
  /\ slips'  = [slips EXCEPT ![worker[w].job] = @ + 1]
  /\ worker' = [worker EXCEPT ![w].pc = "send"]
  /\ UNCHANGED <<rows, queue, caller, accepted, dropped>>

\* The update to SENT rejects inside the try block, so the catch block runs.
MarkSentFails(w) ==
  /\ "db" \in Faults
  /\ worker[w].pc = "markSent"
  /\ slips'  = [slips EXCEPT ![worker[w].job] = @ + 1]
  /\ worker' = [worker EXCEPT ![w].pc = "markFailed"]
  /\ UNCHANGED <<rows, queue, caller, accepted, dropped>>

\* Mutant: the catch block forgets the row and only rethrows.
MarkFailedSkipped(w) ==
  /\ worker[w].pc = "markFailed"
  /\ worker' = [worker EXCEPT ![w].pc = "retry"]
  /\ UNCHANGED <<rows, queue, caller, ghost>>

MarkFailed(w) ==
  /\ worker[w].pc = "markFailed"
  /\ logStatus' = [logStatus EXCEPT ![jobLog[worker[w].job]] = "FAILED"]
  /\ dropped'   = dropped \ {jobLog[worker[w].job]}
  /\ worker'    = [worker EXCEPT ![w].pc = "retry"]
  /\ UNCHANGED <<queue, caller, accepted, slips>>

\* The update to FAILED rejects too: process throws that error instead.
MarkFailedFails(w) ==
  LET j == worker[w].job IN
  /\ "db" \in Faults
  /\ worker[w].pc = "markFailed"
  /\ slips'   = [slips EXCEPT ![j] = @ + 1]
  /\ dropped' = IF made[j] + 1 < MaxAttempts THEN dropped
                                             ELSE dropped \cup {jobLog[j]}
  /\ worker'  = [worker EXCEPT ![w].pc = "retry"]
  /\ UNCHANGED <<rows, queue, caller, accepted>>

\* process returned: BullMQ moves the job to completed.
CompleteJob(w) ==
  /\ worker[w].pc = "complete"
  /\ jobState' = [jobState EXCEPT ![worker[w].job] = "completed"]
  /\ worker'   = [worker EXCEPT ![w] = IdleWorker]
  /\ UNCHANGED <<rows, jobLog, made, stalls, caller, ghost>>

\* Mutant: one attempt too many.
RetryOnceMore(w) ==
  LET j == worker[w].job IN
  /\ worker[w].pc = "retry"
  /\ made'     = [made EXCEPT ![j] = @ + 1]
  /\ jobState' = [jobState EXCEPT ![j] =
                    IF made[j] + 1 <= MaxAttempts THEN "waiting" ELSE "failed"]
  /\ worker'   = [worker EXCEPT ![w] = IdleWorker]
  /\ UNCHANGED <<rows, jobLog, stalls, caller, ghost>>

\* process threw: BullMQ delays the job for another attempt, or gives it up.
RetryOrFailJob(w) ==
  LET j == worker[w].job IN
  /\ worker[w].pc = "retry"
  /\ made'     = [made EXCEPT ![j] = @ + 1]
  /\ jobState' = [jobState EXCEPT ![j] =
                    IF made[j] + 1 < MaxAttempts THEN "waiting" ELSE "failed"]
  /\ worker'   = [worker EXCEPT ![w] = IdleWorker]
  /\ UNCHANGED <<rows, jobLog, stalls, caller, ghost>>

\* The process dies: requests and workers are gone, rows and jobs survive.
Crash ==
  /\ "crash" \in Faults
  /\ caller'  = [c \in Callers |-> IdleCaller]
  /\ worker'  = [w \in Workers |-> IdleWorker]
  /\ dropped' = dropped \cup {caller[c].log : c \in {d \in Callers : caller[d].pc = "add"}}
  /\ UNCHANGED <<rows, queue, accepted, slips>>

\* BullMQ's stall check finds an active job that no worker holds.
StalledJob(j) ==
  /\ jobState[j] = "active"
  /\ ~ Held(j)
  /\ stalls'   = [stalls EXCEPT ![j] = @ + 1]
  /\ jobState' = [jobState EXCEPT ![j] =
                    IF stalls[j] < MaxStalls THEN "waiting" ELSE "failed"]
  /\ dropped'  = IF stalls[j] < MaxStalls THEN dropped
                                          ELSE dropped \cup {jobLog[j]}
  /\ UNCHANGED <<rows, jobLog, made, caller, worker, accepted, slips>>

-----------------------------------------------------------------------------
CallerStep(c) ==
  \/ \E l \in Logs : InsertLog(c, l) \/ FindLog(c, l)
  \/ ResetLog(c)
  \/ \E j \in Jobs : AddJob(c, j)
  \/ AddJobFails(c)

Process(w) ==
  \/ SendAccepted(w)
  \/ SendRejected(w)
  \/ MarkSent(w)
  \/ MarkSentFails(w)
  \/ MarkFailed(w)
  \/ MarkFailedFails(w)
  \/ CompleteJob(w)
  \/ RetryOrFailJob(w)

Next ==
  \/ \E c \in Callers : CallerStep(c)
  \/ \E w \in Workers, j \in Jobs : TakeJob(w, j)
  \/ \E w \in Workers : Process(w)
  \/ \E j \in Jobs : StalledJob(j)
  \/ Crash

Spec == Init /\ [][Next]_vars

\* What the event loop and BullMQ justify: a request that was accepted and a job
\* that was taken go on, a free worker takes a waiting job, the stall check is
\* periodic.  Nothing obliges a request to come or a fault to happen.
Fairness ==
  /\ \A c \in Callers :
       WF_vars(ResetLog(c) \/ AddJobFails(c) \/ \E j \in Jobs : AddJob(c, j))
  /\ WF_vars(\E w \in Workers, j \in Jobs : TakeJob(w, j))
  /\ \A w \in Workers : WF_vars(Process(w))
  /\ \A j \in Jobs : WF_vars(StalledJob(j))

FairSpec == Spec /\ Fairness

-----------------------------------------------------------------------------
(* Properties *)

\* A row says SENT only if the provider accepted the text of one of its jobs:
\* process writes SENT after send resolved, and nothing else writes SENT.
SentWasAccepted ==
  \A l \in Logs : logStatus[l] = "SENT" =>
    \E j \in JobsOf(l) : accepted[j] > 0

\* A row is never stuck in PENDING behind everyone's back: a request still has
\* its job to add, the processor will still write it, or a fault hit exactly
\* the await that would have (queue.add, the last row update, the last stall).
PendingIsOwned ==
  \A l \in Logs : logStatus[l] = "PENDING" =>
    \/ \E c \in Callers : caller[c] = [pc |-> "add", log |-> l]
    \/ \E j \in JobsOf(l) : WillMark(j)
    \/ l \in dropped

\* One job sends its text again only after a row update failed in process or
\* BullMQ ran a stalled job again: a retry alone never duplicates an SMS.
DuplicateNeedsFault ==
  \A j \in Jobs : accepted[j] <= 1 + stalls[j] + slips[j]

\* Whatever fails, one job reaches the customer at most attempts + stalls times.
SendsBounded ==
  \A j \in Jobs : accepted[j] <= MaxAttempts + MaxStalls

\* The admin's log tells the truth on failure: a row left FAILED by its only
\* job, without a failed update or a stall, was never accepted.
FailedMeansUndelivered ==
  \A l \in Logs, j \in Jobs :
    /\ logStatus[l] = "FAILED"
    /\ JobsOf(l) = {j}
    /\ jobState[j] \in {"completed", "failed"}
    /\ slips[j] = 0
    /\ stalls[j] = 0
    => accepted[j] = 0

\* To the rest of the program the rows, jobs and workers are a Delivery: a row
\* that exists before its order, copies bounded per order by attempts and stalls,
\* SENT and FAILED reported only for what an order of the row has done.
Promise == INSTANCE Delivery WITH
  Messages <- Logs, Orders <- Jobs, Limit <- MaxAttempts + MaxStalls,
  status <- logStatus, orderOf <- jobLog, copies <- accepted

DeliveryPromised == Promise!Spec

\* Every message that is queued is settled: the row becomes SENT or FAILED,
\* unless a fault abandons it.
PendingSettles ==
  \A l \in Logs :
    logStatus[l] = "PENDING" ~> logStatus[l] # "PENDING" \/ l \in dropped

-----------------------------------------------------------------------------
(* Strengthening: what makes the properties above inductive *)

\* A busy worker has an active job to itself, a job has a row as soon as it
\* exists, an unfinished job has attempts and stalls left.
QueueInv ==
  /\ \A c \in Callers : caller[c].pc # "idle" => caller[c].log \in Logs
  /\ \A w \in Workers : worker[w].pc # "idle" =>
       worker[w].job \in Jobs /\ jobState[worker[w].job] = "active"
  /\ \A v, w \in Workers :
       v # w /\ worker[v].pc # "idle" /\ worker[w].pc # "idle" =>
         worker[v].job # worker[w].job
  /\ \A j \in Jobs : IF jobState[j] = "absent" THEN jobLog[j] = None
                                              ELSE jobLog[j] \in Logs
  /\ \A j \in Jobs : jobState[j] \in {"absent", "waiting", "active"} =>
       made[j] < MaxAttempts /\ stalls[j] <= MaxStalls

\* A worker about to write SENT has had its text accepted.
MarkSentInv ==
  \A w \in Workers : worker[w].pc = "markSent" => accepted[worker[w].job] > 0

\* A job that will send again has had no more accepted than faults hit it.
SendInv ==
  \A j \in Jobs :
    /\ jobState[j] = "absent" => accepted[j] = 0
    /\ jobState[j] = "waiting" => accepted[j] <= stalls[j] + slips[j]
    /\ \A w \in Workers :
         worker[w].job = j /\ worker[w].pc \in {"send", "markFailed", "retry"} =>
           accepted[j] <= stalls[j] + slips[j]
    /\ accepted[j] <= 1 + stalls[j] + slips[j]

\* A row exists before anyone adds a job for it or resends it.
RowInv ==
  /\ \A c \in Callers : caller[c].pc # "idle" => logStatus[caller[c].log] # None
  /\ \A j \in Jobs : jobState[j] # "absent" => logStatus[jobLog[j]] # None

\* Every text of a job was accepted in an attempt that is counted in made or in
\* stalls, but for the one under way.
BoundInv ==
  \A j \in Jobs :
    /\ jobState[j] = "absent" => accepted[j] = 0
    /\ jobState[j] = "waiting" => accepted[j] <= made[j] + stalls[j]
    /\ jobState[j] = "active" => accepted[j] <= made[j] + stalls[j] + 1
    /\ \A w \in Workers :
         worker[w].job = j /\ worker[w].pc = "send" => accepted[j] <= made[j] + stalls[j]
    /\ accepted[j] <= MaxAttempts + MaxStalls

\* A job without a fault of its own that was accepted is on its way to SENT, was
\* cut off there by a crash, or is done and has left no FAILED row to itself.
FailInv ==
  \A j \in Jobs :
    /\ jobState[j] = "absent" => accepted[j] = 0
    /\ slips[j] = 0 /\ stalls[j] = 0 /\ accepted[j] > 0 =>
         \/ \E w \in Workers : worker[w].pc = "markSent" /\ worker[w].job = j
         \/ jobState[j] = "active" /\ ~ Held(j)
         \/ /\ \/ jobState[j] = "completed"
               \/ \E w \in Workers : worker[w].pc = "complete" /\ worker[w].job = j
            /\ logStatus[jobLog[j]] = "FAILED" =>
                 \E i \in Jobs \ {j} : jobLog[i] = jobLog[j]
=============================================================================
