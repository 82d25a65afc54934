--------------------------- MODULE CaseLifecycle ---------------------------
(***************************************************************************)
(* The life of a service request ("case"): AdminServiceRequestsService     *)
(* creates it and lets the staff move it between statuses, each change is  *)
(* recorded in the case's history, and the customer is told by SMS through *)
(* the notification path, whose module this one extends: the requests that *)
(* run updateStatus are the Callers of Notifications.                      *)
(*                                                                         *)
(* updateStatus is four separate awaits: read the case, commit the change, *)
(* read the SMS template, enqueue the SMS.  The read is outside the        *)
(* transaction and the SMS comes after the commit.  A database             *)
(* transaction is one step: its row lock hides its inside from others.     *)
(*                                                                         *)
(* handler[h] also stands for the admin page that sent the request: "ok"   *)
(* and "error" are the two messages the page leaves on the screen.         *)
(*                                                                         *)
(* A customer who tracks a case reads it without a transaction: Prisma     *)
(* fetches the row first and its history with a second query.              *)
(***************************************************************************)
EXTENDS Notifications, Sequences, Timeline

CONSTANTS
  Cases,        \* ids of service requests
  Statuses,     \* CaseStatus
  SUBMITTED,    \* the status of a new case
  MaxHistory    \* BOUND: history entries of a case

ASSUME CaseAssumption ==
  /\ SUBMITTED \in Statuses
  /\ None \notin Cases \cup Statuses
  /\ MaxHistory \in Nat
  /\ None \notin [case : Cases, status : Statuses]
  /\ IsFiniteSet(Logs) /\ IsFiniteSet(Callers)

\* The statuses are stages of the timeline, or FAILED; a case starts in the first.
ASSUME StageAssumption ==
  /\ SUBMITTED = STAGE_ORDER[1]
  /\ \A s \in Statuses : IsFailed(s) \/ StageOf(s) # 0

VARIABLES
  caseStatus,   \* AdminServiceRequest.status, None before the case exists
  history,      \* CaseStatusHistory of each case, oldest first
  handler,      \* updateStatus requests and the page that waits for them
  about,        \* what the text of a MessageLog row says
  tracked,      \* trackByCode between its two queries: the status it has read
  lost          \* history: committed changes that died before their row

caseVars == <<caseStatus, history, handler, about, tracked, lost>>
allVars  == <<vars, caseVars>>

Entry   == [old : Statuses \cup {None}, new : Statuses]
Subject == [case : Cases, status : Statuses]

NoRequest == [pc |-> "idle", case |-> None, status |-> None, seen |-> None,
              log |-> None]

\* Pages that have no request in flight.
Resting == {"idle", "ok", "error"}
\* The change is committed and there is no row for its SMS yet.
Unreported == {"template", "enqueue"}

CaseTypeOK ==
  /\ TypeOK
  /\ caseStatus \in [Cases -> Statuses \cup {None}]
  /\ history \in [Cases -> Seq(Entry)]
  /\ handler \in [Callers ->
       [pc     : Resting \cup Unreported \cup {"commit", "queue"},
        case   : Cases \cup {None},
        status : Statuses \cup {None},
        seen   : Statuses \cup {None},
        log    : Logs \cup {None}]]
  /\ about \in [Logs -> Subject \cup {None}]
  /\ tracked \in [Cases -> Statuses \cup {None}]
  /\ lost \in [Subject -> Nat]

CaseInit ==
  /\ Init
  /\ caseStatus = [k \in Cases |-> None]
  /\ history = [k \in Cases |-> <<>>]
  /\ handler = [h \in Callers |-> NoRequest]
  /\ about = [l \in Logs |-> None]
  /\ tracked = [k \in Cases |-> None]
  /\ lost = [x \in Subject |-> 0]

SubjectOf(h) == [case |-> handler[h].case, status |-> handler[h].status]

-----------------------------------------------------------------------------
(* create *)

\* Mutant: old and new status are swapped in the first history entry.
CreateSwapped(k) ==
  /\ caseStatus[k] = None
  /\ caseStatus' = [caseStatus EXCEPT ![k] = SUBMITTED]
  /\ history' = [history EXCEPT ![k] = <<[old |-> SUBMITTED, new |-> None]>>]
  /\ UNCHANGED <<vars, handler, about, tracked, lost>>

\* The customer's form: case and first history entry in one transaction.
Create(k) ==
  /\ caseStatus[k] = None
  /\ caseStatus' = [caseStatus EXCEPT ![k] = SUBMITTED]
  /\ history' = [history EXCEPT ![k] = <<[old |-> None, new |-> SUBMITTED]>>]
  /\ UNCHANGED <<vars, handler, about, tracked, lost>>

-----------------------------------------------------------------------------
(* updateStatus *)

\* BOUND: every request in flight keeps an entry, a row and a job id to itself.
InFlight == {h \in Callers : handler[h].pc \notin Resting}
JobRoom ==
  Cardinality(InFlight \cup {h \in Callers : caller[h] # IdleCaller})
    < Cardinality({j \in Jobs : jobState[j] = "absent"})
RoomFor(k) ==
  /\ JobRoom
  /\ Len(history[k]) + Cardinality(InFlight) < MaxHistory
  /\ Cardinality(InFlight) < Cardinality({l \in Logs : logStatus[l] = None})

\* The admin confirms status s for case k; the handler reads the case.
ReadCase(h, k, s) ==
  /\ RoomFor(k)
  /\ caller[h] = IdleCaller
  /\ handler[h].pc \in Resting
  /\ caseStatus[k] # None
  /\ handler' = [handler EXCEPT ![h] =
       [pc |-> "commit", case |-> k, status |-> s, seen |-> caseStatus[k],
        log |-> None]]
  /\ UNCHANGED <<vars, caseStatus, history, about, tracked, lost>>

\* Mutant: the history entry is skipped when the read says nothing changes.
CommitUnlessSame(h) ==
  LET r == handler[h] IN
  /\ r.pc = "commit"
  /\ caseStatus' = [caseStatus EXCEPT ![r.case] = r.status]
  /\ history' = IF r.seen = r.status THEN history
                ELSE [history EXCEPT ![r.case] =
                        Append(@, [old |-> r.seen, new |-> r.status])]
  /\ handler' = [handler EXCEPT ![h].pc = "template"]
  /\ UNCHANGED <<vars, about, tracked, lost>>

\* Mutant: the entry takes its old status from the request.
CommitOldFromDto(h) ==
  LET r == handler[h] IN
  /\ r.pc = "commit"
  /\ caseStatus' = [caseStatus EXCEPT ![r.case] = r.status]
  /\ history' = [history EXCEPT ![r.case] =
                   Append(@, [old |-> r.status, new |-> r.status])]
  /\ handler' = [handler EXCEPT ![h].pc = "template"]
  /\ UNCHANGED <<vars, about, tracked, lost>>

\* The transaction: new status and history entry, whose old status is the one
\* read before.
CommitStatus(h) ==
  LET r == handler[h] IN
  /\ r.pc = "commit"
  /\ caseStatus' = [caseStatus EXCEPT ![r.case] = r.status]
  /\ history' = [history EXCEPT ![r.case] =
                   Append(@, [old |-> r.seen, new |-> r.status])]
  /\ handler' = [handler EXCEPT ![h].pc = "template"]
  /\ UNCHANGED <<vars, about, tracked, lost>>

\* Mutant: the failed transaction is caught and the SMS goes out all the same.
CommitFailsIgnored(h) ==
  /\ "db" \in Faults
  /\ handler[h].pc = "commit"
  /\ handler' = [handler EXCEPT ![h].pc = "template"]
  /\ UNCHANGED <<vars, caseStatus, history, about, tracked, lost>>

\* The transaction is rolled back and the request answers 500.
CommitFails(h) ==
  /\ "db" \in Faults
  /\ handler[h].pc = "commit"
  /\ handler' = [handler EXCEPT ![h].pc = "error"]
  /\ UNCHANGED <<vars, caseStatus, history, about, tracked, lost>>

\* buildStatusSmsMessage reads the template of the new status.
BuildMessage(h) ==
  /\ handler[h].pc = "template"
  /\ handler' = [handler EXCEPT ![h].pc = "enqueue"]
  /\ UNCHANGED <<vars, caseStatus, history, about, tracked, lost>>

\* enqueueSms creates the row; its second await is AddJob.
EnqueueSms(h, l) ==
  /\ handler[h].pc = "enqueue"
  /\ InsertLog(h, l)
  /\ about' = [about EXCEPT ![l] = SubjectOf(h)]
  /\ handler' = [handler EXCEPT ![h].pc = "queue", ![h].log = l]
  /\ UNCHANGED <<caseStatus, history, tracked, lost>>

\* The template cannot be read or the row cannot be written: 500, no SMS.
ReportFails(h) ==
  /\ "db" \in Faults
  /\ handler[h].pc \in Unreported
  /\ handler' = [handler EXCEPT ![h].pc = "error"]
  /\ lost' = [lost EXCEPT ![SubjectOf(h)] = @ + 1]
  /\ UNCHANGED <<vars, caseStatus, history, about, tracked>>

-----------------------------------------------------------------------------
(* The end of enqueueSms answers updateStatus; a resend answers the log page *)

Answer(h, result) ==
  handler' = IF handler[h].pc = "queue"
             THEN [handler EXCEPT ![h].pc = result] ELSE handler

AddJobAnswer(h, j) ==
  /\ AddJob(h, j)
  /\ Answer(h, "ok")
  /\ UNCHANGED <<caseStatus, history, about, tracked, lost>>

AddJobFailsAnswer(h) ==
  /\ AddJobFails(h)
  /\ Answer(h, "error")
  /\ UNCHANGED <<caseStatus, history, about, tracked, lost>>

Resend(h, l) ==
  /\ JobRoom
  /\ handler[h].pc \in Resting
  /\ FindLog(h, l)
  /\ UNCHANGED caseVars

ResendReset(h) == ResetLog(h) /\ UNCHANGED caseVars

\* The process dies under every request: the pages see the connection fail.
CrashAll ==
  /\ Crash
  /\ handler' = [h \in Callers |->
       IF handler[h].pc \in Resting THEN handler[h]
                                    ELSE [handler[h] EXCEPT !.pc = "error"]]
  /\ lost' = [x \in Subject |-> lost[x] +
       Cardinality({h \in Callers : handler[h].pc \in Unreported /\ SubjectOf(h) = x})]
  /\ tracked' = [k \in Cases |-> None]
  /\ UNCHANGED <<caseStatus, history, about>>

-----------------------------------------------------------------------------
(* trackByCode *)

\* The first query reads the row.
TrackStatus(k) ==
  /\ caseStatus[k] # None
  /\ tracked[k] = None
  /\ tracked' = [tracked EXCEPT ![k] = caseStatus[k]]
  /\ UNCHANGED <<vars, caseStatus, history, handler, about, lost>>

\* The second reads the history as it is by now, and the page shows both.
TrackHistory(k) ==
  /\ tracked[k] # None
  /\ tracked' = [tracked EXCEPT ![k] = None]
  /\ UNCHANGED <<vars, caseStatus, history, handler, about, lost>>

-----------------------------------------------------------------------------
UpdateStatus(h) ==
  \/ \E k \in Cases, s \in Statuses : ReadCase(h, k, s)
  \/ CommitStatus(h)
  \/ CommitFails(h)
  \/ BuildMessage(h)
  \/ \E l \in Logs : EnqueueSms(h, l)
  \/ ReportFails(h)
  \/ \E j \in Jobs : AddJobAnswer(h, j)
  \/ AddJobFailsAnswer(h)

Deliver ==
  /\ \/ \E w \in Workers, j \in Jobs : TakeJob(w, j)
     \/ \E w \in Workers : Process(w)
     \/ \E j \in Jobs : StalledJob(j)
  /\ UNCHANGED caseVars

CaseNext ==
  \/ \E k \in Cases : Create(k)
  \/ \E h \in Callers : UpdateStatus(h)
  \/ \E h \in Callers, l \in Logs : Resend(h, l)
  \/ \E h \in Callers : ResendReset(h)
  \/ Deliver
  \/ \E k \in Cases : TrackStatus(k) \/ TrackHistory(k)
  \/ CrashAll

CaseSpec == CaseInit /\ [][CaseNext]_allVars

\* A request that was accepted goes on; delivery is as fair as in Notifications.
CaseFairness ==
  /\ \A h \in Callers :
       WF_allVars(\/ CommitStatus(h) \/ CommitFails(h) \/ BuildMessage(h)
                  \/ \E l \in Logs : EnqueueSms(h, l)
                  \/ ReportFails(h)
                  \/ \E j \in Jobs : AddJobAnswer(h, j)
                  \/ AddJobFailsAnswer(h)
                  \/ ResendReset(h))
  /\ WF_allVars(\E w \in Workers, j \in Jobs : TakeJob(w, j) /\ UNCHANGED caseVars)
  /\ \A w \in Workers : WF_allVars(Process(w) /\ UNCHANGED caseVars)
  /\ \A j \in Jobs : WF_allVars(StalledJob(j) /\ UNCHANGED caseVars)

CaseFairSpec == CaseSpec /\ CaseFairness

-----------------------------------------------------------------------------
(* Properties *)

\* Status and history never disagree, however many updates race: the last
\* entry is the status of the case.
StatusIsLastInHistory ==
  \A k \in Cases : caseStatus[k] # None =>
    /\ history[k] # <<>>
    /\ history[k][Len(history[k])].new = caseStatus[k]

\* The read before the transaction may be stale, but the old status of an entry
\* is always one the case really had before that entry.
OldStatusWasReal ==
  \A k \in Cases : \A i \in 2 .. Len(history[k]) :
    \E n \in 1 .. i - 1 : history[k][n].new = history[k][i].old

\* Whatever changes between the two queries of a tracking request, the timeline
\* it ends in is of one piece: one stage is marked, as current or as the one the
\* case failed in, and the history shown has an entry for it.
TimelineIsDated ==
  \A k \in Cases : tracked[k] # None =>
    LET marked == Marked(tracked[k], history[k]) IN
    /\ Cardinality(marked) = 1
    /\ \A i \in marked : EntryShown(history[k], i) # 0

Changes(x) ==
  Cardinality({i \in 2 .. Len(history[x.case]) : history[x.case][i].new = x.status})
RowsAbout(x) == {l \in Logs : about[l] = x}
OnTheWay(x) ==
  Cardinality({h \in Callers : handler[h].pc \in Unreported /\ SubjectOf(h) = x})

\* Every committed change is accounted for exactly once: it has its row, a
\* request is on the way to the row, or a fault hit between commit and row.  So
\* no SMS tells of a change that was rolled back, and none is sent twice.
ChangesAreReported ==
  \A x \in Subject :
    Changes(x) = Cardinality(RowsAbout(x)) + OnTheWay(x) + lost[x]

\* Every change reaches its end: as many rows about it are settled as there were
\* changes, apart from those a fault has abandoned.
ChangesSettle ==
  \A x \in Subject : \A n \in 1 .. MaxHistory - 1 :
    Changes(x) >= n ~>
      n <= lost[x] + Cardinality({l \in RowsAbout(x) :
                       logStatus[l] # "PENDING" \/ l \in dropped})

\* What the page's success message says: the status has changed and the
\* notification SMS has been sent.
OkMeansSmsSent ==
  \A h \in Callers : handler[h].pc = "ok" =>
    \E j \in JobsOf(handler[h].log) : accepted[j] > 0

\* What the page's error message says: there was an error in changing the
\* status, so the request that failed has not changed it.
ErrorMeansUnchanged ==
  [][\A h \in Callers :
       handler[h].pc \notin Resting /\ handler'[h].pc = "error" =>
         handler[h].pc = "commit"]_allVars

-----------------------------------------------------------------------------
(* Strengthening: what makes the properties above inductive *)

\* A request in flight works on a case that exists, and what it has read is in
\* the history of that case; a case that does not exist has no history.
RequestInv ==
  /\ \A h \in Callers : handler[h].pc \notin Resting =>
       /\ handler[h].case \in Cases
       /\ handler[h].status \in Statuses
       /\ caseStatus[handler[h].case] # None
  /\ \A h \in Callers : handler[h].pc = "commit" =>
       \E n \in DOMAIN history[handler[h].case] :
         history[handler[h].case][n].new = handler[h].seen
  /\ \A k \in Cases : caseStatus[k] = None => history[k] = <<>>

\* A history begins with the first stage and keeps what a tracking request has
\* read: it only grows.
TrackInv ==
  \A k \in Cases :
    /\ history[k] # <<>> => history[k][1].new = SUBMITTED
    /\ tracked[k] # None =>
         \E n \in DOMAIN history[k] : history[k][n].new = tracked[k]

\* Only a row that exists is about anything.
AboutInv == \A l \in Logs : about[l] # None => logStatus[l] # None
=============================================================================
