------------------------ MODULE CaseLifecycle_proofs ------------------------
(***************************************************************************)
(* Theorems about CaseLifecycle for every number of cases, statuses, rows, *)
(* requests and workers and every set of faults.  First that the delivery  *)
(* of Notifications goes on undisturbed inside it, so that the theorems of *)
(* Notifications_proofs hold of it too; then types, then what status,      *)
(* history and SMS rows still agree on.                                    *)
(***************************************************************************)
EXTENDS CaseLifecycle, Notifications_proofs, FiniteSetTheorems,
        WellFoundedInduction

-----------------------------------------------------------------------------
(* The notification path inside *)

\* A step of a case is a step of the notification path or leaves it alone.
LEMMA CaseStepDelivers == CaseNext => [Next]_vars
<1> SUFFICES ASSUME CaseNext PROVE [Next]_vars
  OBVIOUS
<1>1. ASSUME NEW k \in Cases, Create(k) PROVE UNCHANGED vars
  BY <1>1 DEF Create
<1>2. ASSUME NEW h \in Callers, UpdateStatus(h) PROVE [Next]_vars
  <2>1. CASE \E l \in Logs : EnqueueSms(h, l)
    BY <2>1 DEF EnqueueSms, CallerStep, Next
  <2>2. CASE (\E j \in Jobs : AddJobAnswer(h, j)) \/ AddJobFailsAnswer(h)
    BY <2>2 DEF AddJobAnswer, AddJobFailsAnswer, CallerStep, Next
  <2> QED
    BY <1>2, <2>1, <2>2 DEF UpdateStatus, ReadCase, CommitStatus, CommitFails,
                            BuildMessage, ReportFails
<1>3. ASSUME NEW h \in Callers, NEW l \in Logs, Resend(h, l) PROVE Next
  BY <1>3 DEF Resend, CallerStep, Next
<1>4. ASSUME NEW h \in Callers, ResendReset(h) PROVE Next
  BY <1>4 DEF ResendReset, CallerStep, Next
<1>5. CASE Deliver
  BY <1>5 DEF Deliver, Next
<1>6. ASSUME NEW k \in Cases, TrackStatus(k) \/ TrackHistory(k) PROVE UNCHANGED vars
  BY <1>6 DEF TrackStatus, TrackHistory
<1>7. CASE CrashAll
  BY <1>7 DEF CrashAll, Next
<1> QED
  BY <1>1, <1>2, <1>3, <1>4, <1>5, <1>6, <1>7 DEF CaseNext

\* Changing the status of cases is one way to use the notification path: what is
\* true of Notifications is true of its rows and jobs here.
THEOREM DeliveryGoesOn == CaseSpec => Spec
<1>1. CaseInit => Init
  BY DEF CaseInit
<1>2. [CaseNext]_allVars => [Next]_vars
  BY CaseStepDelivers DEF allVars
<1> QED
  BY <1>1, <1>2, PTL DEF CaseSpec, Spec

-----------------------------------------------------------------------------
(* Types and requests *)

RequestType ==
  [pc     : Resting \cup Unreported \cup {"commit", "queue"},
   case   : Cases \cup {None},
   status : Statuses \cup {None},
   seen   : Statuses \cup {None},
   log    : Logs \cup {None}]

CaseInv == CaseTypeOK /\ RequestInv /\ StatusIsLastInHistory

\* The requests at work on one subject, and the requests at work at all, are
\* finitely many.
LEMMA FiniteRequests ==
  ASSUME NEW S \in SUBSET Callers
  PROVE  IsFiniteSet(S) /\ Cardinality(S) \in Nat
BY CaseAssumption, FS_Subset, FS_CardinalityType

\* A crash keeps the types: only requests end and lost changes are counted.
LEMMA CrashTyped ==
  ASSUME CaseTypeOK, CrashAll
  PROVE  handler' \in [Callers -> RequestType] /\ lost' \in [Subject -> Nat]
         /\ \A h \in Callers : handler'[h].pc \in Resting
<1> USE DEF CaseTypeOK, RequestType
<1>1. ASSUME NEW h \in Callers
      PROVE  handler'[h] \in RequestType /\ handler'[h].pc \in Resting
  <2>1. handler[h] \in RequestType
    OBVIOUS
  <2>2. handler'[h] = IF handler[h].pc \in Resting THEN handler[h]
                      ELSE [handler[h] EXCEPT !.pc = "error"]
    BY DEF CrashAll
  <2> QED BY <2>1, <2>2 DEF Resting
<1>2. ASSUME NEW x \in Subject PROVE lost'[x] \in Nat
  <2> DEFINE S == {h \in Callers : handler[h].pc \in Unreported /\ SubjectOf(h) = x}
  <2>1. Cardinality(S) \in Nat
    BY FiniteRequests
  <2>2. lost'[x] = lost[x] + Cardinality(S)
    BY DEF CrashAll
  <2> QED BY <2>1, <2>2
<1>3. lost' = [x \in Subject |-> lost'[x]]
  BY DEF CrashAll
<1>4. handler' = [h \in Callers |-> handler'[h]]
  BY DEF CrashAll
<1> QED BY <1>1, <1>2, <1>3, <1>4

\* The types, what a request in flight knows of its case, and the last entry of
\* a history: a request reads the status, so what it has read is in the history
\* only because the last entry always agrees with the status.
LEMMA TypesAndRequests == CaseSpec => []CaseInv
<1>1. CaseInit => RequestInv
  BY CaseAssumption DEF CaseInit, RequestInv, NoRequest, Resting
<1>2. CaseInit => StatusIsLastInHistory
  BY DEF CaseInit, StatusIsLastInHistory
<1>3. CaseInit /\ TypeOK => CaseTypeOK
  BY CaseAssumption DEF CaseInit, CaseTypeOK, NoRequest, Resting
<1>4. CaseInv /\ TypeOK' /\ [CaseNext]_allVars => CaseInv'
  <2> SUFFICES ASSUME CaseInv, TypeOK', [CaseNext]_allVars PROVE CaseInv'
    OBVIOUS
  <2> USE CaseAssumption DEF CaseInv, RequestType
  <2>t. /\ caseStatus \in [Cases -> Statuses \cup {None}]
        /\ history \in [Cases -> Seq(Entry)]
        /\ handler \in [Callers -> RequestType]
        /\ about \in [Logs -> Subject \cup {None}]
        /\ tracked \in [Cases -> Statuses \cup {None}]
        /\ lost \in [Subject -> Nat]
    BY DEF CaseTypeOK
  <2>u. ASSUME /\ caseStatus' \in [Cases -> Statuses \cup {None}]
               /\ history' \in [Cases -> Seq(Entry)]
               /\ handler' \in [Callers -> RequestType]
               /\ about' \in [Logs -> Subject \cup {None}]
               /\ tracked' \in [Cases -> Statuses \cup {None}]
               /\ lost' \in [Subject -> Nat]
        PROVE  CaseTypeOK'
    BY <2>u DEF CaseTypeOK
  <2>v. ASSUME UNCHANGED <<caseStatus, history>> PROVE StatusIsLastInHistory'
    BY <2>v DEF StatusIsLastInHistory
  <2>1. ASSUME NEW k \in Cases, Create(k) PROVE CaseInv'
    <3>1. caseStatus' \in [Cases -> Statuses \cup {None}]
      BY <2>1, <2>t DEF Create
    <3>2. history' \in [Cases -> Seq(Entry)]
      <4>1. <<[old |-> None, new |-> SUBMITTED]>> \in Seq(Entry)
        BY DEF Entry
      <4> QED BY <2>1, <2>t, <4>1 DEF Create
    <3>3. CaseTypeOK'
      BY <2>1, <2>t, <2>u, <3>1, <3>2 DEF Create
    <3>4. RequestInv'
      <4>1. caseStatus[k] = None /\ handler' = handler
        BY <2>1 DEF Create
      <4>2. \A q \in Cases : q # k => caseStatus'[q] = caseStatus[q] /\ history'[q] = history[q]
        BY <2>1, <2>t DEF Create
      <4>3. caseStatus'[k] # None
        BY <2>1, <2>t DEF Create
      <4> QED BY <4>1, <4>2, <4>3 DEF RequestInv, Resting
    <3>5. StatusIsLastInHistory'
      <4>1. \A q \in Cases : q # k => caseStatus'[q] = caseStatus[q] /\ history'[q] = history[q]
        BY <2>1, <2>t DEF Create
      <4>2. caseStatus'[k] = SUBMITTED /\ history'[k] = <<[old |-> None, new |-> SUBMITTED]>>
        BY <2>1, <2>t DEF Create
      <4> QED BY <4>1, <4>2 DEF StatusIsLastInHistory
    <3> QED BY <3>3, <3>4, <3>5
  <2>2. ASSUME NEW h \in Callers, NEW k \in Cases, NEW s \in Statuses, ReadCase(h, k, s)
        PROVE  CaseInv'
    <3>1. handler' \in [Callers -> RequestType]
      <4>1. [pc |-> "commit", case |-> k, status |-> s, seen |-> caseStatus[k],
             log |-> None] \in RequestType
        BY <2>t
      <4> QED BY <2>2, <2>t, <4>1 DEF ReadCase
    <3>2. CaseTypeOK'
      BY <2>2, <2>t, <2>u, <3>1 DEF ReadCase
    <3>3. RequestInv'
      <4>2. Len(history[k]) \in DOMAIN history[k]
            /\ history[k][Len(history[k])].new = caseStatus[k]
        BY <2>2, <2>t DEF ReadCase, StatusIsLastInHistory
      <4>1. /\ caseStatus' = caseStatus /\ history' = history /\ caseStatus[k] # None
            /\ handler' = [handler EXCEPT ![h] =
                 [pc |-> "commit", case |-> k, status |-> s, seen |-> caseStatus[k],
                  log |-> None]]
        BY <2>2 DEF ReadCase
      <4>3. handler'[h] = [pc |-> "commit", case |-> k, status |-> s,
                           seen |-> caseStatus[k], log |-> None]
            /\ \A q \in Callers : q # h => handler'[q] = handler[q]
        BY <2>t, <4>1
      <4> QED BY <2>t, <4>1, <4>2, <4>3 DEF RequestInv
    <3> QED BY <2>2, <2>v, <3>2, <3>3 DEF ReadCase
  <2>3. ASSUME NEW h \in Callers, CommitStatus(h) PROVE CaseInv'
    <3> DEFINE r == handler[h]
    <3>1. r \in RequestType /\ r.pc = "commit" /\ r.case \in Cases
          /\ r.status \in Statuses /\ caseStatus[r.case] # None
      BY <2>3, <2>t DEF CommitStatus, RequestInv, Resting
    <3>2. /\ caseStatus' = [caseStatus EXCEPT ![r.case] = r.status]
          /\ history' = [history EXCEPT ![r.case] =
                           Append(history[r.case], [old |-> r.seen, new |-> r.status])]
          /\ handler' = [handler EXCEPT ![h].pc = "template"]
          /\ UNCHANGED <<about, tracked, lost>>
      BY <2>3 DEF CommitStatus
    <3>3. history[r.case] \in Seq(Entry) /\ [old |-> r.seen, new |-> r.status] \in Entry
      BY <2>t, <3>1 DEF Entry
    <3>4. CaseTypeOK'
      <4>1. handler' \in [Callers -> RequestType]
        BY <2>t, <3>1, <3>2 DEF Unreported
      <4>2. caseStatus' \in [Cases -> Statuses \cup {None}]
        BY <2>t, <3>1, <3>2
      <4>3. history' \in [Cases -> Seq(Entry)]
        BY <2>t, <3>1, <3>2, <3>3
      <4> QED BY <2>t, <2>u, <3>2, <4>1, <4>2, <4>3
    <3>5. \A k \in Cases : /\ caseStatus[k] # None => caseStatus'[k] # None
                           /\ DOMAIN history[k] \subseteq DOMAIN history'[k]
                           /\ \A n \in DOMAIN history[k] : history'[k][n] = history[k][n]
      BY <2>t, <3>1, <3>2, <3>3
    <3>6. \A k \in Cases : caseStatus'[k] = None => caseStatus[k] = None /\ k # r.case
      BY <2>t, <3>1, <3>2
    <3>7. \A q \in Callers : /\ handler'[q].case = handler[q].case
                             /\ handler'[q].status = handler[q].status
                             /\ handler'[q].seen = handler[q].seen
                             /\ handler'[q].pc = "commit" => handler[q].pc = "commit"
                             /\ handler'[q].pc \notin Resting => handler[q].pc \notin Resting
      BY <2>t, <3>1, <3>2 DEF Resting
    <3>8. \A k \in Cases : k # r.case => history'[k] = history[k]
      BY <2>t, <3>2
    <3>9. \A q \in Callers : handler[q].pc = "commit" => handler[q].pc \notin Resting
      BY DEF Resting
    <3>10. RequestInv'
      <4>1. \A q \in Callers : handler'[q].pc \notin Resting =>
              /\ handler'[q].case \in Cases
              /\ handler'[q].status \in Statuses
              /\ caseStatus'[handler'[q].case] # None
        BY <3>5, <3>7 DEF RequestInv
      <4>2. ASSUME NEW q \in Callers, handler'[q].pc = "commit"
            PROVE  \E n \in DOMAIN history'[handler'[q].case] :
                     history'[handler'[q].case][n].new = handler'[q].seen
        <5>1. handler[q].pc = "commit" /\ handler[q].case \in Cases
          BY <3>7, <3>9, <4>2 DEF RequestInv
        <5>2. PICK n \in DOMAIN history[handler[q].case] :
                history[handler[q].case][n].new = handler[q].seen
          BY <5>1 DEF RequestInv
        <5> QED BY <3>5, <3>7, <5>1, <5>2
      <4>3. \A k \in Cases : caseStatus'[k] = None => history'[k] = <<>>
        BY <3>6, <3>8 DEF RequestInv
      <4> QED BY <4>1, <4>2, <4>3 DEF RequestInv
    <3>11. StatusIsLastInHistory'
      <4>1. caseStatus'[r.case] = r.status
            /\ history'[r.case] = Append(history[r.case], [old |-> r.seen, new |-> r.status])
        BY <2>t, <3>1, <3>2
      <4>2. Len(history'[r.case]) = Len(history[r.case]) + 1
            /\ history'[r.case][Len(history[r.case]) + 1] = [old |-> r.seen, new |-> r.status]
        BY <3>3, <4>1
      <4>3. history'[r.case] # <<>>
        BY <3>3, <4>1
      <4>4. \A k \in Cases : k # r.case => caseStatus'[k] = caseStatus[k] /\ history'[k] = history[k]
        BY <2>t, <3>2
      <4> QED BY <4>1, <4>2, <4>3, <4>4 DEF StatusIsLastInHistory
    <3> QED BY <3>4, <3>10, <3>11
  <2>m. ASSUME NEW h \in Callers, NEW p \in Resting \cup Unreported \cup {"queue"},
               handler' = [handler EXCEPT ![h].pc = p],
               p \notin Resting => handler[h].pc \notin Resting,
               UNCHANGED <<caseStatus, history>>
        PROVE  handler' \in [Callers -> RequestType] /\ RequestInv'
    <3>1. handler[h] \in RequestType
      BY <2>t
    <3>2. handler' \in [Callers -> RequestType]
      BY <2>t, <2>m, <3>1
    <3>3. RequestInv'
      BY <2>t, <2>m, <3>1 DEF RequestInv, Resting, Unreported
    <3> QED BY <3>2, <3>3
  <2>4. ASSUME NEW h \in Callers, CommitFails(h) PROVE CaseInv'
    BY <2>4, <2>t, <2>u, <2>v, <2>m DEF CommitFails, Resting
  <2>5. ASSUME NEW h \in Callers, BuildMessage(h) PROVE CaseInv'
    BY <2>5, <2>t, <2>u, <2>v, <2>m DEF BuildMessage, Unreported, Resting
  <2>6. ASSUME NEW h \in Callers, NEW l \in Logs, EnqueueSms(h, l) PROVE CaseInv'
    <3>1. handler[h] \in RequestType /\ handler[h].pc = "enqueue"
      BY <2>6, <2>t DEF EnqueueSms
    <3>2. /\ handler' = [handler EXCEPT ![h].pc = "queue", ![h].log = l]
          /\ about' = [about EXCEPT ![l] = SubjectOf(h)]
          /\ UNCHANGED <<caseStatus, history, tracked, lost>>
      BY <2>6 DEF EnqueueSms
    <3>3. handler' \in [Callers -> RequestType]
      BY <2>t, <3>1, <3>2
    <3>4. SubjectOf(h) \in Subject
      BY <3>1 DEF SubjectOf, Subject, RequestInv, Resting
    <3>5. CaseTypeOK'
      BY <2>t, <2>u, <3>2, <3>3, <3>4
    <3>6. RequestInv'
      BY <2>t, <3>1, <3>2 DEF RequestInv, Resting
    <3> QED BY <2>v, <3>2, <3>5, <3>6
  <2>7. ASSUME NEW h \in Callers, ReportFails(h) PROVE CaseInv'
    <3>1. handler' = [handler EXCEPT ![h].pc = "error"]
          /\ lost' = [lost EXCEPT ![SubjectOf(h)] = lost[SubjectOf(h)] + 1]
          /\ UNCHANGED <<caseStatus, history, about, tracked>>
      BY <2>7 DEF ReportFails
    <3>2. handler' \in [Callers -> RequestType] /\ RequestInv'
      BY <2>m, <3>1 DEF Resting
    <3>4. SubjectOf(h) \in Subject
      BY <2>7, <2>t DEF ReportFails, SubjectOf, Subject, RequestInv, Resting, Unreported
    <3>3. lost' \in [Subject -> Nat]
      BY <2>t, <3>1, <3>4
    <3> QED BY <2>t, <2>u, <2>v, <3>1, <3>2, <3>3
  <2>8. ASSUME NEW h \in Callers, NEW result \in {"ok", "error"}, Answer(h, result),
               UNCHANGED <<caseStatus, history, about, tracked, lost>>
        PROVE  CaseInv'
    <3>1. CASE handler[h].pc = "queue"
      <4>1. handler' = [handler EXCEPT ![h].pc = result]
        BY <2>8, <3>1 DEF Answer
      <4> QED BY <2>8, <2>t, <2>u, <2>v, <2>m, <4>1 DEF Resting
    <3>2. CASE handler[h].pc # "queue"
      BY <2>8, <2>t, <2>u, <2>v, <3>2 DEF Answer, RequestInv
    <3> QED BY <3>1, <3>2
  <2>9. CASE UNCHANGED caseVars
    BY <2>9, <2>t, <2>u, <2>v DEF caseVars, RequestInv
  <2>10. ASSUME NEW k \in Cases, TrackStatus(k) \/ TrackHistory(k) PROVE CaseInv'
    <3>1. UNCHANGED <<caseStatus, history, handler, about, lost>>
      BY <2>10 DEF TrackStatus, TrackHistory
    <3>2. tracked' \in [Cases -> Statuses \cup {None}]
      BY <2>10, <2>t DEF TrackStatus, TrackHistory
    <3> QED BY <2>t, <2>u, <2>v, <3>1, <3>2 DEF RequestInv
  <2>11. CASE CrashAll
    <3>1. UNCHANGED <<caseStatus, history, about>>
          /\ tracked' \in [Cases -> Statuses \cup {None}]
      BY <2>11 DEF CrashAll
    <3>2. RequestInv'
      BY <2>11, <3>1, CrashTyped DEF RequestInv, Resting
    <3> QED BY <2>11, <2>t, <2>u, <2>v, <3>1, <3>2, CrashTyped
  <2> QED
    <3>1. ASSUME NEW h \in Callers, UpdateStatus(h) PROVE CaseInv'
      BY <3>1, <2>2, <2>3, <2>4, <2>5, <2>6, <2>7, <2>8
         DEF UpdateStatus, AddJobAnswer, AddJobFailsAnswer
    <3>2. ASSUME NEW h \in Callers, NEW l \in Logs, Resend(h, l) PROVE UNCHANGED caseVars
      BY <3>2 DEF Resend
    <3>3. ASSUME NEW h \in Callers, ResendReset(h) PROVE UNCHANGED caseVars
      BY <3>3 DEF ResendReset
    <3>4. Deliver \/ UNCHANGED allVars => UNCHANGED caseVars
      BY DEF Deliver, allVars
    <3> QED
      BY <2>1, <2>9, <2>10, <2>11, <3>1, <3>2, <3>3, <3>4 DEF CaseNext
<1> QED
  BY <1>1, <1>2, <1>3, <1>4, DeliveryGoesOn, TypeCorrect, PTL DEF CaseSpec, CaseInv

\* Cases, histories, requests, rows and jobs keep their types.
THEOREM CaseTypesCorrect == CaseSpec => []CaseTypeOK
BY TypesAndRequests, PTL DEF CaseInv

-----------------------------------------------------------------------------
(* Status and history *)

\* Status and history never disagree, however many updates race.
THEOREM StatusFollowsHistory == CaseSpec => []StatusIsLastInHistory
BY TypesAndRequests, PTL DEF CaseInv

\* A history changes only when its case is created or a change is committed.
LEMMA HistoryMoves ==
  ASSUME [CaseNext]_allVars
  PROVE  \/ history' = history
         \/ \E k \in Cases : Create(k)
         \/ \E h \in Callers : CommitStatus(h)
<1>1. ASSUME NEW h \in Callers, UpdateStatus(h)
      PROVE  history' = history \/ CommitStatus(h)
  BY <1>1 DEF UpdateStatus, ReadCase, CommitFails, BuildMessage, EnqueueSms,
              ReportFails, AddJobAnswer, AddJobFailsAnswer
<1>2. ASSUME NEW h \in Callers, NEW l \in Logs, Resend(h, l) PROVE history' = history
  BY <1>2 DEF Resend, caseVars
<1>3. ASSUME NEW h \in Callers, ResendReset(h) PROVE history' = history
  BY <1>3 DEF ResendReset, caseVars
<1>4. ASSUME NEW k \in Cases, TrackStatus(k) \/ TrackHistory(k) PROVE history' = history
  BY <1>4 DEF TrackStatus, TrackHistory
<1> QED
  BY <1>1, <1>2, <1>3, <1>4 DEF CaseNext, Deliver, CrashAll, caseVars, allVars

\* The old status of an entry is one the case really had before that entry,
\* although it is read outside the transaction that writes it.
THEOREM OldStatusesAreReal == CaseSpec => []OldStatusWasReal
<1>1. CaseInit => OldStatusWasReal
  BY DEF CaseInit, OldStatusWasReal
<1>2. CaseInv /\ OldStatusWasReal /\ [CaseNext]_allVars => OldStatusWasReal'
  <2> SUFFICES ASSUME CaseInv, OldStatusWasReal, [CaseNext]_allVars
               PROVE  OldStatusWasReal'
    OBVIOUS
  <2>t. history \in [Cases -> Seq(Entry)]
    BY DEF CaseInv, CaseTypeOK
  <2>1. CASE history' = history
    BY <2>1 DEF OldStatusWasReal
  <2>2. ASSUME NEW k \in Cases, Create(k) PROVE OldStatusWasReal'
    <3>1. /\ Len(history'[k]) = 1
          /\ \A q \in Cases : q # k => history'[q] = history[q]
      BY <2>2, <2>t DEF Create
    <3> QED BY <3>1 DEF OldStatusWasReal
  <2>3. ASSUME NEW h \in Callers, CommitStatus(h) PROVE OldStatusWasReal'
    <3> DEFINE c == handler[h].case
               e == [old |-> handler[h].seen, new |-> handler[h].status]
    <3>1. c \in Cases /\ handler[h].status \in Statuses
          /\ handler[h].seen \in Statuses \cup {None}
      BY <2>3 DEF CommitStatus, CaseInv, CaseTypeOK, RequestInv, Resting
    <3>2. history' = [history EXCEPT ![c] = Append(history[c], e)]
      BY <2>3 DEF CommitStatus
    <3>3. history[c] \in Seq(Entry) /\ e \in Entry
      BY <2>t, <3>1 DEF Entry
    <3>4. /\ Len(history'[c]) = Len(history[c]) + 1
          /\ history'[c][Len(history[c]) + 1] = e
          /\ \A n \in 1 .. Len(history[c]) : history'[c][n] = history[c][n]
          /\ Len(history[c]) \in Nat
      BY <2>t, <3>1, <3>2, <3>3
    <3>5. \E n \in 1 .. Len(history[c]) : history[c][n].new = handler[h].seen
      BY <2>3, <3>3 DEF CommitStatus, CaseInv, RequestInv
    <3>6. ASSUME NEW i \in 2 .. Len(history'[c])
          PROVE  \E n \in 1 .. i - 1 : history'[c][n].new = history'[c][i].old
      <4>1. CASE i = Len(history[c]) + 1
        <5>1. PICK n \in 1 .. Len(history[c]) : history[c][n].new = handler[h].seen
          BY <3>5
        <5>2. history'[c][n].new = handler[h].seen /\ n \in 1 .. i - 1
          BY <3>4, <4>1, <5>1
        <5>3. history'[c][i].old = handler[h].seen
          BY <3>4, <4>1
        <5> QED BY <5>2, <5>3
      <4>2. CASE i # Len(history[c]) + 1
        <5>1. i \in 2 .. Len(history[c])
          BY <3>4, <4>2
        <5>2. PICK n \in 1 .. i - 1 : history[c][n].new = history[c][i].old
          BY <3>1, <5>1 DEF OldStatusWasReal
        <5>3. n \in 1 .. Len(history[c]) /\ i \in 1 .. Len(history[c])
          BY <3>4, <5>1
        <5> QED BY <3>4, <5>2, <5>3
      <4> QED BY <4>1, <4>2
    <3>7. \A q \in Cases : q # c => history'[q] = history[q]
      BY <2>t, <3>2
    <3> QED BY <3>6, <3>7 DEF OldStatusWasReal
  <2> QED
    BY <2>1, <2>2, <2>3, HistoryMoves
<1> QED
  BY <1>1, <1>2, TypesAndRequests, PTL DEF CaseSpec

-----------------------------------------------------------------------------
(* Changes and their SMS *)

\* A row never disappears.
LEMMA RowsStay ==
  ASSUME [Next]_vars, TypeOK, NEW l \in Logs, logStatus[l] # None
  PROVE  logStatus'[l] # None
<1> USE NotificationsAssumption DEF TypeOK, MessageStatus
<1>1. ASSUME NEW c \in Callers, CallerStep(c) PROVE logStatus'[l] # None
  BY <1>1 DEF CallerStep, InsertLog, FindLog, ResetLog, AddJob, AddJobFails, rows
<1>2. ASSUME NEW w \in Workers, Process(w) PROVE logStatus'[l] # None
  <2>1. CASE MarkSent(w) \/ MarkFailed(w)
    BY <2>1 DEF MarkSent, MarkFailed
  <2> QED
    BY <1>2, <2>1 DEF Process, SendAccepted, SendRejected, MarkSentFails,
                      MarkFailedFails, CompleteJob, RetryOrFailJob, rows
<1>3. ASSUME NEW w \in Workers, NEW j \in Jobs, TakeJob(w, j) PROVE logStatus'[l] # None
  BY <1>3 DEF TakeJob, rows
<1>4. ASSUME NEW j \in Jobs, StalledJob(j) PROVE logStatus'[l] # None
  BY <1>4 DEF StalledJob, rows
<1> QED
  BY <1>1, <1>2, <1>3, <1>4 DEF Next, Crash, rows, vars

\* What a row is about is written once, with the row.
LEMMA AboutMoves ==
  ASSUME [CaseNext]_allVars
  PROVE  about' = about \/ \E h \in Callers, l \in Logs : EnqueueSms(h, l)
<1>1. ASSUME NEW h \in Callers, UpdateStatus(h)
      PROVE  about' = about \/ \E l \in Logs : EnqueueSms(h, l)
  BY <1>1 DEF UpdateStatus, ReadCase, CommitStatus, CommitFails, BuildMessage,
              ReportFails, AddJobAnswer, AddJobFailsAnswer
<1>2. ASSUME NEW h \in Callers, NEW l \in Logs, Resend(h, l) PROVE about' = about
  BY <1>2 DEF Resend, caseVars
<1>3. ASSUME NEW h \in Callers, ResendReset(h) PROVE about' = about
  BY <1>3 DEF ResendReset, caseVars
<1>4. ASSUME NEW k \in Cases, Create(k) \/ TrackStatus(k) \/ TrackHistory(k)
      PROVE  about' = about
  BY <1>4 DEF Create, TrackStatus, TrackHistory
<1> QED
  BY <1>1, <1>2, <1>3, <1>4 DEF CaseNext, Deliver, CrashAll, caseVars, allVars

\* Only a row that exists is about anything.
LEMMA RowsAreAboutCases == CaseSpec => []AboutInv
<1>1. CaseInit => AboutInv
  BY DEF CaseInit, AboutInv
<1>2. CaseInv /\ AboutInv /\ [CaseNext]_allVars => AboutInv'
  <2> SUFFICES ASSUME CaseInv, AboutInv, [CaseNext]_allVars,
                      NEW l \in Logs, about'[l] # None
               PROVE  logStatus'[l] # None
    BY DEF AboutInv
  <2>t. TypeOK /\ [Next]_vars
    BY CaseStepDelivers DEF CaseInv, CaseTypeOK, allVars
  <2>1. CASE about' = about
    BY <2>t, <2>1, RowsStay DEF AboutInv
  <2>2. ASSUME NEW h \in Callers, NEW m \in Logs, EnqueueSms(h, m)
        PROVE  logStatus'[l] # None
    <3>1. CASE l = m
      BY <2>t, <2>2, <3>1, NotificationsAssumption
         DEF EnqueueSms, InsertLog, TypeOK, MessageStatus
    <3>2. CASE l # m
      <4>1. about'[l] = about[l]
        BY <2>2, <3>2 DEF EnqueueSms, CaseInv, CaseTypeOK
      <4> QED BY <2>t, <4>1, RowsStay DEF AboutInv
    <3> QED BY <3>1, <3>2
  <2> QED
    BY <2>1, <2>2, AboutMoves
<1> QED
  BY <1>1, <1>2, TypesAndRequests, PTL DEF CaseSpec

ChangeSet(x) == {i \in 2 .. Len(history[x.case]) : history[x.case][i].new = x.status}
WaySet(x) == {h \in Callers : handler[h].pc \in Unreported /\ SubjectOf(h) = x}

\* What is counted is finite.
LEMMA CountsAreFinite ==
  ASSUME CaseInv, NEW x \in Subject
  PROVE  /\ IsFiniteSet(ChangeSet(x)) /\ Changes(x) = Cardinality(ChangeSet(x))
         /\ IsFiniteSet(RowsAbout(x)) /\ Cardinality(RowsAbout(x)) \in Nat
         /\ IsFiniteSet(WaySet(x)) /\ OnTheWay(x) = Cardinality(WaySet(x))
         /\ Cardinality(WaySet(x)) \in Nat /\ Cardinality(ChangeSet(x)) \in Nat
         /\ lost[x] \in Nat
<1>1. Len(history[x.case]) \in Nat
  BY DEF CaseInv, CaseTypeOK, Subject
<1>2. IsFiniteSet(2 .. Len(history[x.case]))
  BY <1>1, FS_Interval
<1>3. IsFiniteSet(ChangeSet(x))
  BY <1>2, FS_Subset DEF ChangeSet
<1>4. IsFiniteSet(RowsAbout(x))
  BY CaseAssumption, FS_Subset DEF RowsAbout
<1>5. IsFiniteSet(WaySet(x))
  BY FiniteRequests DEF WaySet
<1> QED
  BY <1>3, <1>4, <1>5, FS_CardinalityType
     DEF Changes, OnTheWay, ChangeSet, WaySet, CaseInv, CaseTypeOK

\* Every committed change is accounted for exactly once: it has its row, a
\* request is on the way to the row, or a fault hit between commit and row.
THEOREM ChangesAreAccounted == CaseSpec => []ChangesAreReported
<1>1. CaseInit => ChangesAreReported
  <2> SUFFICES ASSUME CaseInit, NEW x \in Subject
               PROVE  Changes(x) = Cardinality(RowsAbout(x)) + OnTheWay(x) + lost[x]
    BY DEF ChangesAreReported
  <2>1. ChangeSet(x) = {}
    <3>1. history[x.case] = <<>>
      BY DEF CaseInit, Subject
    <3> QED BY <3>1 DEF ChangeSet
  <2>2. RowsAbout(x) = {}
    BY CaseAssumption DEF CaseInit, RowsAbout, Subject
  <2>3. WaySet(x) = {}
    BY DEF CaseInit, NoRequest, Unreported, WaySet
  <2>4. Changes(x) = 0 /\ Cardinality(RowsAbout(x)) = 0 /\ OnTheWay(x) = 0
    <3>1. Cardinality(ChangeSet(x)) = 0 /\ Cardinality(RowsAbout(x)) = 0
          /\ Cardinality(WaySet(x)) = 0
      BY <2>1, <2>2, <2>3, FS_EmptySet
    <3> QED BY <3>1 DEF Changes, OnTheWay, ChangeSet, WaySet
  <2>5. lost[x] = 0
    BY DEF CaseInit
  <2> QED
    BY <2>4, <2>5
<1>2. CaseInv /\ CaseInv' /\ AboutInv /\ ChangesAreReported /\ [CaseNext]_allVars
        => ChangesAreReported'
  <2> SUFFICES ASSUME CaseInv, CaseInv', AboutInv, ChangesAreReported,
                      [CaseNext]_allVars, NEW x \in Subject
               PROVE  (Changes(x) = Cardinality(RowsAbout(x)) + OnTheWay(x) + lost[x])'
    BY DEF ChangesAreReported
  <2> DEFINE Aim == (Changes(x) = Cardinality(RowsAbout(x)) + OnTheWay(x) + lost[x])'
  <2>b. Cardinality(ChangeSet(x))
          = Cardinality(RowsAbout(x)) + Cardinality(WaySet(x)) + lost[x]
    BY CountsAreFinite DEF ChangesAreReported
  <2>f. /\ IsFiniteSet(ChangeSet(x)) /\ Cardinality(ChangeSet(x)) \in Nat
        /\ IsFiniteSet(RowsAbout(x)) /\ Cardinality(RowsAbout(x)) \in Nat
        /\ IsFiniteSet(WaySet(x)) /\ Cardinality(WaySet(x)) \in Nat
        /\ lost[x] \in Nat
    BY CountsAreFinite
  <2>g. ASSUME Cardinality(ChangeSet(x)')
                 = Cardinality(RowsAbout(x)') + Cardinality(WaySet(x)') + lost'[x]
        PROVE  Aim
    BY <2>g DEF Changes, OnTheWay, ChangeSet, WaySet
  <2>t. /\ history \in [Cases -> Seq(Entry)]
        /\ handler \in [Callers -> RequestType]
        /\ about \in [Logs -> Subject \cup {None}]
        /\ lost \in [Subject -> Nat]
    BY DEF CaseInv, CaseTypeOK, RequestType
  <2>c. history' = history => ChangeSet(x)' = ChangeSet(x)
    BY DEF ChangeSet
  <2>r. about' = about => RowsAbout(x)' = RowsAbout(x)
    BY DEF RowsAbout
  <2>w. ASSUME NEW h \in Callers, handler[h].pc \notin Unreported,
               handler'[h].pc \notin Unreported,
               \A q \in Callers : q # h => handler'[q] = handler[q]
        PROVE  WaySet(x)' = WaySet(x)
    BY <2>w DEF WaySet, SubjectOf
  <2>s. ASSUME handler' = handler PROVE WaySet(x)' = WaySet(x)
    BY <2>s DEF WaySet, SubjectOf
  <2>0. ASSUME UNCHANGED <<history, about, handler, lost>> PROVE Aim
    BY <2>0, <2>b, <2>g, <2>c, <2>r, <2>s
  <2>1. ASSUME NEW k \in Cases, Create(k) PROVE Aim
    <3>1. history[k] = <<>>
      BY <2>1 DEF Create, CaseInv, RequestInv
    <3>2. history' = [history EXCEPT ![k] = <<[old |-> None, new |-> SUBMITTED]>>]
          /\ UNCHANGED <<about, handler, lost>>
      BY <2>1 DEF Create
    <3>3. ChangeSet(x)' = ChangeSet(x)
      <4>1. CASE x.case = k
        <5>1. Len(history[x.case]) = 0 /\ Len(history'[x.case]) = 1
          BY <2>t, <3>1, <3>2, <4>1
        <5> QED BY <5>1 DEF ChangeSet
      <4>2. CASE x.case # k
        <5>1. history'[x.case] = history[x.case]
          BY <2>t, <3>2, <4>2 DEF Subject
        <5> QED BY <5>1 DEF ChangeSet
      <4> QED BY <4>1, <4>2
    <3> QED BY <2>b, <2>g, <2>r, <2>s, <3>2, <3>3
  <2>2. ASSUME NEW h \in Callers, NEW k \in Cases, NEW s \in Statuses, ReadCase(h, k, s)
        PROVE  Aim
    <3>1. handler[h].pc \notin Unreported /\ handler'[h].pc = "commit"
          /\ (\A q \in Callers : q # h => handler'[q] = handler[q])
          /\ UNCHANGED <<history, about, lost>>
      BY <2>2, <2>t DEF ReadCase, Resting, Unreported
    <3> QED BY <2>b, <2>g, <2>c, <2>r, <2>w, <3>1 DEF Unreported
  <2>3. ASSUME NEW h \in Callers, CommitStatus(h) PROVE Aim
    <3> DEFINE c == handler[h].case
               e == [old |-> handler[h].seen, new |-> handler[h].status]
               m == Len(history[c]) + 1
    <3>1. c \in Cases /\ handler[h].status \in Statuses /\ handler[h].seen \in Statuses \cup {None}
          /\ history[c] # <<>>
      BY <2>3, <2>t DEF CommitStatus, CaseInv, RequestInv, StatusIsLastInHistory,
                        Resting, RequestType
    <3>2. history' = [history EXCEPT ![c] = Append(history[c], e)]
          /\ handler' = [handler EXCEPT ![h].pc = "template"]
          /\ handler[h].pc = "commit"
          /\ UNCHANGED <<about, lost>>
      BY <2>3 DEF CommitStatus
    <3>3. history[c] \in Seq(Entry) /\ e \in Entry
      BY <2>t, <3>1 DEF Entry
    <3>0. Len(history[c]) \in Nat
      BY <3>3
    <3>4. /\ Len(history'[c]) = m /\ m \in Nat /\ m >= 2
          /\ history'[c][m] = e
          /\ \A n \in 1 .. m - 1 : history'[c][n] = history[c][n]
      BY <2>t, <3>1, <3>2, <3>3
    <3>5. \A k \in Cases : k # c => history'[k] = history[k]
      BY <2>t, <3>2
    <3>6. \A q \in Callers : SubjectOf(q)' = SubjectOf(q)
      BY <2>t, <3>2 DEF SubjectOf, RequestType
    <3>7. handler'[h].pc = "template" /\ \A q \in Callers : q # h => handler'[q] = handler[q]
      BY <2>t, <3>2 DEF RequestType
    <3>8. CASE x = SubjectOf(h)
      <4>1. x.case = c /\ x.status = e.new
        BY <3>8 DEF SubjectOf
      <4>2. ChangeSet(x)' = ChangeSet(x) \cup {m} /\ m \notin ChangeSet(x)
        <5>1. ChangeSet(x) = {n \in 2 .. Len(history[c]) : history[c][n].new = e.new}
              /\ ChangeSet(x)' = {n \in 2 .. m : history'[c][n].new = e.new}
          BY <3>4, <4>1 DEF ChangeSet
        <5>2. ASSUME NEW n \in 2 .. m
              PROVE  \/ n = m /\ history'[c][n].new = e.new
                     \/ n \in 2 .. Len(history[c]) /\ history'[c][n] = history[c][n]
          BY <3>0, <3>4
        <5>3. \A n \in 2 .. Len(history[c]) : n \in 2 .. m /\ n # m
          BY <3>0
        <5>4. m \in 2 .. m
          BY <3>4
        <5> HIDE DEF m, e
        <5> QED BY <5>1, <5>2, <5>3, <5>4
      <4>3. WaySet(x)' = WaySet(x) \cup {h} /\ h \notin WaySet(x)
        BY <3>2, <3>6, <3>7, <3>8 DEF WaySet, Unreported
      <4>4. Cardinality(ChangeSet(x)') = Cardinality(ChangeSet(x)) + 1
        BY <2>f, <4>2, FS_AddElement
      <4>5. Cardinality(WaySet(x)') = Cardinality(WaySet(x)) + 1
        BY <2>f, <4>3, FS_AddElement
      <4> QED BY <2>b, <2>f, <2>g, <2>r, <3>2, <4>4, <4>5
    <3>9. CASE x # SubjectOf(h)
      <4>1. WaySet(x)' = WaySet(x)
        BY <3>2, <3>6, <3>7, <3>9 DEF WaySet, Unreported
      <4>2. ChangeSet(x)' = ChangeSet(x)
        <5>1. CASE x.case # c
          BY <3>5, <5>1 DEF ChangeSet, Subject
        <5>2. CASE x.case = c
          <6>1. x.status # e.new
            BY <3>9, <5>2 DEF SubjectOf, Subject
          <6>2. ChangeSet(x) = {n \in 2 .. Len(history[c]) : history[c][n].new = x.status}
                /\ ChangeSet(x)' = {n \in 2 .. m : history'[c][n].new = x.status}
            BY <3>4, <5>2 DEF ChangeSet
          <6>3. ASSUME NEW n \in 2 .. m
                PROVE  \/ n = m /\ history'[c][n].new = e.new
                       \/ n \in 2 .. Len(history[c]) /\ history'[c][n] = history[c][n]
            BY <3>0, <3>4
          <6>4. \A n \in 2 .. Len(history[c]) : n \in 2 .. m /\ history'[c][n] = history[c][n]
            BY <3>0, <3>4
          <6> HIDE DEF m, e
          <6> QED BY <6>1, <6>2, <6>3, <6>4
        <5> QED BY <5>1, <5>2
      <4> QED BY <2>b, <2>g, <2>r, <3>2, <4>1, <4>2
    <3> QED BY <3>8, <3>9
  <2>4. ASSUME NEW h \in Callers, CommitFails(h) PROVE Aim
    <3>1. handler[h].pc = "commit" /\ handler'[h].pc = "error"
          /\ (\A q \in Callers : q # h => handler'[q] = handler[q])
          /\ UNCHANGED <<history, about, lost>>
      BY <2>4, <2>t DEF CommitFails, RequestType
    <3> QED BY <2>b, <2>g, <2>c, <2>r, <2>w, <3>1 DEF Unreported
  <2>5. ASSUME NEW h \in Callers, BuildMessage(h) PROVE Aim
    <3>1. handler[h].pc = "template" /\ handler' = [handler EXCEPT ![h].pc = "enqueue"]
          /\ UNCHANGED <<history, about, lost>>
      BY <2>5 DEF BuildMessage
    <3>2. \A q \in Callers : SubjectOf(q)' = SubjectOf(q)
      BY <2>t, <3>1 DEF SubjectOf, RequestType
    <3>3. \A q \in Callers : handler'[q].pc \in Unreported <=> handler[q].pc \in Unreported
      BY <2>t, <3>1 DEF Unreported, RequestType
    <3>4. WaySet(x)' = WaySet(x)
      BY <3>2, <3>3 DEF WaySet
    <3> QED BY <2>b, <2>g, <2>c, <2>r, <3>1, <3>4
  <2>d. ASSUME NEW h \in Callers, NEW p, p \notin Unreported, handler[h].pc \in Unreported,
               handler'[h].pc = p, \A q \in Callers : q # h => handler'[q] = handler[q]
        PROVE  Cardinality(WaySet(x)') = IF x = SubjectOf(h) THEN Cardinality(WaySet(x)) - 1
                                                             ELSE Cardinality(WaySet(x))
    <3>1. WaySet(x)' = WaySet(x) \ {h}
      BY <2>d DEF WaySet, SubjectOf
    <3>2. h \in WaySet(x) <=> x = SubjectOf(h)
      BY <2>d DEF WaySet
    <3> QED BY <2>f, <3>1, <3>2, FS_RemoveElement
  <2>6. ASSUME NEW h \in Callers, NEW l \in Logs, EnqueueSms(h, l) PROVE Aim
    <3>1. handler[h].pc = "enqueue"
          /\ handler' = [handler EXCEPT ![h].pc = "queue", ![h].log = l]
          /\ about' = [about EXCEPT ![l] = SubjectOf(h)]
          /\ UNCHANGED <<history, lost>>
      BY <2>6 DEF EnqueueSms
    <3>2. handler'[h].pc = "queue" /\ \A q \in Callers : q # h => handler'[q] = handler[q]
      BY <2>t, <3>1 DEF RequestType
    <3>3. about[l] = None
      BY <2>6 DEF EnqueueSms, InsertLog, AboutInv
    <3>4. l \notin RowsAbout(x)
      BY <3>3, CaseAssumption DEF RowsAbout, Subject
    <3>5. Cardinality(WaySet(x)') = IF x = SubjectOf(h) THEN Cardinality(WaySet(x)) - 1
                                                        ELSE Cardinality(WaySet(x))
      BY <2>d, <3>1, <3>2 DEF Unreported
    <3>6. CASE x = SubjectOf(h)
      <4>1. RowsAbout(x)' = RowsAbout(x) \cup {l}
        BY <2>t, <3>1, <3>6 DEF RowsAbout
      <4>2. Cardinality(RowsAbout(x)') = Cardinality(RowsAbout(x)) + 1
        BY <2>f, <3>4, <4>1, FS_AddElement
      <4> QED BY <2>b, <2>f, <2>g, <2>c, <3>1, <3>5, <3>6, <4>2
    <3>7. CASE x # SubjectOf(h)
      <4>1. RowsAbout(x)' = RowsAbout(x)
        BY <2>t, <3>1, <3>4, <3>7 DEF RowsAbout
      <4> QED BY <2>b, <2>g, <2>c, <3>1, <3>5, <3>7, <4>1
    <3> QED BY <3>6, <3>7
  <2>7. ASSUME NEW h \in Callers, ReportFails(h) PROVE Aim
    <3>1. handler[h].pc \in Unreported
          /\ handler' = [handler EXCEPT ![h].pc = "error"]
          /\ lost' = [lost EXCEPT ![SubjectOf(h)] = lost[SubjectOf(h)] + 1]
          /\ UNCHANGED <<history, about>>
      BY <2>7 DEF ReportFails
    <3>2. handler'[h].pc = "error" /\ \A q \in Callers : q # h => handler'[q] = handler[q]
      BY <2>t, <3>1 DEF RequestType
    <3>3. Cardinality(WaySet(x)') = IF x = SubjectOf(h) THEN Cardinality(WaySet(x)) - 1
                                                        ELSE Cardinality(WaySet(x))
      BY <2>d, <3>1, <3>2 DEF Unreported
    <3>4. lost'[x] = IF x = SubjectOf(h) THEN lost[x] + 1 ELSE lost[x]
      BY <2>t, <3>1
    <3> QED BY <2>b, <2>f, <2>g, <2>c, <2>r, <3>1, <3>3, <3>4
  <2>8. ASSUME NEW h \in Callers, NEW result \in {"ok", "error"}, Answer(h, result),
               UNCHANGED <<history, about, lost>>
        PROVE  Aim
    <3>1. CASE handler[h].pc = "queue"
      <4>1. handler'[h].pc = result /\ \A q \in Callers : q # h => handler'[q] = handler[q]
        BY <2>8, <2>t, <3>1 DEF Answer, RequestType
      <4> QED BY <2>8, <2>b, <2>g, <2>c, <2>r, <2>w, <3>1, <4>1 DEF Unreported
    <3>2. CASE handler[h].pc # "queue"
      BY <2>0, <2>8, <3>2 DEF Answer
    <3> QED BY <3>1, <3>2
  <2>9. CASE CrashAll
    <3>1. UNCHANGED <<history, about>>
          /\ lost'[x] = lost[x] + Cardinality(WaySet(x))
      BY <2>9 DEF CrashAll, WaySet
    <3>2. WaySet(x)' = {}
      BY <2>9, CrashTyped DEF CaseInv, WaySet, Resting, Unreported
    <3>3. Cardinality(WaySet(x)') = 0
      BY <3>2, FS_EmptySet
    <3> QED BY <2>b, <2>f, <2>g, <2>c, <2>r, <3>1, <3>3
  <2> QED
    <3>1. ASSUME NEW h \in Callers, UpdateStatus(h) PROVE Aim
      BY <3>1, <2>2, <2>3, <2>4, <2>5, <2>6, <2>7, <2>8
         DEF UpdateStatus, AddJobAnswer, AddJobFailsAnswer
    <3>2. ASSUME NEW h \in Callers, NEW l \in Logs, Resend(h, l) PROVE UNCHANGED caseVars
      BY <3>2 DEF Resend
    <3>3. ASSUME NEW h \in Callers, ResendReset(h) PROVE UNCHANGED caseVars
      BY <3>3 DEF ResendReset
    <3>4. Deliver \/ UNCHANGED allVars => UNCHANGED caseVars
      BY DEF Deliver, allVars
    <3>5. UNCHANGED caseVars => UNCHANGED <<history, about, handler, lost>>
      BY DEF caseVars
    <3>6. ASSUME NEW k \in Cases, TrackStatus(k) \/ TrackHistory(k)
          PROVE  UNCHANGED <<history, about, handler, lost>>
      BY <3>6 DEF TrackStatus, TrackHistory
    <3> QED
      BY <2>0, <2>1, <2>9, <3>1, <3>2, <3>3, <3>4, <3>5, <3>6 DEF CaseNext
<1> QED
  BY <1>1, <1>2, TypesAndRequests, RowsAreAboutCases, PTL DEF CaseSpec

-----------------------------------------------------------------------------
(* The timeline *)

LEMMA MaxOf ==
  ASSUME NEW S \in SUBSET Nat, S # {}, NEW b \in Nat, \A x \in S : x <= b
  PROVE  Max(S) \in S /\ \A y \in S : y <= Max(S)
<1> DEFINE T == {n \in Nat : \E x \in S : n = b - x}
<1>1. T \subseteq Nat /\ T # {}
  <2>1. PICK x : x \in S
    OBVIOUS
  <2>2. b - x \in T
    BY <2>1
  <2> QED BY <2>2
<1> DEFINE R == OpToRel(<, Nat)
<1>2. IsWellFoundedOn(R, Nat)
  BY NatLessThanWellFounded
<1> HIDE DEF T, R
<1>3. PICK n \in T : \A m \in T : ~ (<<m, n>> \in R)
  BY <1>1, <1>2, WFMin
<1> USE DEF T
<1>4. \A m \in T : ~ (m < n)
  BY <1>3 DEF R, OpToRel
<1>5. PICK x \in S : n = b - x
  BY <1>3
<1>6. \A y \in S : x >= y
  BY <1>4, <1>5
<1> QED BY <1>6 DEF Max

\* StageOf is the inverse of STAGE_ORDER, and 0 where it has none.
LEMMA StageIsIndex ==
  ASSUME NEW s
  PROVE  /\ StageOf(s) \in 0 .. 4
         /\ StageOf(s) # 0 => STAGE_ORDER[StageOf(s)] = s
         /\ \A i \in 1 .. 4 : STAGE_ORDER[i] = s => StageOf(s) = i
<1>1. DOMAIN STAGE_ORDER = 1 .. 4
  BY DEF STAGE_ORDER
<1>2. \A i, j \in 1 .. 4 : STAGE_ORDER[i] = STAGE_ORDER[j] => i = j
  BY DEF STAGE_ORDER
<1>3. CASE \E i \in 1 .. 4 : STAGE_ORDER[i] = s
  <2>1. PICK i \in 1 .. 4 : STAGE_ORDER[i] = s
    BY <1>3
  <2>2. StageOf(s) = i
    BY <1>1, <1>2, <2>1 DEF StageOf
  <2> QED BY <1>2, <2>1, <2>2
<1>4. CASE ~ \E i \in 1 .. 4 : STAGE_ORDER[i] = s
  BY <1>1, <1>4 DEF StageOf
<1> QED BY <1>3, <1>4

\* A stage that a history has an entry for shows the date of one.
LEMMA EntryIsShown ==
  ASSUME NEW h \in Seq(Entry), NEW i \in 1 .. 4, NEW n \in DOMAIN h, h[n].new = STAGE_ORDER[i]
  PROVE  EntryShown(h, i) # 0
<1> DEFINE S == {m \in DOMAIN h : h[m].new = STAGE_ORDER[i]} \cup {0}
<1>1. DOMAIN h = 1 .. Len(h) /\ Len(h) \in Nat
  OBVIOUS
<1>2. S \subseteq Nat /\ n \in S /\ \A x \in S : x <= Len(h)
  BY <1>1
<1> HIDE DEF S
<1>3. n <= Max(S)
  BY <1>1, <1>2, MaxOf
<1>4. EntryShown(h, i) = Max(S)
  BY DEF EntryShown, S
<1> QED BY <1>1, <1>3, <1>4

\* The furthest stage of a history that begins with the first one is a stage, and
\* the history has an entry for it.
LEMMA ReachedIsEntered ==
  ASSUME NEW h \in Seq(Entry), h # <<>>, h[1].new = STAGE_ORDER[1]
  PROVE  /\ ReachedIndex(h) \in 1 .. 4
         /\ \E n \in DOMAIN h : h[n].new = STAGE_ORDER[ReachedIndex(h)]
<1> DEFINE S == {StageOf(h[n].new) : n \in DOMAIN h} \cup {0}
<1>1. DOMAIN h = 1 .. Len(h) /\ Len(h) \in Nat /\ 1 \in DOMAIN h
  OBVIOUS
<1>2. S \subseteq Nat /\ 1 \in S /\ \A x \in S : x <= 4
  BY <1>1, StageIsIndex
<1>3. ReachedIndex(h) = Max(S)
  BY DEF ReachedIndex
<1> HIDE DEF S
<1>4. PICK m \in S : m = Max(S) /\ m \in 1 .. 4
  <2>1. Max(S) \in S /\ 1 <= Max(S)
    BY <1>2, MaxOf
  <2>2. Max(S) \in 1 .. 4
    <3> DEFINE m == Max(S)
    <3>1. m \in S /\ 1 <= m
      BY <2>1
    <3> HIDE DEF m
    <3>2. m \in 1 .. 4
      BY <1>2, <3>1
    <3> QED BY <3>2 DEF m
  <2> QED BY <2>1, <2>2
<1>5. PICK n \in DOMAIN h : m = StageOf(h[n].new)
  <2>1. m # 0
    BY <1>4
  <2> QED BY <2>1 DEF S
<1>6. STAGE_ORDER[m] = h[n].new
  BY <1>4, <1>5, StageIsIndex
<1>7. ReachedIndex(h) = m
  BY <1>3, <1>4
<1> QED BY <1>4, <1>6, <1>7

\* Every history a case can have, with every status it has had, marks one stage,
\* and the history has an entry for it.
LEMMA OneStageIsMarked ==
  ASSUME NEW h \in Seq(Entry), h # <<>>, h[1].new = SUBMITTED,
         NEW s \in Statuses, NEW n \in DOMAIN h, h[n].new = s
  PROVE  /\ Cardinality(Marked(s, h)) = 1
         /\ \A i \in Marked(s, h) : EntryShown(h, i) # 0
<1> DEFINE c == CurrentIndex(s, h)
<1>1. c \in 1 .. 4 /\ \E m \in DOMAIN h : h[m].new = STAGE_ORDER[c]
  <2>1. CASE IsFailed(s)
    BY <2>1, ReachedIsEntered, StageAssumption DEF CurrentIndex
  <2>2. CASE ~ IsFailed(s)
    BY <2>2, StageIsIndex, StageAssumption DEF CurrentIndex
  <2> QED BY <2>1, <2>2
<1>2. Marked(s, h) = {c}
  <2>1. DOMAIN STAGE_ORDER = 1 .. 4
    BY DEF STAGE_ORDER
  <2> QED BY <1>1, <2>1 DEF Marked, Mark
<1>3. EntryShown(h, c) # 0
  BY <1>1, EntryIsShown
<1> QED BY <1>2, <1>3, FS_Singleton

\* What a tracking request has read stays in the history it goes on to read.
LEMMA TrackedIsInHistory == CaseSpec => []TrackInv
<1>1. CaseInit => TrackInv
  BY DEF CaseInit, TrackInv
<1>2. CaseInv /\ TrackInv /\ [CaseNext]_allVars => TrackInv'
  <2> SUFFICES ASSUME CaseInv, TrackInv, [CaseNext]_allVars PROVE TrackInv'
    OBVIOUS
  <2>t. /\ history \in [Cases -> Seq(Entry)] /\ tracked \in [Cases -> Statuses \cup {None}]
        /\ caseStatus \in [Cases -> Statuses \cup {None}]
    BY DEF CaseInv, CaseTypeOK
  <2>1. ASSUME NEW k \in Cases, TrackStatus(k) PROVE TrackInv'
    <3>1. /\ history' = history /\ caseStatus[k] # None
          /\ tracked' = [tracked EXCEPT ![k] = caseStatus[k]]
      BY <2>1 DEF TrackStatus
    <3>2. Len(history[k]) \in DOMAIN history[k]
          /\ history[k][Len(history[k])].new = caseStatus[k]
      BY <2>t, <3>1 DEF CaseInv, StatusIsLastInHistory
    <3> QED BY <2>t, <3>1, <3>2 DEF TrackInv
  <2>2. CASE /\ history' = history
             /\ \A k \in Cases : tracked'[k] = tracked[k] \/ tracked'[k] = None
    BY <2>2 DEF TrackInv
  <2>3. ASSUME NEW k \in Cases, Create(k) PROVE TrackInv'
    <3>1. /\ history[k] = <<>> /\ tracked' = tracked
          /\ history' = [history EXCEPT ![k] = <<[old |-> None, new |-> SUBMITTED]>>]
      BY <2>3 DEF Create, CaseInv, RequestInv
    <3>2. tracked[k] = None
      BY <3>1 DEF TrackInv
    <3> QED BY <2>t, <3>1, <3>2 DEF TrackInv
  <2>4. ASSUME NEW h \in Callers, CommitStatus(h) PROVE TrackInv'
    <3>1. PICK c \in Cases, e \in Entry :
            tracked' = tracked /\ history' = [history EXCEPT ![c] = Append(history[c], e)]
            /\ history[c] # <<>>
      <4> DEFINE e == [old |-> handler[h].seen, new |-> handler[h].status]
      <4>1. handler[h].case \in Cases /\ e \in Entry /\ history[handler[h].case] # <<>>
        BY <2>4 DEF CommitStatus, CaseInv, CaseTypeOK, RequestInv, Resting, Entry,
                    StatusIsLastInHistory
      <4>2. /\ tracked' = tracked
            /\ history' = [history EXCEPT ![handler[h].case] =
                             Append(history[handler[h].case], e)]
        BY <2>4 DEF CommitStatus
      <4> QED BY <4>1, <4>2
    <3>2. /\ DOMAIN history[c] \subseteq DOMAIN history'[c] /\ 1 \in DOMAIN history[c]
          /\ \A n \in DOMAIN history[c] : history'[c][n] = history[c][n]
      BY <2>t, <3>1
    <3>3. \A k \in Cases : k # c => history'[k] = history[k]
      BY <2>t, <3>1
    <3> QED BY <3>1, <3>2, <3>3 DEF TrackInv
  <2>5. \/ \E k \in Cases : Create(k) \/ TrackStatus(k)
        \/ \E h \in Callers : CommitStatus(h)
        \/ \A k \in Cases : tracked'[k] = tracked[k] \/ tracked'[k] = None
    <3>1. ASSUME NEW h \in Callers, UpdateStatus(h) PROVE tracked' = tracked
      BY <3>1 DEF UpdateStatus, ReadCase, CommitStatus, CommitFails, BuildMessage, EnqueueSms,
                  ReportFails, AddJobAnswer, AddJobFailsAnswer
    <3>2. ASSUME NEW h \in Callers, NEW l \in Logs, Resend(h, l) PROVE tracked' = tracked
      BY <3>2 DEF Resend, caseVars
    <3>3. ASSUME NEW h \in Callers, ResendReset(h) PROVE tracked' = tracked
      BY <3>3 DEF ResendReset, caseVars
    <3>4. ASSUME NEW k \in Cases, TrackHistory(k)
          PROVE  \A j \in Cases : tracked'[j] = tracked[j] \/ tracked'[j] = None
      BY <2>t, <3>4 DEF TrackHistory
    <3>5. CASE Deliver \/ CrashAll \/ UNCHANGED allVars
      BY <3>5 DEF Deliver, CrashAll, caseVars, allVars
    <3> QED BY <3>1, <3>2, <3>3, <3>4, <3>5 DEF CaseNext
  <2>6. history' = history \/ (\E k \in Cases : Create(k)) \/ \E h \in Callers : CommitStatus(h)
    BY HistoryMoves
  <2> QED BY <2>1, <2>2, <2>3, <2>4, <2>5, <2>6
<1> QED BY <1>1, <1>2, TypesAndRequests, PTL DEF CaseSpec

\* For every number of cases, requests and changes: whatever is committed between
\* the two queries of a tracking request, the timeline marks exactly one stage, as
\* current or as the one the case failed in, and the history it shows has an entry
\* to date that stage.  Stages before it are drawn as done and may have none: a case
\* that skipped them shows a dash beside them.
THEOREM TimelinesAreDated == CaseSpec => []TimelineIsDated
<1>1. CaseInv /\ TrackInv => TimelineIsDated
  <2> SUFFICES ASSUME CaseInv, TrackInv, NEW k \in Cases, tracked[k] # None
               PROVE  /\ Cardinality(Marked(tracked[k], history[k])) = 1
                      /\ \A i \in Marked(tracked[k], history[k]) :
                           EntryShown(history[k], i) # 0
    BY DEF TimelineIsDated
  <2>1. history[k] \in Seq(Entry) /\ tracked[k] \in Statuses
    BY DEF CaseInv, CaseTypeOK
  <2>2. PICK n \in DOMAIN history[k] : history[k][n].new = tracked[k]
    BY DEF TrackInv
  <2>3. history[k] # <<>> /\ history[k][1].new = SUBMITTED
    BY <2>1, <2>2 DEF TrackInv
  <2> QED BY <2>1, <2>2, <2>3, OneStageIsMarked
<1> QED BY <1>1, TypesAndRequests, TrackedIsInHistory, PTL
=============================================================================
