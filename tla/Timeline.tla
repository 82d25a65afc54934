------------------------------ MODULE Timeline ------------------------------
(***************************************************************************)
(* What the timeline of a case shows a customer or an admin, computed by   *)
(* components/ui/Timeline.tsx from the status of the case and its history. *)
(* A history is a sequence of records with a field "new", oldest first.    *)
(***************************************************************************)
EXTENDS Naturals, Sequences, FiniteSets, FiniteSetsExt

STAGE_ORDER == <<"SUBMITTED", "DOCUMENT_REVIEW", "AGENCY_FOLLOW_UP", "COMPLETED">>

\* STAGE_ORDER.indexOf, counting from 1; 0 when the status is no stage.
StageOf(status) ==
  IF \E i \in DOMAIN STAGE_ORDER : STAGE_ORDER[i] = status
  THEN CHOOSE i \in DOMAIN STAGE_ORDER : STAGE_ORDER[i] = status
  ELSE 0

\* Mutant: the stage of the last entry.
ReachedIndexLast(history) ==
  IF history = <<>> THEN 0 ELSE StageOf(history[Len(history)].new)

\* The furthest stage the case was ever in.
ReachedIndex(history) == Max({StageOf(history[n].new) : n \in DOMAIN history} \cup {0})

IsFailed(status) == status = "FAILED"

CurrentIndex(status, history) ==
  IF IsFailed(status) THEN ReachedIndex(history) ELSE StageOf(status)

\* How the dot of a stage is drawn.
Mark(status, history, i) ==
  LET current == CurrentIndex(status, history) IN
  IF i = current THEN (IF IsFailed(status) THEN "failed" ELSE "current")
  ELSE IF i < current THEN "done" ELSE "ahead"

\* The entry whose date and note stand beside a stage, 0 for a dash: a Map keeps
\* the last one.
EntryShown(history, i) == Max({n \in DOMAIN history : history[n].new = STAGE_ORDER[i]} \cup {0})

Marked(status, history) ==
  {i \in DOMAIN STAGE_ORDER : Mark(status, history, i) \in {"current", "failed"}}
=============================================================================
