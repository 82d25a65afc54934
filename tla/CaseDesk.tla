------------------------------ MODULE CaseDesk ------------------------------
(***************************************************************************)
(* The page on which staff work on one case (app/admin/cases/[id]): it     *)
(* loads the case, previews the SMS of a new status, confirms the change   *)
(* and saves internal notes.  Meanwhile other staff change the same case   *)
(* and the templates of the settings page.                                 *)
(*                                                                         *)
(* A request is served in one step; the steps inside updateStatus are in   *)
(* CaseLifecycle.  One case: its tracking code is the same in every text,  *)
(* so a message is told apart by its template.                             *)
(***************************************************************************)
EXTENDS Browser

CONSTANTS
  CaseStatuses, \* statuses of the select
  Texts,        \* texts an SMS template may have
  Notes         \* internal notes

ASSUME DeskAssumption ==
  None \notin CaseStatuses \cup Texts \cup Notes \cup {"load", "preview", "confirm", "notes"}

VARIABLES
  row,          \* the case in Postgres: status and internal notes
  template,     \* Setting rows: the template of each status, for its category
  desk,         \* the state of the page's component
  errand,       \* API calls of the page
  doubt,        \* history: why the page may differ from the case
  wrongSms      \* history: an SMS differed from its preview without excuse

deskVars == <<row, template, desk, errand, doubt, wrongSms>>

Gone == [mounted |-> FALSE, loaded |-> FALSE, failed |-> FALSE, status |-> None,
         selected |-> None, preview |-> None, previewing |-> FALSE,
         submitting |-> FALSE, notes |-> None, dirty |-> FALSE, saving |-> FALSE,
         excused |-> FALSE]
NoErrand == [pc |-> "idle", kind |-> None, mine |-> FALSE, status |-> None,
             text |-> None, excused |-> FALSE]

DeskTypeOK ==
  /\ row \in [status : CaseStatuses, notes : Notes]
  /\ template \in [CaseStatuses -> Texts]
  /\ desk.loaded => /\ desk.status \in CaseStatuses
                    /\ desk.selected \in CaseStatuses
                    /\ desk.notes \in Notes
  /\ desk.preview \in Texts \cup {None}
  /\ \A kind \in {"preview", "confirm", "notes"} :
       Cardinality({q \in Calls : errand[q].mine /\ errand[q].kind = kind}) <= 1
  /\ \A q \in Calls :
       errand[q].pc = "idle" <=> errand[q] = NoErrand
  /\ doubt \in BOOLEAN
  /\ wrongSms \in BOOLEAN

DeskInit ==
  /\ row \in [status : CaseStatuses, notes : Notes]
  /\ template \in [CaseStatuses -> Texts]
  /\ desk = Gone
  /\ errand = [q \in Calls |-> NoErrand]
  /\ doubt = FALSE
  /\ wrongSms = FALSE

-----------------------------------------------------------------------------
(* Loading *)

\* The error text has replaced the page for the rest of the visit, or there is
\* nothing to show yet.
Working == desk.mounted /\ desk.loaded /\ ~ desk.failed

Errands(kinds) == {q \in Calls : errand[q].mine /\ errand[q].kind \in kinds}

\* A load and a save of the notes that are under way together may leave on the
\* page what the load read before the save.
LoadCase(q, d) ==
  \/ /\ errand' = [errand EXCEPT ![q] = [NoErrand EXCEPT
          !.pc = "sent", !.kind = "load", !.mine = TRUE]]
     /\ desk' = d
     /\ doubt' = IF Errands({"load", "notes", "preview", "confirm"}) \ {q} = {} THEN FALSE
                 ELSE doubt \/ Errands({"load", "notes"}) \ {q} # {}
  \/ /\ FALSE \in TokenHere
     /\ errand' = [errand EXCEPT ![q] = NoErrand]
     /\ desk' = [d EXCEPT !.failed = TRUE]
     /\ UNCHANGED doubt

OpenCase(q) ==
  /\ ~ desk.mounted
  /\ errand[q].pc = "idle"
  /\ LoadCase(q, [Gone EXCEPT !.mounted = TRUE])
  /\ UNCHANGED <<row, template, wrongSms>>

\* A change that was sent still reaches the server; no answer has a page.
Unread == {q \in Calls : errand[q].pc = "sent" /\ errand[q].kind \in {"confirm", "notes"}}

LeaveCase ==
  /\ desk.mounted
  /\ desk' = Gone
  /\ errand' = [q \in Calls |->
       IF q \in Unread THEN [errand[q] EXCEPT !.mine = FALSE] ELSE NoErrand]
  /\ UNCHANGED <<row, template, doubt, wrongSms>>

-----------------------------------------------------------------------------
(* What staff do on the page *)

\* The select: its change hides the preview, but not one still to come.
SelectStatus(s) ==
  /\ Working
  /\ s # desk.selected
  /\ desk' = [desk EXCEPT !.selected = s, !.preview = None, !.excused = desk.previewing]
  /\ UNCHANGED <<row, template, errand, doubt, wrongSms>>

\* A new call of one of the page's buttons, with the selected status.
Click(q, kind, text, excused) ==
  /\ errand[q].pc = "idle"
  /\ errand' = [errand EXCEPT ![q] = [pc |-> "sent", kind |-> kind, mine |-> TRUE,
       status |-> desk.selected, text |-> text, excused |-> excused]]
  /\ UNCHANGED <<row, template, wrongSms>>

\* The button under the form is the preview's until there is one to confirm ...
Preview(q) ==
  /\ Working
  /\ desk.preview = None /\ ~ desk.previewing
  /\ Click(q, "preview", None, FALSE)
  /\ desk' = [desk EXCEPT !.previewing = TRUE, !.excused = FALSE]
  /\ UNCHANGED doubt

\* Mutant: the button confirms without a look at a preview.
ConfirmUnseen(q) ==
  /\ Working
  /\ ~ desk.submitting
  /\ Click(q, "confirm", IF desk.preview = None THEN template[desk.status] ELSE desk.preview,
           desk.excused)
  /\ desk' = [desk EXCEPT !.submitting = TRUE]
  /\ UNCHANGED doubt

\* ... and then sends the status selected by now.
ConfirmStatus(q) ==
  /\ Working
  /\ desk.preview # None /\ ~ desk.submitting
  /\ Click(q, "confirm", desk.preview, desk.excused)
  /\ desk' = [desk EXCEPT !.submitting = TRUE]
  /\ UNCHANGED doubt

TypeNotes(n) ==
  /\ Working
  /\ n # desk.notes
  /\ desk' = [desk EXCEPT !.notes = n, !.dirty = TRUE]
  /\ UNCHANGED <<row, template, errand, doubt, wrongSms>>

SaveNotes(q) ==
  /\ Working
  /\ ~ desk.saving
  /\ Click(q, "notes", desk.notes, FALSE)
  /\ desk' = [desk EXCEPT !.saving = TRUE, !.dirty = FALSE]
  /\ doubt' = (doubt \/ Errands({"load"}) # {})

-----------------------------------------------------------------------------
(* The API *)

Answered(q, text) == errand' = [errand EXCEPT ![q].pc = "answered", ![q].text = text]
Forgotten(q) == errand' = [errand EXCEPT ![q] = NoErrand]

\* findOneForAdmin.  The status of the answer is the row's.
ServeCase(q) ==
  /\ errand[q].pc = "sent" /\ errand[q].kind = "load"
  /\ errand' = [errand EXCEPT ![q].pc = "answered", ![q].status = row.status,
                              ![q].text = row.notes]
  /\ UNCHANGED <<row, template, desk, doubt, wrongSms>>

\* previewSms renders the template as it is now.
ServePreview(q) ==
  /\ errand[q].pc = "sent" /\ errand[q].kind = "preview"
  /\ Answered(q, template[errand[q].status])
  /\ UNCHANGED <<row, template, desk, doubt, wrongSms>>

\* updateStatus: the new status, and an SMS from the template as it is now.
ServeStatus(q) ==
  LET s == errand[q].status IN
  /\ errand[q].pc = "sent" /\ errand[q].kind = "confirm"
  /\ row' = [row EXCEPT !.status = s]
  /\ wrongSms' = (wrongSms \/ (~ errand[q].excused /\ template[s] # errand[q].text))
  /\ IF errand[q].mine
     THEN Answered(q, None) /\ UNCHANGED doubt
     ELSE Forgotten(q) /\ doubt' = TRUE
  /\ UNCHANGED <<template, desk>>

\* updateInternalNotes.
ServeNotes(q) ==
  /\ errand[q].pc = "sent" /\ errand[q].kind = "notes"
  /\ row' = [row EXCEPT !.notes = errand[q].text]
  /\ IF errand[q].mine
     THEN Answered(q, None) /\ UNCHANGED doubt
     ELSE Forgotten(q) /\ doubt' = TRUE
  /\ UNCHANGED <<template, desk, wrongSms>>

\* Other staff work on the same case.
CaseElsewhere(r) ==
  /\ "elsewhere" \in Mishaps
  /\ desk.mounted
  /\ r # row
  /\ row' = r
  /\ doubt' = TRUE
  /\ UNCHANGED <<template, desk, errand, wrongSms>>

\* updateSmsTemplate: a preview of that status shown, or on its way, is no longer
\* the text of the SMS.
UpdateTemplate(s, t) ==
  /\ "elsewhere" \in Mishaps
  /\ t # template[s]
  /\ template' = [template EXCEPT ![s] = t]
  /\ desk' = [desk EXCEPT !.excused = @ \/ desk.preview # None \/ desk.previewing]
  /\ errand' = [q \in Calls |->
       IF errand[q].kind = "confirm" THEN [errand[q] EXCEPT !.excused = TRUE] ELSE errand[q]]
  /\ UNCHANGED <<row, doubt, wrongSms>>

-----------------------------------------------------------------------------
(* Answers *)

\* Status, select and notes become the answer's, whatever was chosen or typed
\* since; a preview stays, also one of another status.
AnswerCase(q) ==
  /\ errand[q].pc = "answered" /\ errand[q].kind = "load"
  /\ Forgotten(q)
  /\ desk' = [desk EXCEPT !.loaded = TRUE, !.status = errand[q].status,
       !.selected = errand[q].status, !.notes = errand[q].text, !.dirty = FALSE,
       !.excused = @ \/ desk.preview # None \/ desk.previewing]
  /\ UNCHANGED <<row, template, doubt, wrongSms>>

AnswerPreview(q) ==
  /\ errand[q].pc = "answered" /\ errand[q].kind = "preview"
  /\ Forgotten(q)
  /\ desk' = [desk EXCEPT !.preview = errand[q].text, !.previewing = FALSE]
  /\ UNCHANGED <<row, template, doubt, wrongSms>>

\* Mutant: the page keeps the case it has.
AnswerStatusKeeps(q) ==
  /\ errand[q].pc = "answered" /\ errand[q].kind = "confirm"
  /\ Forgotten(q)
  /\ desk' = [desk EXCEPT !.preview = None, !.submitting = FALSE]
  /\ UNCHANGED <<row, template, doubt, wrongSms>>

\* Success: the preview goes and the case is loaded again.
AnswerStatus(q) ==
  /\ errand[q].pc = "answered" /\ errand[q].kind = "confirm"
  /\ LoadCase(q, [desk EXCEPT !.preview = None, !.submitting = FALSE])
  /\ UNCHANGED <<row, template, wrongSms>>

AnswerNotes(q) ==
  /\ errand[q].pc = "answered" /\ errand[q].kind = "notes"
  /\ Forgotten(q)
  /\ desk' = [desk EXCEPT !.saving = FALSE]
  /\ UNCHANGED <<row, template, doubt, wrongSms>>

\* A call fails, before or after the server has done it, or while it still will.
ErrandFails(q) ==
  /\ "network" \in Mishaps
  /\ errand[q].pc # "idle" /\ errand[q].mine
  /\ \/ Forgotten(q)
     \/ q \in Unread /\ errand' = [errand EXCEPT ![q].mine = FALSE]
  /\ desk' = CASE errand[q].kind = "load"    -> [desk EXCEPT !.failed = TRUE]
               [] errand[q].kind = "preview" -> [desk EXCEPT !.previewing = FALSE]
               [] errand[q].kind = "confirm" -> [desk EXCEPT !.submitting = FALSE]
               [] errand[q].kind = "notes"   -> [desk EXCEPT !.saving = FALSE]
  /\ doubt' = TRUE
  /\ UNCHANGED <<row, template, wrongSms>>

-----------------------------------------------------------------------------
AtDesk ==
  \/ \E q \in Calls : OpenCase(q)
  \/ LeaveCase
  \/ \E s \in CaseStatuses : SelectStatus(s)
  \/ \E q \in Calls : Preview(q) \/ ConfirmStatus(q) \/ SaveNotes(q)
  \/ \E n \in Notes : TypeNotes(n)

OnErrand(q) ==
  \/ ServeCase(q) \/ ServePreview(q) \/ ServeStatus(q) \/ ServeNotes(q)
  \/ AnswerCase(q) \/ AnswerPreview(q) \/ AnswerStatus(q) \/ AnswerNotes(q)
  \/ ErrandFails(q)

DeskNext ==
  \/ AtDesk
  \/ \E q \in Calls : OnErrand(q)
  \/ \E s \in CaseStatuses, n \in Notes : CaseElsewhere([status |-> s, notes |-> n])
  \/ \E s \in CaseStatuses, t \in Texts : UpdateTemplate(s, t)

DeskSpec == DeskInit /\ [][DeskNext]_deskVars

-----------------------------------------------------------------------------
(* Properties *)

\* "The text of the SMS that is sent", says the preview.  It is, unless between
\* the preview's request and the confirmed change a template was edited, or the
\* select moved on while the preview was loading, or an answer of load moved it.
SmsIsAsPreviewed == ~ wrongSms

\* When nothing the page asked for is under way and nothing came between, it
\* shows the status the case has, and the notes it shows are saved or unsaved
\* typing: confirming reloads the case, saving notes needs no reload.
DeskIsTrue ==
  Working /\ Errands({"load", "preview", "confirm", "notes"}) = {} /\ ~ doubt =>
    /\ desk.status = row.status
    /\ desk.dirty \/ desk.notes = row.notes

-----------------------------------------------------------------------------
(* Strengthening: what makes the properties above inductive *)

Kinds == {"load", "preview", "confirm", "notes"}
DeskState == [mounted : BOOLEAN, loaded : BOOLEAN, failed : BOOLEAN,
              status : CaseStatuses \cup {None}, selected : CaseStatuses \cup {None},
              preview : Texts \cup {None}, previewing : BOOLEAN, submitting : BOOLEAN,
              notes : Notes \cup {None}, dirty : BOOLEAN, saving : BOOLEAN, excused : BOOLEAN]
ErrandState == [pc : {"idle", "sent", "answered"}, kind : Kinds \cup {None}, mine : BOOLEAN,
                status : CaseStatuses \cup {None}, text : Texts \cup Notes \cup {None},
                excused : BOOLEAN]

DeskStateInv ==
  /\ row \in [status : CaseStatuses, notes : Notes]
  /\ template \in [CaseStatuses -> Texts]
  /\ desk \in DeskState
  /\ errand \in [Calls -> ErrandState]
  /\ doubt \in BOOLEAN /\ wrongSms \in BOOLEAN
  /\ desk.loaded => /\ desk.status \in CaseStatuses
                    /\ desk.selected \in CaseStatuses
                    /\ desk.notes \in Notes
  /\ desk.preview # None => desk.loaded

\* A call that carries what its kind needs, and is nobody's only as a change on
\* its way to the server.
Sound(e) ==
  \/ e = NoErrand
  \/ /\ e.pc \in {"sent", "answered"} /\ e.kind \in Kinds
     /\ ~ e.mine => e.pc = "sent" /\ e.kind \in {"confirm", "notes"}
     /\ e.kind \in {"preview", "confirm"} => e.status \in CaseStatuses
     /\ e.kind = "confirm" /\ e.pc = "sent" => e.text \in Texts
     /\ e.kind = "preview" /\ e.pc = "answered" => e.text \in Texts
     /\ e.kind = "notes" /\ e.pc = "sent" => e.text \in Notes
     /\ e.kind = "load" /\ e.pc = "answered" => e.status \in CaseStatuses /\ e.text \in Notes

\* One call at a time behind every button.
ErrandInv ==
  /\ \A q \in Calls :
       /\ Sound(errand[q])
       /\ errand[q].mine =>
            /\ desk.mounted
            /\ errand[q].kind = "load" \/ desk.loaded
            /\ errand[q].kind = "preview" => desk.previewing
            /\ errand[q].kind = "confirm" => desk.submitting
            /\ errand[q].kind = "notes" => desk.saving
  /\ \A kind \in {"preview", "confirm", "notes"} : \A q, r \in Errands({kind}) : q = r

\* Where the text of a preview is, and that it is still the template's.
PreviewInv ==
  /\ ~ wrongSms
  /\ \A q \in Calls :
       errand[q].pc = "sent" /\ errand[q].kind = "confirm" /\ ~ errand[q].excused =>
         template[errand[q].status] = errand[q].text
  /\ desk.preview # None /\ ~ desk.excused => template[desk.selected] = desk.preview
  /\ \A q \in Errands({"preview"}) : ~ desk.excused =>
       /\ errand[q].status = desk.selected
       /\ errand[q].pc = "answered" => errand[q].text = template[errand[q].status]

\* A change of the status was served and its answer is still to come.
Changed == \E q \in Errands({"confirm"}) : errand[q].pc = "answered"

\* Without a reason for doubt one call at a time brings the case, and what it
\* brings, or has brought, is the row's.
CaseInv ==
  desk.mounted /\ ~ desk.failed /\ ~ doubt =>
    /\ \A q, r \in Errands({"load"}) : q = r
    /\ Errands({"load"}) = {} \/ Errands({"notes"}) = {}
    /\ \A q \in Errands({"load"}) : errand[q].pc = "answered" =>
         /\ errand[q].text = row.notes
         /\ errand[q].status = row.status \/ Changed
    /\ desk.loaded /\ Errands({"load"}) = {} /\ ~ Changed => desk.status = row.status
    /\ \A q \in Errands({"notes"}) : ~ desk.dirty =>
         desk.notes = IF errand[q].pc = "sent" THEN errand[q].text ELSE row.notes
    /\ desk.loaded /\ Errands({"load", "notes"}) = {} => desk.dirty \/ desk.notes = row.notes

DeskInv == DeskStateInv /\ ErrandInv /\ PreviewInv /\ CaseInv
=============================================================================
