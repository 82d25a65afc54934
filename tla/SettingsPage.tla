---------------------------- MODULE SettingsPage ----------------------------
(***************************************************************************)
(* The settings page of the panel: one editor for every SMS template, each *)
(* with a button of its own, and one form for the contact data.  An editor *)
(* takes its text once, when the templates are first shown.  One variable  *)
(* holds the editor that is being saved.                                   *)
(***************************************************************************)
EXTENDS Browser

CONSTANTS
  Templates,    \* keys smsTemplateKey(status, category)
  Contact,      \* the form of the contact data
  Wordings      \* texts a setting may have

ASSUME SettingsAssumption == Contact \notin Templates /\ None \notin Templates \cup {Contact}

\* The contact data is one key: its rows are written in one transaction.
Keys == Templates \cup {Contact}

VARIABLES
  setting,      \* Setting rows, with the default where there is none
  panel,        \* the state of the page: editors that are shown, the text of each
  saving,       \* savingStatus and savingContact
  edit,         \* API calls of the page
  unsure        \* history: keys whose editor may differ from the row

settingsVars == <<setting, panel, saving, edit, unsure>>

Hidden == [mounted |-> FALSE, shown |-> {}, text |-> [k \in Keys |-> None], dirty |-> {}]
NotSaving == [status |-> None, contact |-> FALSE]
NoEdit == [pc |-> "idle", kind |-> None, mine |-> FALSE, key |-> None, text |-> None,
           values |-> None]

SettingsTypeOK ==
  /\ setting \in [Keys -> Wordings]
  /\ panel.shown \subseteq Keys
  /\ panel.dirty \subseteq panel.shown
  /\ \A k \in panel.shown : panel.text[k] \in Wordings
  /\ saving \in [status : Templates \cup {None}, contact : BOOLEAN]
  /\ saving.contact <=> \E q \in Calls : edit[q].mine /\ edit[q].key = Contact
                                         /\ edit[q].kind = "save"
  /\ unsure \subseteq Keys

SettingsInit ==
  /\ setting \in [Keys -> Wordings]
  /\ panel = Hidden
  /\ saving = NotSaving
  /\ edit = [q \in Calls |-> NoEdit]
  /\ unsure = {}

Saves(k) == {q \in Calls : edit[q].mine /\ edit[q].kind = "save" /\ edit[q].key = k}

-----------------------------------------------------------------------------
(* The page *)

\* The effect of the page asks for the contact data and for the templates, or
\* returns without a token; the page then loads for ever.
OpenSettings(q, r) ==
  /\ ~ panel.mounted
  /\ q # r /\ edit[q].pc = "idle" /\ edit[r].pc = "idle"
  /\ panel' = [Hidden EXCEPT !.mounted = TRUE]
  /\ saving' = NotSaving
  /\ unsure' = {}
  /\ LET load == [NoEdit EXCEPT !.pc = "sent", !.kind = "load", !.mine = TRUE] IN
     \/ edit' = [edit EXCEPT ![q] = load, ![r] = [load EXCEPT !.key = Contact]]
     \/ FALSE \in TokenHere /\ UNCHANGED edit
  /\ UNCHANGED setting

\* A save that was sent goes on without the page.
LeaveSettings ==
  /\ panel.mounted
  /\ panel' = Hidden
  /\ saving' = NotSaving
  /\ edit' = [q \in Calls |->
       IF edit[q].pc = "sent" /\ edit[q].kind = "save" THEN [edit[q] EXCEPT !.mine = FALSE]
       ELSE NoEdit]
  /\ UNCHANGED <<setting, unsure>>

TypeText(k, x) ==
  /\ k \in panel.shown
  /\ x # panel.text[k]
  /\ panel' = [panel EXCEPT !.text[k] = x, !.dirty = @ \cup {k}]
  /\ UNCHANGED <<setting, saving, edit, unsure>>

\* A save of a key makes up for what came before if it is the only one.  Another
\* one may be under way after a third has taken the slot.
SendSave(q, k) ==
  /\ edit[q].pc = "idle"
  /\ edit' = [edit EXCEPT ![q] = [NoEdit EXCEPT !.pc = "sent", !.kind = "save", !.mine = TRUE,
                                                !.key = k, !.text = panel.text[k]]]
  /\ panel' = [panel EXCEPT !.dirty = @ \ {k}]
  /\ unsure' = IF Saves(k) = {} THEN unsure \ {k}
               ELSE IF saving.status # k THEN unsure \cup {k}
               ELSE unsure
  /\ UNCHANGED setting

\* Mutant: the button is not disabled while its template is being saved.
SaveTemplateAgain(q, k) ==
  /\ k \in panel.shown \ {Contact}
  /\ saving' = [saving EXCEPT !.status = k]
  /\ SendSave(q, k)

\* handleSaveTemplate: the button is disabled for the one key in savingStatus, so
\* a second save of a key can start once another key has taken the slot.
SaveTemplate(q, k) ==
  /\ k \in panel.shown \ {Contact}
  /\ saving.status # k
  /\ saving' = [saving EXCEPT !.status = k]
  /\ SendSave(q, k)

SaveContact(q) ==
  /\ Contact \in panel.shown
  /\ ~ saving.contact
  /\ saving' = [saving EXCEPT !.contact = TRUE]
  /\ SendSave(q, Contact)

-----------------------------------------------------------------------------
(* The API and its answers *)

\* getContactSettings, getSmsTemplates.
ServeSettings(q) ==
  /\ edit[q].pc = "sent" /\ edit[q].kind = "load"
  /\ edit' = [edit EXCEPT ![q].pc = "ok", ![q].values = setting]
  /\ UNCHANGED <<setting, panel, saving, unsure>>

\* updateSmsTemplate, updateContactSettings.
ServeSave(q) ==
  /\ edit[q].pc = "sent" /\ edit[q].kind = "save"
  /\ setting' = [setting EXCEPT ![edit[q].key] = edit[q].text]
  /\ edit' = [edit EXCEPT ![q] = IF edit[q].mine THEN [@ EXCEPT !.pc = "ok"] ELSE NoEdit]
  /\ unsure' = IF edit[q].mine THEN unsure ELSE unsure \cup {edit[q].key}
  /\ UNCHANGED <<panel, saving>>

SettingsElsewhere(k, x) ==
  /\ "elsewhere" \in Mishaps
  /\ panel.mounted
  /\ x # setting[k]
  /\ setting' = [setting EXCEPT ![k] = x]
  /\ unsure' = unsure \cup {k}
  /\ UNCHANGED <<panel, saving, edit>>

\* setContact or setTemplates; the editors are created with their texts.
AnswerSettings(q) ==
  LET ks == IF edit[q].key = Contact THEN {Contact} ELSE Templates IN
  /\ edit[q].pc = "ok" /\ edit[q].kind = "load"
  /\ edit' = [edit EXCEPT ![q] = NoEdit]
  /\ panel' = [panel EXCEPT !.shown = @ \cup ks,
       !.text = [k \in Keys |-> IF k \in ks THEN edit[q].values[k] ELSE @[k]]]
  /\ UNCHANGED <<setting, saving, unsure>>

Freed(k) == IF k = Contact THEN [saving EXCEPT !.contact = FALSE]
            ELSE [saving EXCEPT !.status = None]

\* Saved.  setTemplates has all the templates of the answer, but editors keep
\* the texts they have.
AnswerSave(q) ==
  /\ edit[q].pc = "ok" /\ edit[q].kind = "save"
  /\ edit' = [edit EXCEPT ![q] = NoEdit]
  /\ saving' = Freed(edit[q].key)
  /\ UNCHANGED <<setting, panel, unsure>>

\* A failed load is caught by nobody: the page loads for ever.
EditFails(q) ==
  /\ "network" \in Mishaps
  /\ edit[q].mine
  /\ \/ edit' = [edit EXCEPT ![q] = NoEdit]
     \/ /\ edit[q].pc = "sent" /\ edit[q].kind = "save"
        /\ edit' = [edit EXCEPT ![q].mine = FALSE]
  /\ IF edit[q].kind = "load" THEN UNCHANGED <<saving, unsure>>
     ELSE saving' = Freed(edit[q].key) /\ unsure' = unsure \cup {edit[q].key}
  /\ UNCHANGED <<setting, panel>>

-----------------------------------------------------------------------------
SettingsNext ==
  \/ \E q, r \in Calls : OpenSettings(q, r)
  \/ LeaveSettings
  \/ \E k \in Keys, x \in Wordings : TypeText(k, x) \/ SettingsElsewhere(k, x)
  \/ \E q \in Calls : SaveContact(q) \/ \E k \in Templates : SaveTemplate(q, k)
  \/ \E q \in Calls :
       \/ ServeSettings(q) \/ ServeSave(q)
       \/ AnswerSettings(q) \/ AnswerSave(q) \/ EditFails(q)

SettingsSpec == SettingsInit /\ [][SettingsNext]_settingsVars

-----------------------------------------------------------------------------
(* Properties *)

\* An editor with no unsaved typing shows the text that SMS are made from, once
\* its save is over: a change in another editor, its answer, or the answer of a
\* load in between does not come between them.  Excused are failures, other
\* staff, and two saves of one key at once, which the single slot allows.
EditorsAreSaved ==
  \A k \in panel.shown \ (panel.dirty \cup unsure) :
    Saves(k) = {} => panel.text[k] = setting[k]

-----------------------------------------------------------------------------
(* Strengthening: what makes the property inductive *)

PanelState == [mounted : BOOLEAN, shown : SUBSET Keys, text : [Keys -> Wordings \cup {None}],
               dirty : SUBSET Keys]
EditState == [pc : {"idle", "sent", "ok"}, kind : {None, "load", "save"}, mine : BOOLEAN,
              key : Keys \cup {None}, text : Wordings \cup {None},
              values : [Keys -> Wordings] \cup {None}]

SettingsStateInv ==
  /\ setting \in [Keys -> Wordings]
  /\ panel \in PanelState
  /\ saving \in [status : Templates \cup {None}, contact : BOOLEAN]
  /\ edit \in [Calls -> EditState]
  /\ unsure \subseteq Keys
  /\ panel.dirty \subseteq panel.shown
  /\ \A k \in panel.shown : panel.text[k] \in Wordings

\* The keys whose editors the answer of a load creates.
Creates(q) == IF edit[q].key = Contact THEN {Contact} ELSE Templates

EditInv ==
  /\ panel.shown # {} => panel.mounted
  /\ \A q \in Calls :
       /\ edit[q].pc = "idle" => edit[q] = NoEdit
       /\ edit[q].pc # "idle" => edit[q].kind \in {"load", "save"}
       /\ ~ edit[q].mine /\ edit[q].pc # "idle" => edit[q].pc = "sent" /\ edit[q].kind = "save"
       /\ edit[q].pc # "idle" /\ edit[q].kind = "save" =>
            edit[q].key \in Keys /\ edit[q].text \in Wordings
       /\ edit[q].mine =>
            /\ panel.mounted
            /\ edit[q].kind = "load" => panel.shown \cap Creates(q) = {}
            /\ edit[q].kind = "load" /\ edit[q].pc = "ok" => edit[q].values \in [Keys -> Wordings]
            /\ edit[q].kind = "save" => edit[q].key \in panel.shown
  /\ \A q, r \in Calls :
       /\ edit[q].mine /\ edit[r].mine /\ edit[q].kind = "load" /\ edit[r].kind = "load"
       /\ q # r
       => Creates(q) \cap Creates(r) = {}

\* The contact form is saved by one call at a time; a template by more than one
\* only when its key is unsure.
SlotInv ==
  /\ saving.contact <=> Saves(Contact) # {}
  /\ \A k \in Keys : \A q, r \in Saves(k) : k = Contact \/ k \notin unsure => q = r

\* What a call brings to an editor, and what a save has left in the row.
EditorInv ==
  /\ \A q \in Calls : edit[q].mine /\ edit[q].kind = "load" /\ edit[q].pc = "ok" =>
       \A k \in Creates(q) \ unsure : edit[q].values[k] = setting[k]
  /\ \A k \in Keys \ unsure : \A q \in Saves(k) :
       /\ k \notin panel.dirty => panel.text[k] = edit[q].text
       /\ edit[q].pc = "ok" => setting[k] = edit[q].text

SettingsInv == SettingsStateInv /\ EditInv /\ SlotInv /\ EditorInv /\ EditorsAreSaved
=============================================================================
