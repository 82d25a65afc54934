----------------------------- MODULE ListingForm -----------------------------
(***************************************************************************)
(* The form on the edit page of a listing (PropertyForm): it takes the     *)
(* listing once, when the page has loaded it, and every save sends all of  *)
(* its fields.  Other staff may change or archive the listing meanwhile.   *)
(*                                                                         *)
(* Two fields stand for all: the status, which is always sent, and the     *)
(* description, which like the other optional ones is left out when empty. *)
(***************************************************************************)
EXTENDS Browser

CONSTANTS
  Conditions,   \* values of the status
  Blurbs        \* descriptions

Empty == "empty"

ASSUME FormAssumption ==
  /\ Empty \notin Blurbs
  /\ None \notin Conditions \cup Blurbs \cup [status : Conditions, about : Blurbs \cup {Empty}]

Fields == [status : Conditions, about : Blurbs \cup {Empty}]

VARIABLES
  listing,      \* the Property row
  sheet,        \* the state of the form and of the page around it
  save,         \* the API calls
  clouded,      \* history: why form and row may differ
  held          \* history: the description of the row when the form took it, or
                \* when its last save was sent

formVars == <<listing, sheet, save, clouded, held>>

NoSheet == [mounted |-> FALSE, loaded |-> FALSE, failed |-> FALSE, fields |-> None,
            edited |-> FALSE, loading |-> FALSE, saved |-> FALSE]
NoSave == [pc |-> "idle", kind |-> None, mine |-> FALSE, fields |-> None]

FormTypeOK ==
  /\ listing \in Fields
  /\ sheet.loaded <=> sheet.fields # None
  /\ sheet.loaded => sheet.fields \in Fields
  /\ sheet.loading <=> \E q \in Calls : save[q].mine /\ save[q].kind = "update"
  /\ Cardinality({q \in Calls : save[q].mine}) <= 1
  /\ ~ (sheet.saved /\ sheet.loading)
  /\ clouded \in BOOLEAN
  /\ held \in Blurbs \cup {Empty}

FormInit ==
  /\ listing \in Fields
  /\ sheet = NoSheet
  /\ save = [q \in Calls |-> NoSave]
  /\ clouded = FALSE
  /\ held = Empty

OwnSaves == {q \in Calls : save[q].mine}

-----------------------------------------------------------------------------
Post(q, kind, fields) ==
  /\ save[q].pc = "idle"
  /\ save' = [save EXCEPT ![q] = [pc |-> "sent", kind |-> kind, mine |-> TRUE,
                                  fields |-> fields]]

\* The effect of the edit page; without a token it loads for ever.
OpenForm(q) ==
  /\ ~ sheet.mounted
  /\ sheet' = [NoSheet EXCEPT !.mounted = TRUE]
  /\ Post(q, "load", None) \/ (FALSE \in TokenHere /\ UNCHANGED save)
  /\ clouded' = FALSE
  /\ held' = Empty
  /\ UNCHANGED listing

\* A save that was sent goes on without the form.
LeaveForm ==
  /\ sheet.mounted
  /\ sheet' = NoSheet
  /\ save' = [q \in Calls |->
       IF save[q].pc = "sent" /\ save[q].kind = "update" THEN [save[q] EXCEPT !.mine = FALSE]
       ELSE NoSave]
  /\ UNCHANGED <<listing, clouded, held>>

EditFields(f) ==
  /\ sheet.loaded
  /\ f # sheet.fields
  /\ sheet' = [sheet EXCEPT !.fields = f, !.edited = TRUE]
  /\ UNCHANGED <<listing, save, clouded, held>>

\* Mutant: only the status is sent.
DataStatusOnly == [sheet.fields EXCEPT !.about = Empty]

\* What handleSubmit makes of the form: an empty description is undefined, and
\* JSON leaves it out.
Data == sheet.fields

\* handleSubmit up to its await; the button is disabled while a save is under
\* way.  Without a token there is an error, and "saved" is gone.  A save that
\* starts alone makes up for what came before.
SubmitSheet(q) ==
  /\ sheet.loaded /\ ~ sheet.loading
  /\ \/ /\ Post(q, "update", Data)
        /\ sheet' = [sheet EXCEPT !.saved = FALSE, !.loading = TRUE, !.edited = FALSE]
        /\ clouded' = FALSE
        /\ held' = listing.about
     \/ /\ FALSE \in TokenHere
        /\ sheet' = [sheet EXCEPT !.saved = FALSE]
        /\ UNCHANGED <<save, clouded, held>>
  /\ UNCHANGED listing

-----------------------------------------------------------------------------
(* The API and its answers *)

ServeListing(q) ==
  /\ save[q].pc = "sent" /\ save[q].kind = "load"
  /\ save' = [save EXCEPT ![q].pc = "ok", ![q].fields = listing]
  /\ UNCHANGED <<listing, sheet, clouded, held>>

\* update: the fields that were sent, whatever the row says by now.
ServeUpdate(q) ==
  LET data == save[q].fields IN
  /\ save[q].pc = "sent" /\ save[q].kind = "update"
  /\ listing' = IF data.about = Empty THEN [listing EXCEPT !.status = data.status] ELSE data
  /\ save' = [save EXCEPT ![q] = IF save[q].mine THEN [@ EXCEPT !.pc = "ok"] ELSE NoSave]
  /\ clouded' = (clouded \/ ~ save[q].mine)
  /\ UNCHANGED <<sheet, held>>

\* Other staff save the listing, or archive it from the list.
ListingElsewhere(f) ==
  /\ "elsewhere" \in Mishaps
  /\ sheet.mounted
  /\ f # listing
  /\ listing' = f
  /\ clouded' = TRUE
  /\ UNCHANGED <<sheet, save, held>>

AnswerListing(q) ==
  /\ save[q].pc = "ok" /\ save[q].kind = "load"
  /\ save' = [save EXCEPT ![q] = NoSave]
  /\ sheet' = [sheet EXCEPT !.loaded = TRUE, !.fields = save[q].fields]
  /\ held' = save[q].fields.about
  /\ UNCHANGED <<listing, clouded>>

\* "Saved", whatever has been edited since; the form keeps its fields.
AnswerUpdate(q) ==
  /\ save[q].pc = "ok" /\ save[q].kind = "update"
  /\ save' = [save EXCEPT ![q] = NoSave]
  /\ sheet' = [sheet EXCEPT !.loading = FALSE, !.saved = TRUE]
  /\ UNCHANGED <<listing, clouded, held>>

SaveFails(q) ==
  /\ "network" \in Mishaps
  /\ save[q].mine
  /\ \/ save' = [save EXCEPT ![q] = NoSave]
     \/ /\ save[q].pc = "sent" /\ save[q].kind = "update"
        /\ save' = [save EXCEPT ![q].mine = FALSE]
  /\ sheet' = IF save[q].kind = "load" THEN [sheet EXCEPT !.failed = TRUE]
              ELSE [sheet EXCEPT !.loading = FALSE]
  /\ clouded' = TRUE
  /\ UNCHANGED <<listing, held>>

-----------------------------------------------------------------------------
FormNext ==
  \/ \E q \in Calls : OpenForm(q) \/ SubmitSheet(q)
  \/ LeaveForm
  \/ \E f \in Fields : EditFields(f) \/ ListingElsewhere(f)
  \/ \E q \in Calls :
       \/ ServeListing(q) \/ ServeUpdate(q)
       \/ AnswerListing(q) \/ AnswerUpdate(q) \/ SaveFails(q)

FormSpec == FormInit /\ [][FormNext]_formVars

-----------------------------------------------------------------------------
(* Properties *)

\* The row as these fields leave it, when they are taken from it or sent to it.
Stored(fields) ==
  /\ listing.status = fields.status
  /\ listing.about = IF fields.about = Empty THEN held ELSE fields.about

\* When nothing is under way and nobody else changed the listing, a form that
\* was not edited since it was loaded or saved shows what is stored.  A description
\* it shows empty is the exception, although the page says that it is saved: the row
\* keeps the very text it had when the form took it or sent its last save.
SheetIsStored ==
  sheet.loaded /\ OwnSaves = {} /\ ~ sheet.edited /\ ~ clouded => Stored(sheet.fields)

-----------------------------------------------------------------------------
(* Strengthening: what makes the property inductive *)

SheetState == [mounted : BOOLEAN, loaded : BOOLEAN, failed : BOOLEAN,
               fields : Fields \cup {None}, edited : BOOLEAN, loading : BOOLEAN,
               saved : BOOLEAN]
SaveState == [pc : {"idle", "sent", "ok"}, kind : {None, "load", "update"},
              mine : BOOLEAN, fields : Fields \cup {None}]

FormStateInv ==
  /\ listing \in Fields
  /\ sheet \in SheetState
  /\ save \in [Calls -> SaveState]
  /\ clouded \in BOOLEAN
  /\ held \in Blurbs \cup {Empty}
  /\ sheet.loaded <=> sheet.fields # None
  /\ sheet.loaded => sheet.mounted
  /\ ~ (sheet.saved /\ sheet.loading)

\* The page and its calls: one at a time, a load before there is a form, an
\* update while the button is disabled.
OneSaveInv ==
  /\ \A q \in Calls :
       /\ save[q].pc = "idle" => save[q] = NoSave
       /\ save[q].pc # "idle" =>
            /\ save[q].kind \in {"load", "update"}
            /\ save[q].kind = "update" \/ save[q].pc = "ok" => save[q].fields # None
            /\ save[q].pc = "ok" \/ save[q].kind = "load" => save[q].mine
       /\ save[q].mine =>
            /\ sheet.mounted
            /\ save[q].kind = "load" => ~ sheet.loaded /\ ~ sheet.loading
            /\ save[q].kind = "update" => sheet.loaded /\ sheet.loading
  /\ sheet.loading => \E q \in Calls : save[q].mine /\ save[q].kind = "update"
  /\ \A q, r \in Calls : save[q].mine /\ save[r].mine => q = r

\* What a call brings to the form, and what an update finds and leaves in the row.
SaveInv ==
  /\ sheet.edited => sheet.loaded
  /\ \A q \in OwnSaves :
       /\ save[q].kind = "load" /\ save[q].pc = "ok" /\ ~ clouded => save[q].fields = listing
       /\ save[q].kind = "update" /\ ~ sheet.edited => save[q].fields = sheet.fields
       /\ save[q].kind = "update" /\ ~ clouded =>
            IF save[q].pc = "ok" THEN Stored(save[q].fields) ELSE listing.about = held

FormInv == FormStateInv /\ OneSaveInv /\ SaveInv /\ SheetIsStored
=============================================================================
