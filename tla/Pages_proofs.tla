----------------------------- MODULE Pages_proofs -----------------------------
(***************************************************************************)
(* Theorems about the pages of the panel for every number of calls in      *)
(* flight and every set of values: what a page shows when nothing it asked *)
(* for is under way.                                                       *)
(***************************************************************************)
EXTENDS MCPanel, Session_proofs,
        FiniteSetTheorems, SequenceTheorems, WellFoundedInduction, TLAPS

-----------------------------------------------------------------------------
(* The form of a listing *)

LEMMA FormInitially == FormInit => FormInv
<1> SUFFICES ASSUME FormInit PROVE FormInv
  OBVIOUS
<1> USE FormAssumption DEF FormInit
<1>1. FormStateInv
  BY DEF FormStateInv, SheetState, SaveState, NoSheet, NoSave, Fields
<1>2. OneSaveInv
  BY DEF OneSaveInv, NoSave, NoSheet
<1>3. SaveInv /\ SheetIsStored
  BY DEF SaveInv, OwnSaves, NoSave, NoSheet, SheetIsStored
<1> QED BY <1>1, <1>2, <1>3 DEF FormInv

\* A new call, where it stands among the others.
LEMMA Posted ==
  ASSUME FormStateInv,
         NEW q \in Calls, NEW kind \in {"load", "update"}, NEW fields \in Fields \cup {None},
         Post(q, kind, fields)
  PROVE  /\ save' \in [Calls -> SaveState]
         /\ save'[q] = [pc |-> "sent", kind |-> kind, mine |-> TRUE, fields |-> fields]
         /\ \A r \in Calls \ {q} : save'[r] = save[r]
<1> DEFINE new == [pc |-> "sent", kind |-> kind, mine |-> TRUE, fields |-> fields]
<1>1. new \in SaveState
  BY DEF SaveState
<1> HIDE DEF new
<1>2. save' = [save EXCEPT ![q] = new]
  BY DEF Post, new
<1>3. save' \in [Calls -> SaveState] /\ save'[q] = new /\ \A r \in Calls \ {q} : save'[r] = save[r]
  BY <1>1, <1>2 DEF FormStateInv
<1> QED BY <1>3 DEF new

\* A page opened, left, typed into or asked to save.
LEMMA FormUsed ==
  ASSUME FormInv,
         \/ \E q \in Calls : OpenForm(q) \/ SubmitSheet(q)
         \/ LeaveForm
         \/ \E f \in Fields : EditFields(f)
  PROVE  FormInv'
<1> USE FormAssumption DEF FormInv
<1>n. None \notin Fields /\ NoSave \in SaveState /\ NoSheet \in SheetState
  BY DEF Fields, SaveState, NoSave, SheetState, NoSheet
<1>1. ASSUME NEW q \in Calls, OpenForm(q) PROVE FormInv'
  <2>1. /\ UNCHANGED listing
        /\ sheet' = [NoSheet EXCEPT !.mounted = TRUE]
        /\ clouded' = FALSE /\ held' = Empty
        /\ ~ sheet.mounted
    BY <1>1 DEF OpenForm
  <2>2. \A r \in Calls : ~ save[r].mine
    BY <2>1 DEF OneSaveInv
  <2>3. /\ sheet' \in SheetState
        /\ sheet'.mounted /\ ~ sheet'.loaded /\ ~ sheet'.loading /\ ~ sheet'.saved
        /\ ~ sheet'.edited /\ sheet'.fields = None
    BY <2>1 DEF NoSheet, SheetState
  <2>4. CASE Post(q, "load", None)
    <3>1. /\ save' \in [Calls -> SaveState]
          /\ save'[q] = [pc |-> "sent", kind |-> "load", mine |-> TRUE, fields |-> None]
          /\ \A r \in Calls \ {q} : save'[r] = save[r]
      BY <2>4, Posted
    <3>2. FormStateInv'
      BY <2>1, <2>3, <3>1 DEF FormStateInv
    <3>3. OneSaveInv'
      BY <2>2, <2>3, <3>1 DEF OneSaveInv
    <3>4. SaveInv' /\ SheetIsStored'
      BY <2>2, <2>3, <3>1 DEF SaveInv, OwnSaves, SheetIsStored
    <3> QED BY <3>2, <3>3, <3>4
  <2>5. CASE UNCHANGED save
    <3>1. FormStateInv'
      BY <2>1, <2>3, <2>5 DEF FormStateInv
    <3>2. OneSaveInv'
      BY <2>2, <2>3, <2>5 DEF OneSaveInv
    <3>3. SaveInv' /\ SheetIsStored'
      BY <2>2, <2>3, <2>5 DEF SaveInv, OwnSaves, SheetIsStored
    <3> QED BY <3>1, <3>2, <3>3
  <2> QED BY <1>1, <2>4, <2>5 DEF OpenForm
<1>2. ASSUME NEW q \in Calls, SubmitSheet(q) PROVE FormInv'
  <2>1. \A r \in Calls : ~ save[r].mine
    BY <1>2 DEF SubmitSheet, OneSaveInv, NoSave
  <2>2. /\ sheet.fields \in Fields /\ sheet.loaded /\ ~ sheet.loading /\ sheet.mounted
        /\ listing.about \in Blurbs \cup {Empty} /\ UNCHANGED listing
    BY <1>2 DEF SubmitSheet, FormStateInv, SheetState, Fields
  <2>3. CASE /\ Post(q, "update", Data)
             /\ sheet' = [sheet EXCEPT !.saved = FALSE, !.loading = TRUE, !.edited = FALSE]
             /\ clouded' = FALSE /\ held' = listing.about
    <3>1. /\ save' \in [Calls -> SaveState]
          /\ save'[q] = [pc |-> "sent", kind |-> "update", mine |-> TRUE, fields |-> sheet.fields]
          /\ \A r \in Calls \ {q} : save'[r] = save[r]
      BY <2>2, <2>3, Posted DEF Data
    <3>2. /\ sheet' \in SheetState
          /\ sheet'.mounted /\ sheet'.loaded /\ sheet'.loading /\ ~ sheet'.saved
          /\ ~ sheet'.edited /\ sheet'.fields = sheet.fields
      BY <2>2, <2>3 DEF SheetState, FormStateInv
    <3>3. FormStateInv'
      BY <1>n, <2>2, <2>3, <3>1, <3>2 DEF FormStateInv
    <3>4. OneSaveInv'
      BY <1>n, <2>1, <2>2, <3>1, <3>2 DEF OneSaveInv
    <3>5. SaveInv' /\ SheetIsStored'
      BY <2>1, <2>2, <2>3, <3>1, <3>2 DEF SaveInv, OwnSaves, SheetIsStored
    <3> QED BY <3>3, <3>4, <3>5
  <2>4. CASE sheet' = [sheet EXCEPT !.saved = FALSE] /\ UNCHANGED <<save, clouded, held>>
    <3>1. /\ sheet' \in SheetState
          /\ sheet'.mounted /\ sheet'.loaded /\ ~ sheet'.loading /\ ~ sheet'.saved
          /\ sheet'.edited = sheet.edited /\ sheet'.fields = sheet.fields
      BY <2>2, <2>4 DEF SheetState, FormStateInv
    <3>2. FormStateInv'
      BY <1>n, <2>2, <2>4, <3>1 DEF FormStateInv
    <3>3. OneSaveInv'
      BY <2>1, <2>4, <3>1 DEF OneSaveInv
    <3>4. SaveInv' /\ SheetIsStored'
      BY <2>1, <2>2, <2>4, <3>1 DEF SaveInv, OwnSaves, SheetIsStored, Stored
    <3> QED BY <3>2, <3>3, <3>4
  <2> QED BY <1>2, <2>3, <2>4 DEF SubmitSheet
<1>3. CASE LeaveForm
  <2>1. ASSUME NEW q \in Calls
        PROVE  /\ save'[q] \in SaveState
               /\ ~ save'[q].mine
               /\ \/ save'[q] = NoSave
                  \/ /\ save'[q].pc = "sent" /\ save'[q].kind = "update"
                     /\ save'[q].fields = save[q].fields
    BY <1>3, <1>n DEF LeaveForm, FormStateInv, SaveState, NoSave
  <2>2. save' \in [Calls -> SaveState]
    BY <1>3, <2>1 DEF LeaveForm
  <2>3. FormStateInv'
    BY <1>3, <1>n, <2>2 DEF LeaveForm, FormStateInv, NoSheet
  <2>4. OneSaveInv'
    BY <1>3, <2>1 DEF LeaveForm, OneSaveInv, NoSheet, NoSave, FormStateInv, SaveState
  <2>5. SaveInv' /\ SheetIsStored'
    BY <1>3, <2>1 DEF LeaveForm, SaveInv, OwnSaves, NoSheet, SheetIsStored
  <2> QED BY <2>3, <2>4, <2>5
<1>4. ASSUME NEW f \in Fields, EditFields(f) PROVE FormInv'
  <2>1. FormStateInv'
    BY <1>4, <1>n DEF EditFields, FormStateInv, SheetState
  <2>2. OneSaveInv'
    BY <1>4 DEF EditFields, OneSaveInv, FormStateInv, SheetState
  <2>3. sheet'.edited /\ sheet'.loaded /\ UNCHANGED <<listing, save, clouded, held>>
    BY <1>4 DEF EditFields, FormStateInv, SheetState
  <2>4. SaveInv' /\ SheetIsStored'
    BY <2>3 DEF SaveInv, SheetIsStored, OwnSaves, Stored
  <2> QED BY <2>1, <2>2, <2>4
<1> QED BY <1>1, <1>2, <1>3, <1>4

\* A call served, answered or lost, and other staff.
LEMMA FormServed ==
  ASSUME FormInv,
         \/ \E f \in Fields : ListingElsewhere(f)
         \/ \E q \in Calls : \/ ServeListing(q) \/ ServeUpdate(q)
                             \/ AnswerListing(q) \/ AnswerUpdate(q) \/ SaveFails(q)
  PROVE  FormInv'
<1> USE FormAssumption DEF FormInv
<1>n. None \notin Fields /\ NoSave \in SaveState /\ NoSheet \in SheetState
  BY DEF Fields, SaveState, NoSave, SheetState, NoSheet
<1>1. ASSUME NEW f \in Fields, ListingElsewhere(f) PROVE FormInv'
  BY <1>1 DEF ListingElsewhere, FormStateInv, OneSaveInv, SaveInv, SheetIsStored, OwnSaves, Stored
<1>2. ASSUME NEW q \in Calls, ServeListing(q) PROVE FormInv'
  <2>1. save[q].mine
    BY <1>2 DEF ServeListing, OneSaveInv
  <2>2. FormStateInv'
    BY <1>2 DEF ServeListing, FormStateInv, SaveState
  <2>3. OneSaveInv'
    BY <1>2, <1>n DEF ServeListing, FormStateInv, SaveState, OneSaveInv
  <2>4. SaveInv' /\ SheetIsStored'
    BY <1>2, <2>1 DEF ServeListing, FormStateInv, SaveState, SaveInv, OwnSaves, SheetIsStored, Stored
  <2> QED BY <2>2, <2>3, <2>4
<1>3. ASSUME NEW q \in Calls, ServeUpdate(q) PROVE FormInv'
  <2>0. PICK data \in Fields : data = save[q].fields
    BY <1>3 DEF ServeUpdate, FormStateInv, SaveState, OneSaveInv
  <2>1. /\ save[q].fields = data
        /\ save[q].pc = "sent" /\ save[q].kind = "update"
        /\ listing' = IF data.about = Empty THEN [listing EXCEPT !.status = data.status] ELSE data
        /\ UNCHANGED <<sheet, held>>
        /\ clouded' = (clouded \/ ~ save[q].mine)
    BY <1>3, <2>0 DEF ServeUpdate
  <2>2. /\ listing' \in Fields
        /\ listing.about = held => Stored(data)'
    <3>1. data.status \in Conditions /\ data.about \in Blurbs \cup {Empty}
      BY <2>1 DEF Fields
    <3>2. CASE data.about = Empty
      BY <2>1, <3>1, <3>2 DEF Fields, FormStateInv, Stored
    <3>3. CASE data.about # Empty
      BY <2>1, <3>1, <3>3 DEF Fields, FormStateInv, Stored
    <3> QED BY <3>2, <3>3
  <2>3. FormStateInv'
    <3>1. save' \in [Calls -> SaveState]
      BY <1>3, <1>n DEF ServeUpdate, FormStateInv, SaveState
    <3> QED BY <2>1, <2>2, <3>1 DEF FormStateInv
  <2>4. CASE save[q].mine
    <3>1. save' = [save EXCEPT ![q] = [@ EXCEPT !.pc = "ok"]] /\ clouded' = clouded
      BY <1>3, <2>4 DEF ServeUpdate, FormStateInv
    <3>2. OneSaveInv'
      BY <2>1, <2>4, <3>1, <1>n DEF FormStateInv, SaveState, OneSaveInv
    <3>3. ASSUME NEW r \in Calls, save'[r].mine PROVE r = q
      BY <2>4, <3>1, <3>3 DEF FormStateInv, SaveState, OneSaveInv
    <3>4. SaveInv'
      <4>1. ~ clouded => Stored(data)'
        BY <2>1, <2>2, <2>4 DEF SaveInv, OwnSaves
      <4> QED BY <2>1, <2>4, <3>1, <3>3, <4>1 DEF FormStateInv, SaveState, SaveInv, OwnSaves
    <3>5. SheetIsStored'
      BY <2>4, <3>1 DEF FormStateInv, SaveState, OwnSaves, SheetIsStored
    <3> QED BY <2>3, <3>2, <3>4, <3>5
  <2>5. CASE ~ save[q].mine
    <3>1. save' = [save EXCEPT ![q] = NoSave] /\ clouded'
      BY <1>3, <2>5 DEF ServeUpdate, FormStateInv
    <3>2. OneSaveInv'
      BY <2>1, <2>5, <3>1, <1>n DEF FormStateInv, SaveState, OneSaveInv, NoSave
    <3>3. SaveInv' /\ SheetIsStored'
      BY <2>1, <2>5, <3>1 DEF FormStateInv, SaveState, SaveInv, OwnSaves, SheetIsStored, NoSave
    <3> QED BY <2>3, <3>2, <3>3
  <2> QED BY <2>4, <2>5
<1>4. ASSUME NEW q \in Calls, AnswerListing(q) PROVE FormInv'
  <2>1. save[q].mine /\ save[q].fields \in Fields
    BY <1>4 DEF AnswerListing, OneSaveInv, FormStateInv, SaveState
  <2>2. FormStateInv'
    <3>1. PICK fields \in Fields : fields = save[q].fields
      BY <2>1
    <3>2. /\ save' = [save EXCEPT ![q] = NoSave]
          /\ sheet' = [sheet EXCEPT !.loaded = TRUE, !.fields = fields]
          /\ held' = fields.about
          /\ UNCHANGED <<listing, clouded>>
      BY <1>4, <3>1 DEF AnswerListing
    <3>3. held' \in Blurbs \cup {Empty}
      BY <3>2 DEF Fields
    <3>4. sheet.mounted /\ ~ sheet.loading
      BY <1>4, <2>1 DEF AnswerListing, OneSaveInv
    <3> QED BY <1>n, <3>2, <3>3, <3>4 DEF FormStateInv, SheetState
  <2>3. \A r \in Calls : ~ save'[r].mine
    BY <1>4, <2>1 DEF AnswerListing, FormStateInv, SaveState, OneSaveInv, NoSave
  <2>4. OneSaveInv'
    BY <1>4, <1>n, <2>1, <2>3 DEF AnswerListing, FormStateInv, SaveState, SheetState, OneSaveInv, NoSave
  <2>5. ~ sheet.edited
    BY <1>4, <2>1 DEF AnswerListing, OneSaveInv, SaveInv
  <2>6. SaveInv' /\ SheetIsStored'
    BY <1>4, <2>1, <2>3, <2>5 DEF AnswerListing, FormStateInv, SheetState, SaveInv, OwnSaves, SheetIsStored, Stored
  <2> QED BY <2>2, <2>4, <2>6
<1>5. ASSUME NEW q \in Calls, AnswerUpdate(q) PROVE FormInv'
  <2>1. save[q].mine /\ save[q].fields \in Fields
    BY <1>5 DEF AnswerUpdate, OneSaveInv, FormStateInv, SaveState
  <2>2. FormStateInv'
    BY <1>5, <1>n, <2>1 DEF AnswerUpdate, FormStateInv, SheetState, SaveState
  <2>3. \A r \in Calls : ~ save'[r].mine
    BY <1>5, <2>1 DEF AnswerUpdate, FormStateInv, SaveState, OneSaveInv, NoSave
  <2>4. OneSaveInv'
    BY <1>5, <1>n, <2>1, <2>3 DEF AnswerUpdate, FormStateInv, SaveState, SheetState, OneSaveInv, NoSave
  <2>5. SaveInv' /\ SheetIsStored'
    BY <1>5, <2>1, <2>3 DEF AnswerUpdate, FormStateInv, SheetState, SaveInv, OwnSaves, SheetIsStored, Stored
  <2> QED BY <2>2, <2>4, <2>5
<1>6. ASSUME NEW q \in Calls, SaveFails(q) PROVE FormInv'
  <2>1. /\ clouded' /\ UNCHANGED <<listing, held>>
        /\ save[q].mine
        /\ \/ save' = [save EXCEPT ![q] = NoSave]
           \/ /\ save[q].pc = "sent" /\ save[q].kind = "update"
              /\ save' = [save EXCEPT ![q].mine = FALSE]
        /\ sheet' = IF save[q].kind = "load" THEN [sheet EXCEPT !.failed = TRUE]
                    ELSE [sheet EXCEPT !.loading = FALSE]
        /\ clouded' \in BOOLEAN
    BY <1>6 DEF SaveFails
  <2>2. save' \in [Calls -> SaveState] /\ \A r \in Calls \ {q} : save'[r] = save[r]
    <3>1. PICK new \in SaveState : save' = [save EXCEPT ![q] = new]
      <4>1. save[q] \in SaveState
        BY DEF FormStateInv
      <4>2. [save[q] EXCEPT !.mine = FALSE] \in SaveState
        BY <4>1 DEF SaveState
      <4> QED BY <2>1, <1>n, <4>2
    <3> QED BY <3>1 DEF FormStateInv
  <2>3. \A r \in Calls : ~ save'[r].mine
    BY <2>1 DEF FormStateInv, SaveState, OneSaveInv, NoSave
  <2>4. /\ sheet' \in SheetState
        /\ sheet'.mounted = sheet.mounted /\ sheet'.loaded = sheet.loaded
        /\ sheet'.saved = sheet.saved /\ sheet'.edited = sheet.edited
        /\ sheet'.fields = sheet.fields /\ ~ sheet'.loading
    <3>1. CASE save[q].kind = "load"
      BY <2>1, <3>1 DEF FormStateInv, SheetState, OneSaveInv
    <3>2. CASE save[q].kind # "load"
      BY <2>1, <3>2 DEF FormStateInv, SheetState
    <3> QED BY <3>1, <3>2
  <2>5. FormStateInv'
    BY <2>1, <2>2, <2>4 DEF FormStateInv
  <2>6. OneSaveInv'
    <3>1. ASSUME NEW r \in Calls
          PROVE  /\ save'[r].pc = "idle" => save'[r] = NoSave
                 /\ save'[r].pc # "idle" =>
                      /\ save'[r].kind \in {"load", "update"}
                      /\ save'[r].kind = "update" \/ save'[r].pc = "ok" => save'[r].fields # None
                      /\ save'[r].pc = "ok" \/ save'[r].kind = "load" => save'[r].mine
      <4>1. CASE r # q
        BY <2>2, <4>1 DEF OneSaveInv
      <4>2. CASE r = q /\ save' = [save EXCEPT ![q] = NoSave]
        BY <4>2 DEF FormStateInv, NoSave
      <4>3. CASE /\ r = q /\ save[q].pc = "sent" /\ save[q].kind = "update"
                 /\ save' = [save EXCEPT ![q].mine = FALSE]
        <5>1. /\ save'[q].pc = "sent" /\ save'[q].kind = "update"
              /\ save'[q].fields = save[q].fields
          BY <4>3 DEF FormStateInv, SaveState
        <5> QED BY <4>3, <5>1 DEF OneSaveInv
      <4> QED BY <2>1, <4>1, <4>2, <4>3
    <3> QED BY <2>3, <2>4, <3>1 DEF OneSaveInv
  <2>7. SaveInv' /\ SheetIsStored'
    BY <2>1, <2>3, <2>4 DEF SaveInv, OwnSaves, SheetIsStored
  <2> QED BY <2>5, <2>6, <2>7
<1> QED BY <1>1, <1>2, <1>3, <1>4, <1>5, <1>6

LEMMA FormKept == FormInv /\ [FormNext]_formVars => FormInv'
<1>1. FormInv /\ UNCHANGED formVars => FormInv'
  BY DEF formVars, FormInv, FormStateInv, OneSaveInv, SaveInv, SheetIsStored, OwnSaves, Stored
<1> QED BY <1>1, FormUsed, FormServed DEF FormNext

LEMMA FormInvariant == FormSpec => []FormInv
BY FormKept, FormInitially, PTL DEF FormSpec

\* One call at a time, and a loading flag that has its call.
LEMMA FormIsTyped == FormInv => FormTypeOK
<1> SUFFICES ASSUME FormInv PROVE FormTypeOK
  OBVIOUS
<1> USE FormAssumption DEF FormInv
<1>1. Cardinality({q \in Calls : save[q].mine}) <= 1
  BY AtMostOne DEF OneSaveInv
<1>2. sheet.loading <=> \E q \in Calls : save[q].mine /\ save[q].kind = "update"
  BY DEF OneSaveInv
<1>3. sheet.loaded => sheet.fields \in Fields
  BY DEF FormStateInv, SheetState
<1> QED BY <1>1, <1>2, <1>3 DEF FormTypeOK, FormStateInv

\* For every number of calls: when nothing is under way, no call of the visit went
\* wrong, no save of an earlier visit landed late and nobody else wrote since the
\* last save began, a form not edited since it was loaded or saved shows what the
\* row holds, except for an emptied description: there the row keeps exactly the
\* text it had, and the page says all the same that it is saved.
THEOREM SheetsAreStored == FormSpec => []SheetIsStored
BY FormInvariant, PTL DEF FormInv

-----------------------------------------------------------------------------
(* The settings page *)

LEMMA SettingsInitially == SettingsInit => SettingsInv
<1> SUFFICES ASSUME SettingsInit PROVE SettingsInv
  OBVIOUS
<1> USE SettingsAssumption DEF SettingsInit
<1>1. SettingsStateInv
  BY DEF SettingsStateInv, PanelState, EditState, Hidden, NotSaving, NoEdit
<1>2. EditInv
  BY DEF EditInv, NoEdit, Hidden
<1>3. SlotInv /\ EditorInv /\ EditorsAreSaved
  BY DEF SlotInv, EditorInv, EditorsAreSaved, Saves, NoEdit, NotSaving, Hidden
<1> QED BY <1>1, <1>2, <1>3 DEF SettingsInv

\* One call of the page replaced by another state of it.
LEMMA EditChanged ==
  ASSUME SettingsStateInv, NEW q \in Calls, NEW new \in EditState,
         edit' = [edit EXCEPT ![q] = new]
  PROVE  /\ edit' \in [Calls -> EditState]
         /\ edit'[q] = new
         /\ \A r \in Calls \ {q} : edit'[r] = edit[r]
BY DEF SettingsStateInv

LEMMA NoEditTyped == NoEdit \in EditState
BY DEF NoEdit, EditState

\* The page opened.
LEMMA SettingsOpened ==
  ASSUME SettingsInv, NEW q \in Calls, NEW r \in Calls, OpenSettings(q, r)
  PROVE  SettingsInv'
<1> USE SettingsAssumption DEF SettingsInv
<1>1. \A c \in Calls : ~ edit[c].mine
  BY DEF OpenSettings, EditInv
<1>2. /\ panel' = [Hidden EXCEPT !.mounted = TRUE]
      /\ saving' = NotSaving /\ unsure' = {} /\ setting' = setting /\ q # r
  BY DEF OpenSettings
<1>3. /\ panel' \in PanelState /\ panel'.mounted /\ panel'.shown = {} /\ panel'.dirty = {}
      /\ saving' \in [status : Templates \cup {None}, contact : BOOLEAN] /\ ~ saving'.contact
  BY <1>2 DEF Hidden, NotSaving, PanelState
<1> DEFINE load == [NoEdit EXCEPT !.pc = "sent", !.kind = "load", !.mine = TRUE]
           other == [load EXCEPT !.key = Contact]
<1>4. /\ load \in EditState /\ other \in EditState
      /\ load.mine /\ load.pc = "sent" /\ load.kind = "load" /\ load.key = None
      /\ other.mine /\ other.pc = "sent" /\ other.kind = "load" /\ other.key = Contact
  BY DEF NoEdit, EditState, Keys
<1> HIDE DEF load, other
<1>5. CASE edit' = [edit EXCEPT ![q] = load, ![r] = other]
  <2>1. /\ edit' \in [Calls -> EditState]
        /\ edit'[q] = load /\ edit'[r] = other
        /\ \A c \in Calls \ {q, r} : edit'[c] = edit[c]
    BY <1>2, <1>4, <1>5 DEF SettingsStateInv
  <2>2. SettingsStateInv'
    BY <1>2, <1>3, <2>1 DEF SettingsStateInv
  <2>3. EditInv'
    <3>1. ASSUME NEW c \in Calls, edit'[c].mine PROVE c \in {q, r}
      BY <1>1, <2>1, <3>1
    <3>2. Creates(q)' = Templates /\ Creates(r)' = {Contact}
      BY <1>4, <2>1 DEF Creates
    <3>3. Creates(q)' \cap Creates(r)' = {}
      BY <3>2
    <3>4. ASSUME NEW c \in Calls
          PROVE  /\ edit'[c].pc = "idle" => edit'[c] = NoEdit
                 /\ edit'[c].pc # "idle" => edit'[c].kind \in {"load", "save"}
                 /\ ~ edit'[c].mine /\ edit'[c].pc # "idle" =>
                      edit'[c].pc = "sent" /\ edit'[c].kind = "save"
                 /\ edit'[c].pc # "idle" /\ edit'[c].kind = "save" =>
                      edit'[c].key \in Keys /\ edit'[c].text \in Wordings
                 /\ edit'[c].mine => edit'[c].kind = "load" /\ edit'[c].pc = "sent"
      <4>1. CASE c \in {q, r}
        BY <1>4, <2>1, <4>1
      <4>2. CASE c \notin {q, r}
        BY <1>1, <2>1, <4>2 DEF EditInv
      <4> QED BY <4>1, <4>2
    <3> QED BY <1>3, <3>1, <3>3, <3>4 DEF EditInv
  <2>4. \A c \in Calls : edit'[c].mine => edit'[c].kind = "load" /\ edit'[c].pc = "sent"
    BY <1>1, <1>4, <2>1
  <2>5. SlotInv' /\ EditorInv' /\ EditorsAreSaved'
    BY <1>3, <2>4 DEF SlotInv, EditorInv, EditorsAreSaved, Saves
  <2> QED BY <2>2, <2>3, <2>5
<1>6. CASE UNCHANGED edit
  <2>1. SettingsStateInv'
    BY <1>2, <1>3, <1>6 DEF SettingsStateInv
  <2>2. EditInv'
    BY <1>1, <1>3, <1>6 DEF EditInv
  <2>3. SlotInv' /\ EditorInv' /\ EditorsAreSaved'
    BY <1>1, <1>3, <1>6 DEF SlotInv, EditorInv, EditorsAreSaved, Saves
  <2> QED BY <2>1, <2>2, <2>3
<1> QED BY <1>5, <1>6 DEF OpenSettings, load, other

\* The page left: what was sent is nobody's.
LEMMA SettingsLeft ==
  ASSUME SettingsInv, LeaveSettings
  PROVE  SettingsInv'
<1> USE SettingsAssumption DEF SettingsInv
<1>1. ASSUME NEW q \in Calls
      PROVE  /\ edit'[q] \in EditState
             /\ ~ edit'[q].mine
             /\ \/ edit'[q] = NoEdit
                \/ /\ edit'[q].pc = "sent" /\ edit'[q].kind = "save"
                   /\ edit[q].pc = "sent" /\ edit[q].kind = "save"
                   /\ edit'[q].key = edit[q].key /\ edit'[q].text = edit[q].text
  <2>1. edit[q] \in EditState
    BY DEF SettingsStateInv
  <2>2. \/ edit'[q] = NoEdit
        \/ /\ edit[q].pc = "sent" /\ edit[q].kind = "save"
           /\ edit'[q] = [edit[q] EXCEPT !.mine = FALSE]
    BY DEF LeaveSettings
  <2>3. CASE edit'[q] = NoEdit
    BY <2>3 DEF NoEdit, EditState
  <2>4. CASE /\ edit[q].pc = "sent" /\ edit[q].kind = "save"
             /\ edit'[q] = [edit[q] EXCEPT !.mine = FALSE]
    BY <2>1, <2>4 DEF EditState
  <2> QED BY <2>2, <2>3, <2>4
<1>2. edit' \in [Calls -> EditState]
  BY <1>1 DEF LeaveSettings
<1>3. /\ panel' \in PanelState /\ panel'.shown = {} /\ panel'.dirty = {}
      /\ saving' \in [status : Templates \cup {None}, contact : BOOLEAN] /\ ~ saving'.contact
  BY DEF LeaveSettings, Hidden, NotSaving, PanelState
<1>4. SettingsStateInv'
  BY <1>2, <1>3 DEF LeaveSettings, SettingsStateInv
<1>5. EditInv'
  <2>1. ASSUME NEW q \in Calls
        PROVE  /\ edit'[q].pc = "idle" => edit'[q] = NoEdit
               /\ edit'[q].pc # "idle" => edit'[q].kind = "save" /\ edit'[q].pc = "sent"
               /\ edit'[q].pc # "idle" => edit'[q].key \in Keys /\ edit'[q].text \in Wordings
    <3>1. CASE edit'[q] = NoEdit
      BY <3>1 DEF NoEdit
    <3>2. CASE /\ edit'[q].pc = "sent" /\ edit'[q].kind = "save"
               /\ edit[q].pc = "sent" /\ edit[q].kind = "save"
               /\ edit'[q].key = edit[q].key /\ edit'[q].text = edit[q].text
      BY <3>2 DEF EditInv
    <3> QED BY <1>1, <3>1, <3>2
  <2> QED BY <1>1, <1>3, <2>1 DEF EditInv
<1>6. SlotInv' /\ EditorInv' /\ EditorsAreSaved'
  BY <1>1, <1>3 DEF SlotInv, EditorInv, EditorsAreSaved, Saves
<1> QED BY <1>4, <1>5, <1>6

\* Typing, and other staff.
LEMMA SettingsTyped ==
  ASSUME SettingsInv, NEW k \in Keys, NEW x \in Wordings, TypeText(k, x) \/ SettingsElsewhere(k, x)
  PROVE  SettingsInv'
<1> USE SettingsAssumption DEF SettingsInv
<1>1. CASE TypeText(k, x)
  <2>1. /\ panel' \in PanelState
        /\ panel'.mounted = panel.mounted /\ panel'.shown = panel.shown
        /\ panel'.dirty = panel.dirty \cup {k}
        /\ panel'.text[k] = x
        /\ \A j \in Keys \ {k} : panel'.text[j] = panel.text[j]
        /\ k \in panel.shown
    BY <1>1 DEF TypeText, SettingsStateInv, PanelState
  <2>2. SettingsStateInv'
    BY <1>1, <2>1 DEF TypeText, SettingsStateInv, PanelState
  <2>3. EditInv'
    BY <1>1, <2>1 DEF TypeText, EditInv, Creates
  <2>4. SlotInv' /\ EditorInv' /\ EditorsAreSaved'
    BY <1>1, <2>1 DEF TypeText, SlotInv, EditorInv, EditorsAreSaved, Saves, Creates,
                      SettingsStateInv, PanelState
  <2> QED BY <2>2, <2>3, <2>4
<1>2. CASE SettingsElsewhere(k, x)
  <2>1. /\ setting' \in [Keys -> Wordings] /\ \A j \in Keys \ {k} : setting'[j] = setting[j]
        /\ unsure' = unsure \cup {k}
        /\ UNCHANGED <<panel, saving, edit>>
    BY <1>2 DEF SettingsElsewhere, SettingsStateInv
  <2>2. SettingsStateInv'
    BY <2>1 DEF SettingsStateInv
  <2>3. EditInv'
    BY <2>1 DEF EditInv, Creates
  <2>4. SlotInv' /\ EditorInv' /\ EditorsAreSaved'
    BY <2>1 DEF SlotInv, EditorInv, EditorsAreSaved, Saves, Creates, SettingsStateInv, PanelState, Keys
  <2> QED BY <2>2, <2>3, <2>4
<1> QED BY <1>1, <1>2

\* A button of the page.
LEMMA SettingSent ==
  ASSUME SettingsInv, NEW q \in Calls, NEW k \in panel.shown,
         \/ k # Contact /\ SaveTemplate(q, k)
         \/ k = Contact /\ SaveContact(q)
  PROVE  SettingsInv'
<1> USE SettingsAssumption DEF SettingsInv
<1> DEFINE new == [NoEdit EXCEPT !.pc = "sent", !.kind = "save", !.mine = TRUE,
                                 !.key = k, !.text = panel.text[k]]
<1>0. k \in Keys /\ panel.text[k] \in Wordings
  BY DEF SettingsStateInv, PanelState
<1>1. /\ new \in EditState /\ new.pc = "sent" /\ new.kind = "save" /\ new.mine
      /\ new.key = k /\ new.text = panel.text[k]
  BY <1>0 DEF NoEdit, EditState
<1>2. SendSave(q, k) /\ edit' = [edit EXCEPT ![q] = new]
  BY DEF SaveTemplate, SaveContact, SendSave
<1> HIDE DEF new
<1>3. /\ edit' \in [Calls -> EditState]
      /\ edit'[q] = new
      /\ \A r \in Calls \ {q} : edit'[r] = edit[r]
  BY <1>1, <1>2, EditChanged
<1>4. ~ edit[q].mine
  BY <1>2 DEF SendSave, EditInv, NoEdit
<1>5. /\ panel' \in PanelState /\ panel'.dirty = panel.dirty \ {k}
      /\ panel'.shown = panel.shown /\ panel'.text = panel.text /\ panel'.mounted = panel.mounted
      /\ setting' = setting
  BY <1>2 DEF SendSave, SettingsStateInv, PanelState
<1>6. panel.mounted
  BY DEF EditInv
<1>7. /\ saving' \in [status : Templates \cup {None}, contact : BOOLEAN]
      /\ saving'.contact <=> saving.contact \/ k = Contact
      /\ k = Contact => ~ saving.contact
      /\ k # Contact => saving.status # k
  BY <1>0 DEF SaveTemplate, SaveContact, SettingsStateInv, Keys
<1>8. SettingsStateInv'
  BY <1>0, <1>2, <1>3, <1>5, <1>7 DEF SettingsStateInv, SendSave
<1>9. EditInv'
  BY <1>0, <1>1, <1>3, <1>5, <1>6 DEF EditInv, Creates
<1>10. /\ Saves(k)' = Saves(k) \cup {q}
       /\ \A j \in Keys \ {k} : Saves(j)' = Saves(j)
  BY <1>1, <1>3, <1>4 DEF Saves
<1>11. \/ Saves(k) = {} /\ unsure' = unsure \ {k}
       \/ Saves(k) # {} /\ k # Contact /\ unsure' = unsure \cup {k}
  <2>1. CASE Saves(k) = {}
    BY <1>2, <2>1 DEF SendSave
  <2>2. CASE Saves(k) # {}
    <3>1. k # Contact
      BY <1>7, <2>2 DEF SlotInv
    <3>2. unsure' = unsure \cup {k}
      BY <1>2, <1>7, <2>2, <3>1 DEF SendSave
    <3> QED BY <2>2, <3>1, <3>2
  <2> QED BY <2>1, <2>2
<1>12. \A j \in Keys \ {k} : j \in unsure' <=> j \in unsure
  BY <1>11
<1>13. SlotInv'
  BY <1>0, <1>7, <1>10, <1>11, <1>12 DEF SlotInv, Keys
<1>14. ASSUME NEW r \in Calls, edit'[r].mine, edit'[r].kind = "load", edit'[r].pc = "ok"
       PROVE  \A j \in Creates(r)' \ unsure' : edit'[r].values[j] = setting'[j]
  <2>1. r # q /\ edit'[r] = edit[r]
    BY <1>1, <1>3, <1>14
  <2>2. Creates(r)' = Creates(r) /\ Creates(r) \subseteq Keys
    BY <2>1 DEF Creates, Keys
  <2>3. k \notin Creates(r)
    BY <1>14, <2>1 DEF EditInv
  <2> QED BY <1>5, <1>12, <1>14, <2>1, <2>2, <2>3 DEF EditorInv
<1>15. ASSUME NEW j \in Keys \ unsure', NEW r \in Saves(j)'
       PROVE  /\ j \notin panel'.dirty => panel'.text[j] = edit'[r].text
              /\ edit'[r].pc = "ok" => setting'[j] = edit'[r].text
  <2>1. CASE j = k
    <3>1. r = q
      BY <1>10, <1>11, <1>15, <2>1
    <3> QED BY <1>1, <1>3, <1>5, <2>1, <3>1
  <2>2. CASE j # k
    <3>1. r \in Saves(j) /\ r # q /\ edit'[r] = edit[r]
      BY <1>3, <1>4, <1>10, <1>15, <2>2 DEF Saves
    <3> QED BY <1>5, <1>12, <1>15, <2>2, <3>1 DEF EditorInv
  <2> QED BY <2>1, <2>2
<1>16. EditorInv'
  BY <1>14, <1>15 DEF EditorInv
<1>17. EditorsAreSaved'
  BY <1>5, <1>10, <1>12 DEF EditorsAreSaved, SettingsStateInv, PanelState
<1> QED BY <1>8, <1>9, <1>13, <1>16, <1>17

\* A request served.
LEMMA SettingServed ==
  ASSUME SettingsInv, NEW q \in Calls, ServeSettings(q) \/ ServeSave(q)
  PROVE  SettingsInv'
<1> USE SettingsAssumption DEF SettingsInv
<1>0. edit[q] \in EditState
  BY DEF SettingsStateInv
<1>1. CASE ServeSettings(q)
  <2> DEFINE new == [edit[q] EXCEPT !.pc = "ok", !.values = setting]
  <2>1. /\ new \in EditState /\ new.pc = "ok" /\ new.kind = "load" /\ new.mine = edit[q].mine
        /\ new.key = edit[q].key /\ new.values = setting /\ new.text = edit[q].text
        /\ edit[q].pc = "sent" /\ edit[q].kind = "load"
    BY <1>0, <1>1 DEF ServeSettings, EditState, SettingsStateInv
  <2>2. edit' = [edit EXCEPT ![q] = new] /\ UNCHANGED <<setting, panel, saving, unsure>>
    BY <1>0, <1>1 DEF ServeSettings, EditState, SettingsStateInv
  <2> HIDE DEF new
  <2>3. /\ edit' \in [Calls -> EditState] /\ edit'[q] = new
        /\ \A r \in Calls \ {q} : edit'[r] = edit[r]
    BY <2>1, <2>2, EditChanged
  <2>4. SettingsStateInv'
    BY <2>2, <2>3 DEF SettingsStateInv
  <2>5. \A r \in Calls : Creates(r)' = Creates(r)
    BY <2>1, <2>3 DEF Creates
  <2>6. EditInv'
    BY <2>1, <2>2, <2>3, <2>5 DEF EditInv, SettingsStateInv
  <2>7. \A k \in Keys : Saves(k)' = Saves(k) /\ q \notin Saves(k)
    BY <2>1, <2>3 DEF Saves
  <2>8. Contact \in Keys
    BY DEF Keys
  <2>9. SlotInv'
    BY <2>2, <2>7, <2>8 DEF SlotInv
  <2>10. EditorInv'
    BY <2>1, <2>2, <2>3, <2>5, <2>7 DEF EditorInv, Creates, Keys, Saves
  <2>11. EditorsAreSaved'
    BY <2>2, <2>7 DEF EditorsAreSaved, SettingsStateInv, PanelState
  <2> QED BY <2>4, <2>6, <2>9, <2>10, <2>11
<1>2. CASE ServeSave(q)
  <2>0. PICK k \in Keys, t \in Wordings :
           /\ edit[q].key = k /\ edit[q].text = t /\ edit[q].pc = "sent" /\ edit[q].kind = "save"
    BY <1>2 DEF ServeSave, EditInv
  <2>1. /\ setting' \in [Keys -> Wordings] /\ setting'[k] = t
        /\ \A j \in Keys \ {k} : setting'[j] = setting[j]
        /\ unsure' = IF edit[q].mine THEN unsure ELSE unsure \cup {k}
        /\ UNCHANGED <<panel, saving>>
    BY <1>2, <2>0 DEF ServeSave, SettingsStateInv
  <2>2. PICK new \in EditState :
           /\ edit' = [edit EXCEPT ![q] = new]
           /\ \/ ~ edit[q].mine /\ new = NoEdit
              \/ /\ edit[q].mine /\ new.mine /\ new.pc = "ok" /\ new.kind = "save"
                 /\ new.key = k /\ new.text = t
    <3>1. CASE edit[q].mine
      <4> DEFINE new == [edit[q] EXCEPT !.pc = "ok"]
      <4>1. /\ new \in EditState /\ new.mine /\ new.pc = "ok" /\ new.kind = "save"
            /\ new.key = k /\ new.text = t
        BY <1>0, <2>0, <3>1 DEF EditState
      <4>2. edit' = [edit EXCEPT ![q] = new]
        BY <1>2, <3>1 DEF ServeSave, SettingsStateInv
      <4> QED BY <3>1, <4>1, <4>2
    <3>2. CASE ~ edit[q].mine
      BY <1>2, <3>2, NoEditTyped DEF ServeSave, SettingsStateInv
    <3> QED BY <3>1, <3>2
  <2>3. /\ edit' \in [Calls -> EditState] /\ edit'[q] = new
        /\ \A r \in Calls \ {q} : edit'[r] = edit[r]
    BY <2>2, EditChanged
  <2>4. SettingsStateInv'
    BY <2>1, <2>3 DEF SettingsStateInv
  <2>5. ASSUME NEW r \in Calls, edit'[r].mine, edit'[r].kind = "load"
        PROVE  r # q /\ edit'[r] = edit[r] /\ Creates(r)' = Creates(r) /\ Creates(r) \subseteq Keys
    BY <2>2, <2>3, <2>5 DEF Creates, Keys, NoEdit
  <2>6. EditInv'
    <3>1. ASSUME NEW r \in Calls
          PROVE  /\ edit'[r].pc = "idle" => edit'[r] = NoEdit
                 /\ edit'[r].pc # "idle" => edit'[r].kind \in {"load", "save"}
                 /\ ~ edit'[r].mine /\ edit'[r].pc # "idle" =>
                      edit'[r].pc = "sent" /\ edit'[r].kind = "save"
                 /\ edit'[r].pc # "idle" /\ edit'[r].kind = "save" =>
                      edit'[r].key \in Keys /\ edit'[r].text \in Wordings
                 /\ edit'[r].mine =>
                      /\ panel.mounted
                      /\ edit'[r].kind = "save" => edit'[r].key \in panel.shown
      <4>1. CASE r # q
        BY <2>3, <4>1 DEF EditInv
      <4>2. CASE r = q /\ new = NoEdit
        BY <2>2, <2>3, <4>2 DEF NoEdit
      <4>3. CASE r = q /\ edit[q].mine /\ new.mine
        <5>1. panel.mounted /\ k \in panel.shown
          BY <2>0, <4>3 DEF EditInv
        <5>2. /\ new.pc = "ok" /\ new.kind = "save" /\ new.key = k /\ new.text = t
          BY <2>2, <4>3
        <5> QED BY <2>3, <4>3, <5>1, <5>2
      <4> QED BY <2>2, <4>1, <4>2, <4>3
    <3> QED BY <2>1, <2>5, <3>1 DEF EditInv
  <2>7. \A j \in Keys : Saves(j)' = Saves(j)
    BY <2>0, <2>2, <2>3 DEF Saves, NoEdit
  <2>8. Contact \in Keys
    BY DEF Keys
  <2>9. SlotInv'
    BY <2>1, <2>7, <2>8 DEF SlotInv
  <2>10. ASSUME NEW r \in Calls, edit'[r].mine, edit'[r].kind = "load", edit'[r].pc = "ok"
         PROVE  \A j \in Creates(r)' \ unsure' : edit'[r].values[j] = setting'[j]
    <3>1. r # q /\ edit'[r] = edit[r] /\ Creates(r)' = Creates(r) /\ Creates(r) \subseteq Keys
      BY <2>5, <2>10
    <3>2. k \in Creates(r) => k \in unsure'
      BY <2>0, <2>1, <2>10, <3>1 DEF EditInv
    <3> QED BY <2>1, <2>10, <3>1, <3>2 DEF EditorInv
  <2>11. ASSUME NEW j \in Keys \ unsure', NEW r \in Saves(j)'
         PROVE  /\ j \notin panel'.dirty => panel'.text[j] = edit'[r].text
                /\ edit'[r].pc = "ok" => setting'[j] = edit'[r].text
    <3>0. r \in Saves(j) /\ r \in Calls
      BY <2>7, <2>11 DEF Saves
    <3>1. CASE r = q
      <4>1. edit[q].mine /\ j = k
        BY <2>0, <3>0, <3>1 DEF Saves
      <4>2. edit'[r].text = t /\ setting'[j] = t /\ panel' = panel
        BY <2>1, <2>2, <2>3, <3>1, <4>1
      <4>3. j \notin panel.dirty => panel.text[j] = edit[q].text
        BY <2>1, <2>11, <3>0, <3>1, <4>1 DEF EditorInv
      <4> QED BY <2>0, <4>2, <4>3
    <3>2. CASE r # q
      <4>1. j # k
        BY <2>0, <2>1, <2>11, <3>0, <3>2 DEF SlotInv, Saves
      <4> QED BY <2>1, <2>3, <2>11, <3>0, <3>2, <4>1 DEF EditorInv
    <3> QED BY <3>1, <3>2
  <2>12. EditorInv'
    BY <2>10, <2>11 DEF EditorInv
  <2>13. EditorsAreSaved'
    BY <2>0, <2>1, <2>7 DEF EditorsAreSaved, Saves, SettingsStateInv, PanelState
  <2> QED BY <2>4, <2>6, <2>9, <2>12, <2>13
<1> QED BY <1>1, <1>2

\* The answer of a load, which creates editors.
LEMMA SettingsAnswered ==
  ASSUME SettingsInv, NEW q \in Calls, AnswerSettings(q)
  PROVE  SettingsInv'
<1> USE SettingsAssumption DEF SettingsInv
<1>1. /\ edit[q].pc = "ok" /\ edit[q].kind = "load" /\ edit[q].mine
      /\ edit[q].values \in [Keys -> Wordings]
  BY DEF AnswerSettings, EditInv
<1>2. PICK ks \in SUBSET Keys : ks = Creates(q)
  BY DEF Creates, Keys
<1>3. /\ edit' \in [Calls -> EditState] /\ edit'[q] = NoEdit
      /\ \A r \in Calls \ {q} : edit'[r] = edit[r]
  BY NoEditTyped, EditChanged DEF AnswerSettings
<1>4. /\ panel' = [panel EXCEPT !.shown = @ \cup ks,
           !.text = [k \in Keys |-> IF k \in ks THEN edit[q].values[k] ELSE @[k]]]
      /\ UNCHANGED <<setting, saving, unsure>>
  BY <1>2 DEF AnswerSettings, Creates
<1>5. /\ panel' \in PanelState
      /\ panel'.mounted = panel.mounted /\ panel'.dirty = panel.dirty
      /\ panel'.shown = panel.shown \cup ks
      /\ \A k \in ks : panel'.text[k] = edit[q].values[k]
      /\ \A k \in Keys \ ks : panel'.text[k] = panel.text[k]
  <2>1. panel \in PanelState
    BY DEF SettingsStateInv
  <2> DEFINE text == [k \in Keys |-> IF k \in ks THEN edit[q].values[k] ELSE panel.text[k]]
  <2>2. text \in [Keys -> Wordings \cup {None}]
    BY <1>1, <2>1 DEF PanelState
  <2>3. panel' = [panel EXCEPT !.shown = @ \cup ks, !.text = text]
    BY <1>4
  <2>4. /\ \A k \in ks : text[k] = edit[q].values[k]
        /\ \A k \in Keys \ ks : text[k] = panel.text[k]
    OBVIOUS
  <2> HIDE DEF text
  <2> QED BY <2>1, <2>2, <2>3, <2>4 DEF PanelState
<1>6. SettingsStateInv'
  BY <1>1, <1>3, <1>4, <1>5 DEF SettingsStateInv, PanelState
<1>7. ASSUME NEW r \in Calls, edit'[r].mine
      PROVE  r # q /\ edit'[r] = edit[r] /\ Creates(r)' = Creates(r)
  BY <1>3, <1>7 DEF NoEdit, Creates
<1>8. EditInv'
  <2>1. \A r \in Calls :
          /\ edit'[r].pc = "idle" => edit'[r] = NoEdit
          /\ edit'[r].pc # "idle" => edit'[r].kind \in {"load", "save"}
          /\ ~ edit'[r].mine /\ edit'[r].pc # "idle" => edit'[r].pc = "sent" /\ edit'[r].kind = "save"
          /\ edit'[r].pc # "idle" /\ edit'[r].kind = "save" =>
               edit'[r].key \in Keys /\ edit'[r].text \in Wordings
    BY <1>3 DEF EditInv, NoEdit
  <2>2. ASSUME NEW r \in Calls, edit'[r].mine
        PROVE  /\ panel'.mounted
               /\ edit'[r].kind = "load" => panel'.shown \cap Creates(r)' = {}
               /\ edit'[r].kind = "load" /\ edit'[r].pc = "ok" => edit'[r].values \in [Keys -> Wordings]
               /\ edit'[r].kind = "save" => edit'[r].key \in panel'.shown
    BY <1>1, <1>2, <1>5, <1>7, <2>2 DEF EditInv
  <2>3. \A r, c \in Calls :
          /\ edit'[r].mine /\ edit'[c].mine /\ edit'[r].kind = "load" /\ edit'[c].kind = "load"
          /\ r # c
          => Creates(r)' \cap Creates(c)' = {}
    BY <1>7 DEF EditInv
  <2>4. panel'.mounted
    BY <1>1, <1>5 DEF EditInv
  <2> QED BY <2>1, <2>2, <2>3, <2>4 DEF EditInv
<1>9. \A k \in Keys : Saves(k)' = Saves(k)
  BY <1>1, <1>3 DEF Saves, NoEdit
<1>10. Contact \in Keys
  BY DEF Keys
<1>11. SlotInv'
  BY <1>4, <1>9, <1>10 DEF SlotInv
<1>12. \A k \in ks : k \notin panel.shown
  BY <1>1, <1>2 DEF EditInv
<1>13. ASSUME NEW k \in Keys \ unsure, NEW r \in Saves(k)
       PROVE  /\ edit'[r] = edit[r]
              /\ k \notin ks
  <2>1. r # q
    BY <1>1, <1>13 DEF Saves
  <2>2. k \in panel.shown
    BY <1>13 DEF Saves, EditInv
  <2> QED BY <1>3, <1>12, <1>13, <2>1, <2>2 DEF Saves
<1>14. EditorInv'
  <2>1. ASSUME NEW r \in Calls, edit'[r].mine, edit'[r].kind = "load", edit'[r].pc = "ok"
        PROVE  \A k \in Creates(r)' \ unsure' : edit'[r].values[k] = setting'[k]
    BY <1>4, <1>7, <2>1 DEF EditorInv
  <2>2. ASSUME NEW k \in Keys \ unsure', NEW r \in Saves(k)'
        PROVE  /\ k \notin panel'.dirty => panel'.text[k] = edit'[r].text
               /\ edit'[r].pc = "ok" => setting'[k] = edit'[r].text
    BY <1>4, <1>5, <1>9, <1>13, <2>2 DEF EditorInv
  <2> QED BY <2>1, <2>2 DEF EditorInv
<1>15. EditorsAreSaved'
  <2>1. ASSUME NEW k \in panel'.shown \ (panel'.dirty \cup unsure'), Saves(k)' = {}
        PROVE  panel'.text[k] = setting'[k]
    <3>0. k \in Keys
      BY <1>5, <2>1 DEF SettingsStateInv, PanelState
    <3>1. CASE k \in ks
      BY <1>1, <1>2, <1>4, <1>5, <2>1, <3>1 DEF EditorInv
    <3>2. CASE k \notin ks
      BY <1>4, <1>5, <1>9, <2>1, <3>0, <3>2 DEF EditorsAreSaved
    <3> QED BY <3>1, <3>2
  <2> QED BY <2>1 DEF EditorsAreSaved
<1> QED BY <1>6, <1>8, <1>11, <1>14, <1>15

\* A call that ends, well or not, or goes on without the page: its editor keeps
\* its text, its button is free.
LEMMA SettingEnded ==
  ASSUME SettingsInv, NEW q \in Calls, AnswerSave(q) \/ EditFails(q)
  PROVE  SettingsInv'
<1> USE SettingsAssumption DEF SettingsInv
<1>0. edit[q] \in EditState
  BY DEF SettingsStateInv
<1>1. /\ edit[q].mine /\ edit[q].kind \in {"load", "save"}
      /\ UNCHANGED <<setting, panel>>
      /\ edit[q].kind = "save" => edit[q].key \in Keys
  BY DEF AnswerSave, EditFails, EditInv, NoEdit
<1>2. PICK new \in EditState :
        /\ edit' = [edit EXCEPT ![q] = new]
        /\ ~ new.mine
        /\ \/ new = NoEdit
           \/ /\ edit[q].kind = "save"
              /\ new.pc = "sent" /\ new.kind = "save" /\ new.key \in Keys /\ new.text \in Wordings
  <2>1. CASE edit' = [edit EXCEPT ![q] = NoEdit]
    BY <2>1, NoEditTyped DEF NoEdit
  <2>2. CASE /\ edit[q].pc = "sent" /\ edit[q].kind = "save"
             /\ edit' = [edit EXCEPT ![q].mine = FALSE]
    <3> DEFINE new == [edit[q] EXCEPT !.mine = FALSE]
    <3>1. /\ new \in EditState /\ ~ new.mine /\ new.pc = "sent" /\ new.kind = "save"
          /\ new.key = edit[q].key /\ new.text = edit[q].text
      BY <1>0, <2>2 DEF EditState
    <3>2. new.key \in Keys /\ new.text \in Wordings
      BY <2>2, <3>1 DEF EditInv
    <3>3. edit' = [edit EXCEPT ![q] = new]
      BY <2>2
    <3> QED BY <2>2, <3>1, <3>2, <3>3
  <2> QED BY <2>1, <2>2 DEF AnswerSave, EditFails
<1>3. /\ edit' \in [Calls -> EditState] /\ edit'[q] = new
      /\ \A r \in Calls \ {q} : edit'[r] = edit[r]
  BY <1>2, EditChanged
<1>4. /\ saving' \in [status : Templates \cup {None}, contact : BOOLEAN]
      /\ saving'.contact = (saving.contact /\ ~ (edit[q].kind = "save" /\ edit[q].key = Contact))
  BY <1>1 DEF AnswerSave, EditFails, Freed, SettingsStateInv
<1>5. /\ unsure \subseteq unsure' /\ unsure' \subseteq Keys
      /\ \/ unsure' = unsure
         \/ edit[q].kind = "save" /\ unsure' = unsure \cup {edit[q].key}
      /\ ~ AnswerSave(q) /\ edit[q].kind = "save" => edit[q].key \in unsure'
  BY <1>1 DEF AnswerSave, EditFails, SettingsStateInv
<1>6. SettingsStateInv'
  BY <1>1, <1>3, <1>4, <1>5 DEF SettingsStateInv
<1>7. ASSUME NEW r \in Calls, edit'[r].mine
      PROVE  r # q /\ edit'[r] = edit[r] /\ Creates(r)' = Creates(r)
  BY <1>2, <1>3, <1>7 DEF Creates
<1>8. EditInv'
  <2>1. ASSUME NEW r \in Calls
        PROVE  /\ edit'[r].pc = "idle" => edit'[r] = NoEdit
               /\ edit'[r].pc # "idle" => edit'[r].kind \in {"load", "save"}
               /\ ~ edit'[r].mine /\ edit'[r].pc # "idle" =>
                    edit'[r].pc = "sent" /\ edit'[r].kind = "save"
               /\ edit'[r].pc # "idle" /\ edit'[r].kind = "save" =>
                    edit'[r].key \in Keys /\ edit'[r].text \in Wordings
    <3>1. CASE r # q
      BY <1>3, <3>1 DEF EditInv
    <3>2. CASE r = q /\ new = NoEdit
      BY <1>3, <3>2 DEF NoEdit
    <3>3. CASE r = q /\ new # NoEdit
      BY <1>2, <1>3, <3>3
    <3> QED BY <3>1, <3>2, <3>3
  <2> QED BY <1>1, <1>7, <2>1 DEF EditInv
<1>9. \A k \in Keys : Saves(k)' = Saves(k) \ {q}
  BY <1>2, <1>3, <1>7 DEF Saves
<1>10. Contact \in Keys
  BY DEF Keys
<1>11. SlotInv'
  <2>1. saving'.contact <=> Saves(Contact)' # {}
    <3>1. CASE edit[q].kind = "save" /\ edit[q].key = Contact
      BY <1>1, <1>4, <1>9, <1>10, <3>1 DEF SlotInv, Saves
    <3>2. CASE ~ (edit[q].kind = "save" /\ edit[q].key = Contact)
      BY <1>4, <1>9, <1>10, <3>2 DEF SlotInv, Saves
    <3> QED BY <3>1, <3>2
  <2> QED BY <1>5, <1>9, <2>1 DEF SlotInv
<1>12. EditorInv'
  <2>1. ASSUME NEW r \in Calls, edit'[r].mine, edit'[r].kind = "load", edit'[r].pc = "ok"
        PROVE  \A k \in Creates(r)' \ unsure' : edit'[r].values[k] = setting'[k]
    BY <1>1, <1>5, <1>7, <2>1 DEF EditorInv
  <2>2. ASSUME NEW k \in Keys \ unsure', NEW r \in Saves(k)'
        PROVE  /\ k \notin panel'.dirty => panel'.text[k] = edit'[r].text
               /\ edit'[r].pc = "ok" => setting'[k] = edit'[r].text
    <3>1. r \in Saves(k) /\ edit'[r] = edit[r] /\ k \in Keys \ unsure
      BY <1>3, <1>5, <1>9, <2>2 DEF Saves
    <3> QED BY <1>1, <3>1 DEF EditorInv
  <2> QED BY <2>1, <2>2 DEF EditorInv
<1>13. EditorsAreSaved'
  <2>1. ASSUME NEW k \in panel.shown \ (panel.dirty \cup unsure'), Saves(k)' = {}
        PROVE  panel.text[k] = setting[k]
    <3>0. k \in Keys \ unsure
      BY <1>5, <2>1 DEF SettingsStateInv, PanelState
    <3>1. CASE q \in Saves(k)
      <4>1. AnswerSave(q)
        BY <1>5, <2>1, <3>1 DEF Saves
      <4>2. edit[q].pc = "ok" /\ k \notin panel.dirty
        BY <2>1, <4>1 DEF AnswerSave
      <4> QED BY <3>0, <3>1, <4>2 DEF EditorInv
    <3>2. CASE q \notin Saves(k)
      BY <1>9, <2>1, <3>0, <3>2 DEF EditorsAreSaved
    <3> QED BY <3>1, <3>2
  <2> QED BY <1>1, <2>1 DEF EditorsAreSaved
<1> QED BY <1>6, <1>8, <1>11, <1>12, <1>13

LEMMA SettingsKept == SettingsInv /\ [SettingsNext]_settingsVars => SettingsInv'
<1> SUFFICES ASSUME SettingsInv, [SettingsNext]_settingsVars PROVE SettingsInv'
  OBVIOUS
<1>1. CASE UNCHANGED settingsVars
  BY <1>1 DEF settingsVars, SettingsInv, SettingsStateInv, EditInv, SlotInv, EditorInv,
              EditorsAreSaved, Saves, Creates
<1>2. ASSUME NEW q \in Calls, SaveContact(q) \/ \E k \in Templates : SaveTemplate(q, k)
      PROVE  SettingsInv'
  <2>1. ASSUME NEW k \in Templates, SaveTemplate(q, k) PROVE SettingsInv'
    BY <2>1, SettingSent, SettingsAssumption DEF SaveTemplate
  <2>2. ASSUME SaveContact(q) PROVE SettingsInv'
    BY <2>2, SettingSent DEF SaveContact
  <2> QED BY <1>2, <2>1, <2>2
<1> QED BY <1>1, <1>2, SettingsOpened, SettingsLeft, SettingsTyped, SettingServed, SettingsAnswered,
           SettingEnded DEF SettingsNext

LEMMA SettingsInvariant == SettingsSpec => []SettingsInv
BY SettingsKept, SettingsInitially, PTL DEF SettingsSpec

\* The contact form waits for one save of its own.
LEMMA SettingsAreTyped == SettingsInv => SettingsTypeOK
<1> SUFFICES ASSUME SettingsInv PROVE SettingsTypeOK
  OBVIOUS
<1> USE DEF SettingsInv
<1>1. saving.contact <=> \E q \in Calls : edit[q].mine /\ edit[q].key = Contact
                                         /\ edit[q].kind = "save"
  BY DEF SlotInv, Saves
<1> QED BY <1>1 DEF SettingsTypeOK, SettingsStateInv, PanelState

\* For every number of calls and templates: an editor without unsaved typing whose
\* save is over shows the text that SMS are made from, unless a save of it failed,
\* other staff wrote it, or two saves of it were under way together.
THEOREM EditorsShowSaved == SettingsSpec => []EditorsAreSaved
BY SettingsInvariant, PTL DEF SettingsInv

-----------------------------------------------------------------------------
(* The page of a case *)

LEMMA DeskInitially == DeskInit => DeskInv
<1> SUFFICES ASSUME DeskInit PROVE DeskInv
  OBVIOUS
<1> USE DeskAssumption DEF DeskInit
<1>1. DeskStateInv
  BY DEF DeskStateInv, DeskState, ErrandState, Gone, NoErrand
<1>2. ErrandInv
  BY DEF ErrandInv, Sound, Errands, NoErrand
<1>3. PreviewInv
  BY DEF PreviewInv, Errands, NoErrand, Gone
<1>4. CaseInv
  BY DEF CaseInv, Gone
<1> QED BY <1>1, <1>2, <1>3, <1>4 DEF DeskInv

\* One call of the page replaced by another state of it.
LEMMA ErrandChanged ==
  ASSUME DeskStateInv, NEW q \in Calls, NEW new \in ErrandState,
         errand' = [errand EXCEPT ![q] = new]
  PROVE  /\ errand' \in [Calls -> ErrandState]
         /\ errand'[q] = new
         /\ \A r \in Calls \ {q} : errand'[r] = errand[r]
         /\ \A kinds \in SUBSET Kinds :
              Errands(kinds)' = (Errands(kinds) \ {q})
                                  \cup {r \in {q} : new.mine /\ new.kind \in kinds}
<1>1. /\ errand' \in [Calls -> ErrandState]
      /\ errand'[q] = new
      /\ \A r \in Calls \ {q} : errand'[r] = errand[r]
  BY DEF DeskStateInv
<1>2. ASSUME NEW kinds \in SUBSET Kinds
      PROVE  Errands(kinds)' = (Errands(kinds) \ {q})
                                 \cup {r \in {q} : new.mine /\ new.kind \in kinds}
  BY <1>1 DEF Errands
<1> QED BY <1>1, <1>2

LEMMA NoErrandTyped == NoErrand \in ErrandState /\ Sound(NoErrand) /\ ~ NoErrand.mine
                       /\ NoErrand.pc = "idle"
BY DEF NoErrand, ErrandState, Sound

\* The page and the calls as they were, a case that is in doubt anyway.
LEMMA DeskOpened ==
  ASSUME DeskInv, NEW q \in Calls, OpenCase(q)
  PROVE  DeskInv'
<1> USE DeskAssumption DEF DeskInv
<1>1. \A r \in Calls : ~ errand[r].mine
  BY DEF OpenCase, ErrandInv
<1> DEFINE new == [NoErrand EXCEPT !.pc = "sent", !.kind = "load", !.mine = TRUE]
<1>2. /\ new \in ErrandState /\ Sound(new) /\ new.mine /\ new.kind = "load" /\ new.pc = "sent"
  BY DEF NoErrand, ErrandState, Sound, Kinds
<1>3. /\ Gone \in DeskState /\ [Gone EXCEPT !.mounted = TRUE] \in DeskState
      /\ [[Gone EXCEPT !.mounted = TRUE] EXCEPT !.failed = TRUE] \in DeskState
      /\ [[Gone EXCEPT !.mounted = TRUE] EXCEPT !.failed = TRUE].failed
  BY DEF Gone, DeskState
<1>4. \/ /\ errand' = [errand EXCEPT ![q] = new]
         /\ desk' = [Gone EXCEPT !.mounted = TRUE]
         /\ doubt' \in BOOLEAN
      \/ /\ errand' = [errand EXCEPT ![q] = NoErrand]
         /\ desk' = [[Gone EXCEPT !.mounted = TRUE] EXCEPT !.failed = TRUE]
         /\ doubt' = doubt
  BY DEF OpenCase, LoadCase, DeskStateInv
<1> HIDE DEF new
<1>5. /\ desk' \in DeskState /\ desk'.mounted /\ ~ desk'.loaded /\ desk'.preview = None
  BY <1>3, <1>4 DEF Gone
<1>6. PICK e \in {new, NoErrand} :
        /\ errand' = [errand EXCEPT ![q] = e]
        /\ e = NoErrand => desk'.failed
        /\ doubt' \in BOOLEAN
  BY <1>2, <1>3, <1>4, NoErrandTyped DEF DeskStateInv
<1>7. /\ e \in ErrandState /\ Sound(e) /\ (e.mine => e.kind = "load" /\ e.pc = "sent")
  BY <1>2, <1>6, NoErrandTyped
<1>8. /\ errand' \in [Calls -> ErrandState]
      /\ errand'[q] = e
      /\ \A r \in Calls \ {q} : errand'[r] = errand[r]
  BY <1>6, <1>7, ErrandChanged
<1>9. \A r \in Calls : errand'[r].mine => r = q /\ errand'[r].kind = "load" /\ errand'[r].pc = "sent"
  BY <1>1, <1>7, <1>8
<1>10. UNCHANGED <<row, template, wrongSms>>
  BY DEF OpenCase
<1>11. DeskStateInv'
  BY <1>5, <1>6, <1>8, <1>10 DEF DeskStateInv
<1>12. ErrandInv'
  BY <1>5, <1>7, <1>8, <1>9 DEF ErrandInv, Errands
<1>13. PreviewInv'
  <2>1. ASSUME NEW r \in Calls, errand'[r].pc = "sent", errand'[r].kind = "confirm",
               ~ errand'[r].excused
        PROVE  template'[errand'[r].status] = errand'[r].text
    <3>1. r # q
      BY <1>2, <1>6, <1>8, <2>1, NoErrandTyped
    <3> QED BY <1>8, <1>10, <2>1, <3>1 DEF PreviewInv
  <2> QED BY <1>5, <1>9, <1>10, <2>1 DEF PreviewInv, Errands
<1>14. CaseInv'
  BY <1>5, <1>6, <1>9 DEF CaseInv, Errands
<1> QED BY <1>11, <1>12, <1>13, <1>14

\* The page left: what was sent is nobody's.
LEMMA DeskLeft ==
  ASSUME DeskInv, LeaveCase
  PROVE  DeskInv'
<1> USE DeskAssumption DEF DeskInv
<1>1. ASSUME NEW q \in Calls
      PROVE  /\ errand'[q] \in ErrandState /\ Sound(errand'[q]) /\ ~ errand'[q].mine
             /\ \/ errand'[q] = NoErrand
                \/ /\ errand'[q].pc = errand[q].pc /\ errand'[q].kind = errand[q].kind
                   /\ errand'[q].status = errand[q].status /\ errand'[q].text = errand[q].text
                   /\ errand'[q].excused = errand[q].excused
  <2>1. errand[q] \in ErrandState /\ Sound(errand[q])
    BY DEF DeskStateInv, ErrandInv
  <2>2. CASE q \in Unread
    <3>1. errand'[q] = [errand[q] EXCEPT !.mine = FALSE]
      BY <2>2 DEF LeaveCase
    <3>2. errand[q].pc = "sent" /\ errand[q].kind \in {"confirm", "notes"}
      BY <2>2 DEF Unread
    <3>3. /\ errand'[q].pc = errand[q].pc /\ errand'[q].kind = errand[q].kind
          /\ errand'[q].status = errand[q].status /\ errand'[q].text = errand[q].text
          /\ errand'[q].excused = errand[q].excused /\ ~ errand'[q].mine
          /\ errand'[q] \in ErrandState
      BY <2>1, <3>1 DEF ErrandState
    <3> QED BY <2>1, <3>2, <3>3, NoErrandTyped DEF Sound, Kinds
  <2>3. CASE q \notin Unread
    BY <2>3, NoErrandTyped DEF LeaveCase
  <2> QED BY <2>2, <2>3
<1>2. errand' \in [Calls -> ErrandState]
  BY <1>1 DEF LeaveCase
<1>3. desk' \in DeskState /\ ~ desk'.mounted /\ ~ desk'.loaded /\ desk'.preview = None
  BY DEF LeaveCase, Gone, DeskState
<1>4. DeskStateInv'
  BY <1>2, <1>3 DEF LeaveCase, DeskStateInv
<1>5. ErrandInv'
  BY <1>1 DEF ErrandInv, Errands
<1>6. PreviewInv'
  <2>1. ASSUME NEW q \in Calls, errand'[q].pc = "sent", errand'[q].kind = "confirm",
               ~ errand'[q].excused
        PROVE  template'[errand'[q].status] = errand'[q].text
    BY <1>1, <2>1, NoErrandTyped DEF PreviewInv, LeaveCase
  <2> QED BY <1>1, <1>3, <2>1 DEF PreviewInv, LeaveCase, Errands
<1>7. CaseInv'
  BY <1>3 DEF CaseInv
<1> QED BY <1>4, <1>5, <1>6, <1>7

\* The select, and typing notes: no call is touched.
LEMMA DeskTyped ==
  ASSUME DeskInv,
         (\E s \in CaseStatuses : SelectStatus(s)) \/ (\E n \in Notes : TypeNotes(n))
  PROVE  DeskInv'
<1> USE DeskAssumption DEF DeskInv
<1>0. UNCHANGED <<row, template, errand, doubt, wrongSms>>
  BY DEF SelectStatus, TypeNotes
<1>1. \A kinds \in SUBSET Kinds : Errands(kinds)' = Errands(kinds)
  BY <1>0 DEF Errands
<1>2. CASE \E s \in CaseStatuses : SelectStatus(s)
  <2>1. PICK s \in CaseStatuses : SelectStatus(s)
    BY <1>2
  <2>2. /\ desk' \in DeskState
        /\ desk'.mounted = desk.mounted /\ desk'.loaded = desk.loaded /\ desk'.failed = desk.failed
        /\ desk'.status = desk.status /\ desk'.selected = s /\ desk'.preview = None
        /\ desk'.previewing = desk.previewing /\ desk'.submitting = desk.submitting
        /\ desk'.notes = desk.notes /\ desk'.dirty = desk.dirty /\ desk'.saving = desk.saving
        /\ desk'.excused = desk.previewing
    BY <2>1 DEF SelectStatus, DeskStateInv, DeskState
  <2>3. DeskStateInv'
    BY <1>0, <2>2 DEF DeskStateInv
  <2>4. ErrandInv'
    BY <1>0, <2>2 DEF ErrandInv, Errands
  <2>5. PreviewInv'
    BY <1>0, <2>2 DEF PreviewInv, ErrandInv, Errands
  <2>6. CaseInv'
    BY <1>0, <2>2 DEF CaseInv, Errands, Changed
  <2> QED BY <2>3, <2>4, <2>5, <2>6
<1>3. CASE \E n \in Notes : TypeNotes(n)
  <2>1. PICK n \in Notes : TypeNotes(n)
    BY <1>3
  <2>2. /\ desk' \in DeskState
        /\ desk'.mounted = desk.mounted /\ desk'.loaded = desk.loaded /\ desk'.failed = desk.failed
        /\ desk'.status = desk.status /\ desk'.selected = desk.selected
        /\ desk'.preview = desk.preview
        /\ desk'.previewing = desk.previewing /\ desk'.submitting = desk.submitting
        /\ desk'.notes = n /\ desk'.dirty /\ desk'.saving = desk.saving
        /\ desk'.excused = desk.excused
    BY <2>1 DEF TypeNotes, DeskStateInv, DeskState
  <2>3. DeskStateInv'
    BY <1>0, <2>2 DEF DeskStateInv
  <2>4. ErrandInv'
    BY <1>0, <2>2 DEF ErrandInv, Errands
  <2>5. PreviewInv'
    BY <1>0, <2>2 DEF PreviewInv, Errands
  <2>6. CaseInv'
    BY <1>0, <2>2 DEF CaseInv, Errands, Changed
  <2> QED BY <2>3, <2>4, <2>5, <2>6
<1> QED BY <1>2, <1>3

\* A button: its call is the only one of its kind, and a confirmation carries the
\* preview.
LEMMA DeskClicked ==
  ASSUME DeskInv, NEW q \in Calls, Preview(q) \/ ConfirmStatus(q) \/ SaveNotes(q)
  PROVE  DeskInv'
<1> USE DeskAssumption DEF DeskInv
<1>0. PICK kind \in {"preview", "confirm", "notes"}, text \in Texts \cup Notes \cup {None},
           excused \in BOOLEAN :
        /\ Click(q, kind, text, excused)
        /\ \/ kind = "preview" /\ Preview(q)
           \/ kind = "confirm" /\ ConfirmStatus(q) /\ text = desk.preview /\ text \in Texts
              /\ excused = desk.excused
           \/ kind = "notes" /\ SaveNotes(q) /\ text = desk.notes /\ text \in Notes
  BY DEF Preview, ConfirmStatus, SaveNotes, Working, DeskStateInv, DeskState
<1> DEFINE new == [pc |-> "sent", kind |-> kind, mine |-> TRUE,
                   status |-> desk.selected, text |-> text, excused |-> excused]
<1>1. desk.mounted /\ desk.loaded /\ ~ desk.failed /\ desk.selected \in CaseStatuses
  BY <1>0 DEF Preview, ConfirmStatus, SaveNotes, Working, DeskStateInv
<1>2. /\ new \in ErrandState /\ Sound(new)
      /\ new.pc = "sent" /\ new.kind = kind /\ new.mine /\ new.status = desk.selected
      /\ new.text = text /\ new.excused = excused
  BY <1>0, <1>1 DEF ErrandState, Sound, Kinds
<1>3. errand' = [errand EXCEPT ![q] = new] /\ errand[q].pc = "idle"
  BY <1>0 DEF Click
<1> HIDE DEF new
<1>4. /\ errand' \in [Calls -> ErrandState]
      /\ errand'[q] = new
      /\ \A r \in Calls \ {q} : errand'[r] = errand[r]
  BY <1>2, <1>3, ErrandChanged
<1>5. /\ UNCHANGED <<row, template, wrongSms>>
      /\ ~ errand[q].mine
  BY <1>0, <1>3, NoErrandTyped DEF Click, ErrandInv, Sound
<1>6. /\ desk' \in DeskState
      /\ desk'.mounted = desk.mounted /\ desk'.loaded = desk.loaded /\ desk'.failed = desk.failed
      /\ desk'.status = desk.status /\ desk'.selected = desk.selected
      /\ desk'.preview = desk.preview
      /\ desk'.notes = desk.notes
      /\ IF kind = "preview" THEN desk'.previewing /\ ~ desk.previewing /\ desk.preview = None
         ELSE desk'.previewing = desk.previewing
      /\ IF kind = "confirm" THEN desk'.submitting /\ ~ desk.submitting
         ELSE desk'.submitting = desk.submitting
      /\ IF kind = "notes" THEN desk'.saving /\ ~ desk.saving ELSE desk'.saving = desk.saving
      /\ IF kind = "notes" THEN ~ desk'.dirty ELSE desk'.dirty = desk.dirty
      /\ IF kind = "preview" THEN ~ desk'.excused ELSE desk'.excused = desk.excused
  <2>0. desk \in DeskState
    BY DEF DeskStateInv
  <2>1. CASE kind = "preview"
    BY <1>0, <2>0, <2>1 DEF Preview, DeskState
  <2>2. CASE kind = "confirm"
    BY <1>0, <2>0, <2>2 DEF ConfirmStatus, DeskState
  <2>3. CASE kind = "notes"
    BY <1>0, <2>0, <2>3 DEF SaveNotes, DeskState
  <2> QED BY <2>1, <2>2, <2>3
<1>7. /\ doubt' \in BOOLEAN /\ doubt => doubt'
      /\ kind = "notes" => doubt' = (doubt \/ Errands({"load"}) # {})
      /\ kind # "notes" => doubt' = doubt
  <2>0. doubt \in BOOLEAN
    BY DEF DeskStateInv
  <2>1. CASE kind # "notes"
    <3>1. Preview(q) \/ ConfirmStatus(q)
      BY <1>0, <2>1
    <3>2. doubt' = doubt
      BY <3>1 DEF Preview, ConfirmStatus
    <3> QED BY <2>0, <2>1, <3>2
  <2>2. CASE kind = "notes"
    <3>1. SaveNotes(q)
      BY <1>0, <2>2
    <3>2. doubt' = (doubt \/ Errands({"load"}) # {})
      BY <3>1 DEF SaveNotes
    <3>3. doubt' \in BOOLEAN /\ (doubt => doubt')
      BY <3>2
    <3> QED BY <2>2, <3>2, <3>3
  <2> QED BY <2>1, <2>2
<1>8. DeskStateInv'
  BY <1>1, <1>4, <1>5, <1>6, <1>7 DEF DeskStateInv
<1>9. ErrandInv'
  <2>1. ASSUME NEW r \in Calls
        PROVE  /\ Sound(errand'[r])
               /\ errand'[r].mine =>
                    /\ desk'.mounted
                    /\ errand'[r].kind = "load" \/ desk'.loaded
                    /\ errand'[r].kind = "preview" => desk'.previewing
                    /\ errand'[r].kind = "confirm" => desk'.submitting
                    /\ errand'[r].kind = "notes" => desk'.saving
    <3>1. CASE r = q
      BY <1>1, <1>2, <1>4, <1>6, <3>1
    <3>2. CASE r # q
      BY <1>4, <1>6, <3>2 DEF ErrandInv
    <3> QED BY <3>1, <3>2
  <2>2. ASSUME NEW r \in Calls, errand[r].mine PROVE errand[r].kind # kind
    BY <1>6, <2>2 DEF ErrandInv
  <2>3. \A k \in {"preview", "confirm", "notes"} : \A r, c \in Errands({k})' : r = c
    BY <1>2, <1>4, <1>5, <2>2 DEF ErrandInv, Errands
  <2> QED BY <2>1, <2>3 DEF ErrandInv
<1>10. PreviewInv'
  <2>1. ASSUME NEW r \in Calls, errand'[r].pc = "sent", errand'[r].kind = "confirm",
               ~ errand'[r].excused
        PROVE  template'[errand'[r].status] = errand'[r].text
    <3>1. CASE r = q
      BY <1>0, <1>2, <1>4, <1>5, <2>1, <3>1 DEF PreviewInv
    <3>2. CASE r # q
      BY <1>4, <1>5, <2>1, <3>2 DEF PreviewInv
    <3> QED BY <3>1, <3>2
  <2>2. desk'.preview # None /\ ~ desk'.excused => template'[desk'.selected] = desk'.preview
    BY <1>5, <1>6 DEF PreviewInv
  <2>3. ASSUME NEW r \in Calls, errand'[r].mine, errand'[r].kind = "preview", ~ desk'.excused
        PROVE  /\ errand'[r].status = desk'.selected
               /\ errand'[r].pc = "answered" => errand'[r].text = template'[errand'[r].status]
    <3>1. CASE r = q
      BY <1>2, <1>4, <1>6, <3>1
    <3>2. CASE r # q
      <4>1. errand[r].mine /\ errand[r].kind = "preview" /\ kind # "preview"
        BY <1>4, <1>6, <2>3, <3>2 DEF ErrandInv
      <4> QED BY <1>4, <1>5, <1>6, <2>3, <3>2, <4>1 DEF PreviewInv, Errands
    <3> QED BY <3>1, <3>2
  <2> QED BY <1>5, <2>1, <2>2, <2>3 DEF PreviewInv, Errands
<1>11. CaseInv'
  <2> SUFFICES ASSUME ~ doubt' PROVE CaseInv'
    BY DEF CaseInv
  <2>0. ~ doubt /\ (kind = "notes" => Errands({"load"}) = {})
    BY <1>7
  <2>1. Errands({"load"})' = Errands({"load"})
    BY <1>2, <1>4, <1>5 DEF Errands
  <2>2. Changed' <=> Changed
    BY <1>2, <1>4, <1>5 DEF Changed, Errands
  <2>3. ASSUME NEW r \in Errands({"load"}) PROVE r # q /\ errand'[r] = errand[r]
    BY <1>4, <1>5 DEF Errands
  <2>4. CASE kind # "notes"
    <3>1. \A r \in Errands({"notes"}) : r # q /\ errand'[r] = errand[r]
      BY <1>4, <1>5 DEF Errands
    <3>2. Errands({"notes"})' = Errands({"notes"})
      BY <1>2, <1>4, <1>5, <2>4 DEF Errands
    <3>3. Errands({"load", "notes"})' = Errands({"load", "notes"})
      BY <1>2, <1>4, <1>5, <2>4, <1>0 DEF Errands
    <3> QED BY <1>1, <1>5, <1>6, <2>0, <2>1, <2>2, <2>3, <2>4, <3>1, <3>2, <3>3 DEF CaseInv
  <2>5. CASE kind = "notes"
    <3>1. q \in Errands({"notes"})' /\ q \in Errands({"load", "notes"})'
      BY <1>2, <1>4, <2>5 DEF Errands
    <3>2. \A r \in Errands({"notes"})' : r = q
      BY <1>9, <3>1 DEF ErrandInv
    <3>3. desk'.notes = errand'[q].text /\ errand'[q].pc = "sent"
      BY <1>0, <1>2, <1>4, <1>6, <2>5
    <3> QED BY <1>1, <1>5, <1>6, <2>0, <2>1, <2>2, <2>5, <3>1, <3>2, <3>3 DEF CaseInv
  <2> QED BY <2>4, <2>5
<1> QED BY <1>8, <1>9, <1>10, <1>11

\* A call the server answers without changing the case.
LEMMA DeskRead ==
  ASSUME DeskInv, NEW q \in Calls, ServeCase(q) \/ ServePreview(q)
  PROVE  DeskInv'
<1> USE DeskAssumption DEF DeskInv
<1>0. errand[q] \in ErrandState /\ Sound(errand[q]) /\ errand[q].pc = "sent"
      /\ UNCHANGED <<row, template, desk, doubt, wrongSms>>
  BY DEF DeskStateInv, ErrandInv, ServeCase, ServePreview
<1>1. PICK new \in ErrandState :
        /\ errand' = [errand EXCEPT ![q] = new]
        /\ Sound(new) /\ new.pc = "answered"
        /\ new.mine /\ errand[q].mine /\ new.kind = errand[q].kind
        /\ new.kind \in {"load", "preview"}
        /\ new.kind = "load" => new.status = row.status /\ new.text = row.notes
        /\ new.kind = "preview" => new.status = errand[q].status /\ new.text = template[new.status]
  <2>1. CASE ServeCase(q)
    <3> DEFINE new == [errand[q] EXCEPT !.pc = "answered", !.status = row.status,
                                        !.text = row.notes]
    <3>1. row.status \in CaseStatuses /\ row.notes \in Notes
      BY DEF DeskStateInv
    <3>2. errand[q].mine /\ errand[q].kind = "load"
      BY <1>0, <2>1, NoErrandTyped DEF ServeCase, Sound
    <3>3. /\ new \in ErrandState /\ new.pc = "answered" /\ new.mine /\ new.kind = "load"
          /\ new.status = row.status /\ new.text = row.notes
      BY <1>0, <3>1, <3>2 DEF ErrandState, Kinds
    <3>4. errand' = [errand EXCEPT ![q] = new]
      BY <2>1 DEF ServeCase
    <3> QED BY <3>1, <3>2, <3>3, <3>4 DEF Sound, Kinds
  <2>2. CASE ServePreview(q)
    <3> DEFINE new == [errand[q] EXCEPT !.pc = "answered", !.text = template[errand[q].status]]
    <3>1. errand[q].mine /\ errand[q].kind = "preview" /\ errand[q].status \in CaseStatuses
      BY <1>0, <2>2, NoErrandTyped DEF ServePreview, Sound
    <3>2. template[errand[q].status] \in Texts
      BY <3>1 DEF DeskStateInv
    <3>3. /\ new \in ErrandState /\ new.pc = "answered" /\ new.mine /\ new.kind = "preview"
          /\ new.status = errand[q].status /\ new.text = template[errand[q].status]
      BY <1>0, <3>1, <3>2 DEF ErrandState, Kinds
    <3>4. errand' = [errand EXCEPT ![q] = new]
      BY <2>2 DEF ServePreview, Answered
    <3> QED BY <3>1, <3>2, <3>3, <3>4 DEF Sound, Kinds
  <2> QED BY <2>1, <2>2
<1>2. /\ errand' \in [Calls -> ErrandState]
      /\ errand'[q] = new
      /\ \A r \in Calls \ {q} : errand'[r] = errand[r]
  BY <1>1, ErrandChanged
<1>3. \A kinds \in SUBSET Kinds : Errands(kinds)' = Errands(kinds)
  BY <1>1, <1>2 DEF Errands
<1>4. DeskStateInv'
  BY <1>0, <1>2 DEF DeskStateInv
<1>5. ErrandInv'
  <2>1. ASSUME NEW r \in Calls
        PROVE  /\ Sound(errand'[r])
               /\ errand'[r].mine = errand[r].mine /\ errand'[r].kind = errand[r].kind
    BY <1>1, <1>2 DEF ErrandInv
  <2>2. \A k \in {"preview", "confirm", "notes"} : \A r, c \in Errands({k})' : r = c
    BY <1>3 DEF ErrandInv, Kinds
  <2> QED BY <1>0, <2>1, <2>2 DEF ErrandInv
<1>6. PreviewInv'
  <2>1. ASSUME NEW r \in Calls, errand'[r].pc = "sent" PROVE errand'[r] = errand[r]
    BY <1>1, <1>2, <2>1
  <2>2. ASSUME NEW r \in Errands({"preview"})', ~ desk.excused
        PROVE  /\ errand'[r].status = desk.selected
               /\ errand'[r].pc = "answered" => errand'[r].text = template[errand'[r].status]
    <3>1. r \in Errands({"preview"})
      BY <1>3, <2>2 DEF Kinds
    <3> QED BY <1>1, <1>2, <2>2, <3>1 DEF PreviewInv, Errands
  <2> QED BY <1>0, <2>1, <2>2 DEF PreviewInv
<1>7. CaseInv'
  <2>1. Changed' <=> Changed
    BY <1>1, <1>2, <1>3 DEF Changed, Errands
  <2>2. /\ Errands({"load"})' = Errands({"load"}) /\ Errands({"notes"})' = Errands({"notes"})
        /\ Errands({"load", "notes"})' = Errands({"load", "notes"})
    BY <1>3 DEF Kinds
  <2>3. ASSUME NEW r \in Errands({"notes"}) PROVE errand'[r] = errand[r]
    BY <1>1, <1>2, <2>3 DEF Errands
  <2>4. ASSUME NEW r \in Errands({"load"})
        PROVE  \/ errand'[r] = errand[r]
               \/ errand'[r].status = row.status /\ errand'[r].text = row.notes
    BY <1>1, <1>2, <2>4 DEF Errands
  <2> QED BY <1>0, <2>1, <2>2, <2>3, <2>4 DEF CaseInv
<1> QED BY <1>4, <1>5, <1>6, <1>7

\* A change that reaches the server: of the status, with its SMS, or of the notes.
LEMMA DeskWritten ==
  ASSUME DeskInv, NEW q \in Calls, ServeStatus(q) \/ ServeNotes(q)
  PROVE  DeskInv'
<1> USE DeskAssumption DEF DeskInv
<1>0. /\ errand[q] \in ErrandState /\ Sound(errand[q]) /\ errand[q].pc = "sent"
      /\ UNCHANGED <<template, desk>>
      /\ errand[q].kind \in {"confirm", "notes"}
      /\ errand[q].kind = "confirm" => ServeStatus(q)
      /\ errand[q].kind = "notes" => ServeNotes(q)
  BY DEF DeskStateInv, ErrandInv, ServeStatus, ServeNotes
<1>1. PICK new \in ErrandState :
        /\ errand' = [errand EXCEPT ![q] = new]
        /\ Sound(new)
        /\ IF errand[q].mine
           THEN new.mine /\ new.pc = "answered" /\ new.kind = errand[q].kind /\ doubt' = doubt
           ELSE new = NoErrand /\ doubt' = TRUE
  <2>1. CASE errand[q].mine
    <3> DEFINE new == [errand[q] EXCEPT !.pc = "answered", !.text = None]
    <3>1. errand' = [errand EXCEPT ![q] = new] /\ doubt' = doubt
      BY <1>0, <2>1 DEF ServeStatus, ServeNotes, Answered
    <3>2. /\ new \in ErrandState /\ new.mine /\ new.pc = "answered" /\ new.kind = errand[q].kind
          /\ new.status = errand[q].status
      BY <1>0, <2>1 DEF ErrandState
    <3>3. Sound(new)
      BY <1>0, <3>2, NoErrandTyped DEF Sound, Kinds
    <3> QED BY <2>1, <3>1, <3>2, <3>3
  <2>2. CASE ~ errand[q].mine
    BY <1>0, <2>2, NoErrandTyped DEF ServeStatus, ServeNotes, Forgotten
  <2> QED BY <2>1, <2>2
<1>2. /\ errand' \in [Calls -> ErrandState]
      /\ errand'[q] = new
      /\ \A r \in Calls \ {q} : errand'[r] = errand[r]
  BY <1>1, ErrandChanged
<1>3. \A kinds \in SUBSET Kinds : Errands(kinds)' = Errands(kinds)
  BY <1>1, <1>2, NoErrandTyped DEF Errands
<1>4. /\ row' \in [status : CaseStatuses, notes : Notes]
      /\ errand[q].kind = "confirm" => row'.status = errand[q].status /\ row'.notes = row.notes
      /\ errand[q].kind = "notes" => row'.notes = errand[q].text /\ row'.status = row.status
  <2>1. row \in [status : CaseStatuses, notes : Notes]
    BY DEF DeskStateInv
  <2>2. CASE errand[q].kind = "confirm"
    BY <1>0, <2>1, <2>2, NoErrandTyped DEF ServeStatus, Sound
  <2>3. CASE errand[q].kind = "notes"
    BY <1>0, <2>1, <2>3, NoErrandTyped DEF ServeNotes, Sound
  <2> QED BY <1>0, <2>2, <2>3
<1>5. DeskStateInv'
  <2>1. doubt' \in BOOLEAN
    BY <1>1 DEF DeskStateInv
  <2>2. wrongSms' \in BOOLEAN
    <3>1. CASE errand[q].kind = "confirm"
      BY <1>0, <3>1 DEF ServeStatus, DeskStateInv
    <3>2. CASE errand[q].kind = "notes"
      BY <1>0, <3>2 DEF ServeNotes, DeskStateInv
    <3> QED BY <1>0, <3>1, <3>2
  <2> QED BY <1>0, <1>2, <1>4, <2>1, <2>2 DEF DeskStateInv
<1>6. ErrandInv'
  <2>1. ASSUME NEW r \in Calls
        PROVE  /\ Sound(errand'[r])
               /\ errand'[r].mine => errand[r].mine /\ errand'[r].kind = errand[r].kind
    BY <1>1, <1>2, NoErrandTyped DEF ErrandInv
  <2>2. \A k \in {"preview", "confirm", "notes"} : \A r, c \in Errands({k})' : r = c
    BY <1>3 DEF ErrandInv, Kinds
  <2> QED BY <1>0, <2>1, <2>2 DEF ErrandInv
<1>7. PreviewInv'
  <2>0. ~ wrongSms'
    <3>1. CASE errand[q].kind = "confirm"
      BY <1>0, <3>1 DEF ServeStatus, PreviewInv
    <3>2. CASE errand[q].kind = "notes"
      BY <1>0, <3>2 DEF ServeNotes, PreviewInv
    <3> QED BY <1>0, <3>1, <3>2
  <2>1. ASSUME NEW r \in Calls, errand'[r].pc = "sent" PROVE errand'[r] = errand[r]
    BY <1>1, <1>2, <2>1, NoErrandTyped
  <2>2. ASSUME NEW r \in Errands({"preview"})'
        PROVE  r \in Errands({"preview"}) /\ errand'[r] = errand[r]
    <3>1. r \in Errands({"preview"})
      BY <1>3, <2>2 DEF Kinds
    <3>2. r # q
      BY <1>0, <3>1 DEF Errands
    <3> QED BY <1>2, <3>1, <3>2 DEF Errands
  <2> QED BY <1>0, <2>0, <2>1, <2>2 DEF PreviewInv
<1>8. CaseInv'
  <2> SUFFICES ASSUME ~ doubt' PROVE CaseInv'
    BY DEF CaseInv
  <2>0. errand[q].mine /\ ~ doubt /\ new.mine /\ new.pc = "answered" /\ new.kind = errand[q].kind
    BY <1>1
  <2>2. /\ Errands({"load"})' = Errands({"load"}) /\ Errands({"notes"})' = Errands({"notes"})
        /\ Errands({"load", "notes"})' = Errands({"load", "notes"})
        /\ Errands({"confirm"})' = Errands({"confirm"})
    BY <1>3 DEF Kinds
  <2>3. ASSUME NEW r \in Errands({"load"}) PROVE errand'[r] = errand[r] /\ r # q
    BY <1>0, <1>2, <2>3 DEF Errands
  <2>4. CASE errand[q].kind = "confirm"
    <3>1. Changed'
      BY <1>2, <2>0, <2>4 DEF Changed, Errands
    <3>2. ASSUME NEW r \in Errands({"notes"}) PROVE errand'[r] = errand[r]
      BY <1>2, <2>4, <3>2 DEF Errands
    <3> QED BY <1>0, <1>4, <2>0, <2>2, <2>3, <2>4, <3>1, <3>2 DEF CaseInv
  <2>5. CASE errand[q].kind = "notes"
    <3>1. Changed' <=> Changed
      BY <1>2, <2>0, <2>2, <2>5 DEF Changed, Errands
    <3>2. q \in Errands({"notes"}) /\ q \in Errands({"load", "notes"})
      BY <2>0, <2>5 DEF Errands
    <3>3. \A r \in Errands({"notes"}) : r = q
      BY <3>2 DEF ErrandInv
    <3> QED BY <1>0, <1>2, <1>4, <2>0, <2>2, <2>3, <2>5, <3>1, <3>2, <3>3 DEF CaseInv
  <2> QED BY <1>0, <2>4, <2>5
<1> QED BY <1>5, <1>6, <1>7, <1>8

\* Other staff: the case is in doubt, and what was previewed is excused.
LEMMA DeskElsewhere ==
  ASSUME DeskInv,
         \/ \E s \in CaseStatuses, n \in Notes : CaseElsewhere([status |-> s, notes |-> n])
         \/ \E s \in CaseStatuses, t \in Texts : UpdateTemplate(s, t)
  PROVE  DeskInv'
<1> USE DeskAssumption DEF DeskInv
<1>1. ASSUME NEW r \in [status : CaseStatuses, notes : Notes], CaseElsewhere(r) PROVE DeskInv'
  BY <1>1 DEF CaseElsewhere, DeskStateInv, ErrandInv, Errands, PreviewInv, CaseInv
<1>2. ASSUME NEW s \in CaseStatuses, NEW t \in Texts, UpdateTemplate(s, t) PROVE DeskInv'
  <2>1. /\ UNCHANGED <<row, doubt, wrongSms>>
        /\ template' \in [CaseStatuses -> Texts]
    BY <1>2 DEF UpdateTemplate, DeskStateInv
  <2>2. /\ desk' \in DeskState
        /\ desk'.mounted = desk.mounted /\ desk'.loaded = desk.loaded /\ desk'.failed = desk.failed
        /\ desk'.status = desk.status /\ desk'.selected = desk.selected
        /\ desk'.preview = desk.preview
        /\ desk'.previewing = desk.previewing /\ desk'.submitting = desk.submitting
        /\ desk'.notes = desk.notes /\ desk'.dirty = desk.dirty /\ desk'.saving = desk.saving
        /\ desk'.excused <=> desk.excused \/ desk.preview # None \/ desk.previewing
    BY <1>2 DEF UpdateTemplate, DeskStateInv, DeskState
  <2>3. ASSUME NEW q \in Calls
        PROVE  /\ errand'[q] \in ErrandState /\ Sound(errand'[q])
               /\ errand'[q].pc = errand[q].pc /\ errand'[q].kind = errand[q].kind
               /\ errand'[q].mine = errand[q].mine /\ errand'[q].status = errand[q].status
               /\ errand'[q].text = errand[q].text
               /\ errand'[q].kind = "confirm" => errand'[q].excused
    <3>1. errand[q] \in ErrandState /\ Sound(errand[q])
      BY DEF DeskStateInv, ErrandInv
    <3>2. CASE errand[q].kind = "confirm"
      <4>1. errand'[q] = [errand[q] EXCEPT !.excused = TRUE]
        BY <1>2, <3>2 DEF UpdateTemplate
      <4>2. /\ errand'[q] \in ErrandState
            /\ errand'[q].pc = errand[q].pc /\ errand'[q].kind = errand[q].kind
            /\ errand'[q].mine = errand[q].mine /\ errand'[q].status = errand[q].status
            /\ errand'[q].text = errand[q].text
            /\ errand'[q].excused
        BY <3>1, <4>1 DEF ErrandState
      <4> QED BY <3>1, <3>2, <4>2 DEF Sound, NoErrand
    <3>3. CASE errand[q].kind # "confirm"
      BY <1>2, <3>1, <3>3 DEF UpdateTemplate
    <3> QED BY <3>2, <3>3
  <2>4. errand' \in [Calls -> ErrandState]
    BY <1>2, <2>3 DEF UpdateTemplate
  <2>5. \A kinds \in SUBSET Kinds : Errands(kinds)' = Errands(kinds)
    BY <2>3 DEF Errands
  <2>6. DeskStateInv'
    BY <2>1, <2>2, <2>4 DEF DeskStateInv
  <2>7. ErrandInv'
    <3>1. \A k \in {"preview", "confirm", "notes"} : \A r, c \in Errands({k})' : r = c
      BY <2>5 DEF ErrandInv, Kinds
    <3> QED BY <2>2, <2>3, <3>1 DEF ErrandInv
  <2>8. PreviewInv'
    BY <2>1, <2>2, <2>3 DEF PreviewInv, Errands, ErrandInv
  <2>9. CaseInv'
    <3>1. /\ Errands({"load"})' = Errands({"load"}) /\ Errands({"notes"})' = Errands({"notes"})
          /\ Errands({"load", "notes"})' = Errands({"load", "notes"})
          /\ Errands({"confirm"})' = Errands({"confirm"})
      BY <2>5 DEF Kinds
    <3>2. Changed' <=> Changed
      BY <2>3 DEF Changed, Errands
    <3>3. ASSUME NEW q \in Errands({"load"}) \cup Errands({"notes"})
          PROVE  /\ errand'[q].pc = errand[q].pc /\ errand'[q].status = errand[q].status
                 /\ errand'[q].text = errand[q].text
      BY <2>3 DEF Errands
    <3> QED BY <2>1, <2>2, <3>1, <3>2, <3>3 DEF CaseInv
  <2> QED BY <2>6, <2>7, <2>8, <2>9
<1> QED BY <1>1, <1>2

\* Answers that bring something to the page: the case, a preview, that the notes
\* are saved.
LEMMA DeskAnswered ==
  ASSUME DeskInv, NEW q \in Calls, AnswerCase(q) \/ AnswerPreview(q) \/ AnswerNotes(q)
  PROVE  DeskInv'
<1> USE DeskAssumption DEF DeskInv
<1>0. /\ UNCHANGED <<row, template, doubt, wrongSms>>
      /\ errand[q].mine /\ errand[q].pc = "answered" /\ Sound(errand[q])
      /\ errand[q] # NoErrand
      /\ errand' = [errand EXCEPT ![q] = NoErrand]
  BY NoErrandTyped DEF AnswerCase, AnswerPreview, AnswerNotes, Forgotten, ErrandInv, Sound
<1>1. /\ errand' \in [Calls -> ErrandState]
      /\ errand'[q] = NoErrand
      /\ \A r \in Calls \ {q} : errand'[r] = errand[r]
  BY <1>0, NoErrandTyped, ErrandChanged
<1>2. \A kinds \in SUBSET Kinds : Errands(kinds)' = Errands(kinds) \ {q}
  BY <1>1, NoErrandTyped DEF Errands
<1>3. \A r \in Calls : errand'[r].mine => r # q /\ errand'[r] = errand[r] /\ errand[r].mine
  BY <1>1, NoErrandTyped
<1>4. PICK kind \in {"load", "preview", "notes"} :
        /\ errand[q].kind = kind
        /\ kind = "load" => AnswerCase(q)
        /\ kind = "preview" => AnswerPreview(q)
        /\ kind = "notes" => AnswerNotes(q)
  BY DEF AnswerCase, AnswerPreview, AnswerNotes
<1>5. /\ desk' \in DeskState
      /\ desk'.mounted = desk.mounted /\ desk'.failed = desk.failed
      /\ desk'.loaded /\ desk.mounted
      /\ desk'.submitting = desk.submitting
      /\ IF kind = "load"
         THEN /\ desk'.status = errand[q].status /\ desk'.selected = errand[q].status
              /\ desk'.notes = errand[q].text /\ ~ desk'.dirty
              /\ desk'.excused <=> desk.excused \/ desk.preview # None \/ desk.previewing
              /\ errand[q].status \in CaseStatuses /\ errand[q].text \in Notes
         ELSE /\ desk'.status = desk.status /\ desk'.selected = desk.selected
              /\ desk'.notes = desk.notes /\ desk'.dirty = desk.dirty
              /\ desk'.excused = desk.excused
              /\ desk.loaded
      /\ IF kind = "preview"
         THEN desk'.preview = errand[q].text /\ ~ desk'.previewing
         ELSE desk'.preview = desk.preview /\ desk'.previewing = desk.previewing
      /\ IF kind = "notes" THEN ~ desk'.saving ELSE desk'.saving = desk.saving
  <2>1. desk \in DeskState /\ desk.mounted /\ (kind = "load" \/ desk.loaded)
    BY <1>0, <1>4 DEF DeskStateInv, ErrandInv
  <2>2. CASE kind = "load"
    <3>1. errand[q].status \in CaseStatuses /\ errand[q].text \in Notes
      BY <1>0, <1>4, <2>2 DEF Sound
    <3>2. desk' = [desk EXCEPT !.loaded = TRUE, !.status = errand[q].status,
            !.selected = errand[q].status, !.notes = errand[q].text, !.dirty = FALSE,
            !.excused = desk.excused \/ desk.preview # None \/ desk.previewing]
      BY <1>4, <2>2 DEF AnswerCase
    <3>3. /\ desk' \in DeskState
          /\ desk'.mounted = desk.mounted /\ desk'.failed = desk.failed
          /\ desk'.loaded
          /\ desk'.submitting = desk.submitting
          /\ desk'.status = errand[q].status /\ desk'.selected = errand[q].status
          /\ desk'.notes = errand[q].text /\ ~ desk'.dirty
          /\ desk'.excused <=> desk.excused \/ desk.preview # None \/ desk.previewing
          /\ desk'.preview = desk.preview /\ desk'.previewing = desk.previewing
          /\ desk'.saving = desk.saving
      BY <2>1, <3>1, <3>2 DEF DeskState
    <3> QED BY <2>1, <2>2, <3>1, <3>3
  <2>3. CASE kind = "preview"
    <3>1. errand[q].text \in Texts
      BY <1>0, <1>4, <2>3 DEF Sound
    <3>2. desk' = [desk EXCEPT !.preview = errand[q].text, !.previewing = FALSE]
      BY <1>4, <2>3 DEF AnswerPreview
    <3> QED BY <2>1, <2>3, <3>1, <3>2 DEF DeskState
  <2>4. CASE kind = "notes"
    <3>1. desk' = [desk EXCEPT !.saving = FALSE]
      BY <1>4, <2>4 DEF AnswerNotes
    <3> QED BY <2>1, <2>4, <3>1 DEF DeskState
  <2> QED BY <2>2, <2>3, <2>4
<1>6. DeskStateInv'
  BY <1>0, <1>1, <1>5 DEF DeskStateInv
<1>7. ErrandInv'
  <2>1. ASSUME NEW r \in Calls PROVE Sound(errand'[r])
    BY <1>1, NoErrandTyped DEF ErrandInv
  <2>2. \A k \in {"preview", "confirm", "notes"} : \A r, c \in Errands({k})' : r = c
    BY <1>2 DEF ErrandInv, Kinds
  <2>3. ASSUME NEW r \in Calls, errand'[r].mine
        PROVE  /\ errand'[r].kind = "preview" => kind # "preview"
               /\ errand'[r].kind = "notes" => kind # "notes"
    BY <1>0, <1>3, <1>4, <2>3 DEF ErrandInv, Errands
  <2> QED BY <1>3, <1>5, <2>1, <2>2, <2>3 DEF ErrandInv
<1>8. PreviewInv'
  <2>1. ASSUME NEW r \in Calls, errand'[r].pc = "sent" PROVE errand'[r] = errand[r]
    BY <1>1, <2>1, NoErrandTyped
  <2>2. ASSUME NEW r \in Errands({"preview"})', ~ desk'.excused
        PROVE  /\ r \in Errands({"preview"}) /\ errand'[r] = errand[r]
               /\ ~ desk.excused /\ kind # "load"
    <3>1. r \in Errands({"preview"}) /\ errand'[r] = errand[r]
      BY <1>3, <2>2 DEF Errands
    <3>2. desk.previewing
      BY <3>1 DEF ErrandInv, Errands
    <3> QED BY <1>5, <2>2, <3>1, <3>2
  <2>3. desk'.preview # None /\ ~ desk'.excused => template[desk'.selected] = desk'.preview
    <3>1. CASE kind = "preview"
      <4>1. q \in Errands({"preview"})
        BY <1>0, <1>4, <3>1 DEF Errands
      <4> QED BY <1>0, <1>5, <3>1, <4>1 DEF PreviewInv
    <3>2. CASE kind # "preview"
      BY <1>5, <3>2 DEF PreviewInv
    <3> QED BY <3>1, <3>2
  <2> QED BY <1>0, <1>5, <2>1, <2>2, <2>3 DEF PreviewInv
<1>9. CaseInv'
  <2> SUFFICES ASSUME desk.mounted, ~ desk.failed, ~ doubt PROVE CaseInv'
    BY <1>0, <1>5 DEF CaseInv
  <2>1. Changed' <=> Changed
    BY <1>0, <1>3, <1>1, <1>4 DEF Changed, Errands
  <2>2. /\ Errands({"load"})' = Errands({"load"}) \ {q}
        /\ Errands({"notes"})' = Errands({"notes"}) \ {q}
        /\ Errands({"load", "notes"})' = Errands({"load", "notes"}) \ {q}
    BY <1>2 DEF Kinds
  <2>3. ASSUME NEW r \in Errands({"load", "notes"})' PROVE errand'[r] = errand[r]
    BY <1>3, <2>3 DEF Errands
  <2>4. CASE kind = "load"
    <3>1. q \in Errands({"load"})
      BY <1>0, <1>4, <2>4 DEF Errands
    <3>2. /\ \A r \in Errands({"load"}) : r = q
          /\ Errands({"notes"}) = {}
          /\ errand[q].text = row.notes
          /\ errand[q].status = row.status \/ Changed
      BY <1>0, <3>1 DEF CaseInv
    <3> QED BY <1>0, <1>5, <2>1, <2>2, <2>4, <3>2 DEF CaseInv
  <2>5. CASE kind = "preview"
    <3>1. q \notin Errands({"load", "notes"}) /\ q \notin Errands({"load"}) /\ q \notin Errands({"notes"})
      BY <1>4, <2>5 DEF Errands
    <3>2. ASSUME NEW r \in Errands({"load"}) \cup Errands({"notes"}) PROVE errand'[r] = errand[r]
      BY <1>1, <1>4, <2>5, <3>2 DEF Errands
    <3> QED BY <1>0, <1>5, <2>1, <2>2, <2>5, <3>1, <3>2 DEF CaseInv
  <2>6. CASE kind = "notes"
    <3>1. q \in Errands({"notes"}) /\ q \in Errands({"load", "notes"}) /\ q \notin Errands({"load"})
      BY <1>0, <1>4, <2>6 DEF Errands
    <3>2. \A r \in Errands({"notes"}) : r = q
      BY <3>1 DEF ErrandInv
    <3>3. Errands({"load"}) = {} /\ (desk.dirty \/ desk.notes = row.notes)
      BY <1>0, <3>1 DEF CaseInv
    <3> QED BY <1>0, <1>5, <2>1, <2>2, <2>6, <3>1, <3>2, <3>3 DEF CaseInv
  <2> QED BY <2>4, <2>5, <2>6
<1> QED BY <1>6, <1>7, <1>8, <1>9

\* The answer of a confirmed change: the call becomes the load that shows it.
LEMMA DeskReloads ==
  ASSUME DeskInv, NEW q \in Calls, AnswerStatus(q)
  PROVE  DeskInv'
<1> USE DeskAssumption DEF DeskInv
<1>0. /\ UNCHANGED <<row, template, wrongSms>>
      /\ errand[q].mine /\ errand[q].pc = "answered" /\ errand[q].kind = "confirm"
      /\ desk \in DeskState /\ desk.mounted /\ desk.loaded
  BY NoErrandTyped DEF AnswerStatus, ErrandInv, Sound, DeskStateInv
<1> DEFINE load == [NoErrand EXCEPT !.pc = "sent", !.kind = "load", !.mine = TRUE]
           d == [desk EXCEPT !.preview = None, !.submitting = FALSE]
           others == Errands({"load", "notes", "preview", "confirm"}) \ {q}
           crossed == Errands({"load", "notes"}) \ {q}
<1>1. load \in ErrandState /\ Sound(load) /\ load.mine /\ load.kind = "load" /\ load.pc = "sent"
  BY DEF NoErrand, ErrandState, Sound, Kinds
<1>2. PICK new \in {load, NoErrand} :
        /\ errand' = [errand EXCEPT ![q] = new]
        /\ \/ /\ new = load /\ desk' = d
              /\ doubt' = IF others = {} THEN FALSE ELSE doubt \/ crossed # {}
           \/ new = NoErrand /\ desk' = [d EXCEPT !.failed = TRUE] /\ doubt' = doubt
  BY DEF AnswerStatus, LoadCase
<1> HIDE DEF load
<1>3. /\ new \in ErrandState /\ Sound(new)
      /\ new.mine => new = load
  BY <1>1, <1>2, NoErrandTyped
<1>4. /\ errand' \in [Calls -> ErrandState]
      /\ errand'[q] = new
      /\ \A r \in Calls \ {q} : errand'[r] = errand[r]
  BY <1>2, <1>3, ErrandChanged
<1>5. /\ desk' \in DeskState
      /\ desk'.mounted = desk.mounted /\ desk'.loaded = desk.loaded
      /\ desk'.status = desk.status /\ desk'.selected = desk.selected
      /\ desk'.preview = None /\ desk'.previewing = desk.previewing
      /\ desk'.notes = desk.notes /\ desk'.dirty = desk.dirty /\ desk'.saving = desk.saving
      /\ desk'.excused = desk.excused
      /\ ~ desk'.failed => new = load /\ ~ desk.failed
  <2>1. CASE desk' = d /\ new = load
    BY <1>0, <2>1 DEF DeskState
  <2>2. CASE desk' = [d EXCEPT !.failed = TRUE]
    BY <1>0, <2>2 DEF DeskState
  <2> QED BY <1>2, <2>1, <2>2
<1>6. /\ doubt' \in BOOLEAN
      /\ new = load /\ ~ doubt' => others = {} \/ (~ doubt /\ crossed = {})
  <2>1. doubt \in BOOLEAN
    BY DEF DeskStateInv
  <2>2. CASE new = load /\ doubt' = IF others = {} THEN FALSE ELSE doubt \/ crossed # {}
    <3>1. CASE others = {}
      BY <2>2, <3>1
    <3>2. CASE others # {}
      BY <2>1, <2>2, <3>2
    <3> QED BY <3>1, <3>2
  <2>3. CASE new = NoErrand /\ doubt' = doubt
    BY <1>1, <2>1, <2>3, NoErrandTyped
  <2> QED BY <1>2, <2>2, <2>3
<1>7. ASSUME NEW r \in Calls, errand'[r].mine, r # q
      PROVE  /\ errand'[r] = errand[r] /\ errand[r].kind # "confirm" /\ errand[r].kind \in Kinds
             /\ r \in others
  <2>1. errand'[r] = errand[r]
    BY <1>4, <1>7
  <2>2. errand[r].kind \in Kinds
    BY <1>7, <2>1, NoErrandTyped DEF ErrandInv, Sound
  <2>3. errand[r].kind # "confirm"
    BY <1>0, <1>7, <2>1 DEF ErrandInv, Errands
  <2>4. r \in others
    BY <1>7, <2>1, <2>2 DEF Errands, Kinds
  <2> QED BY <2>1, <2>2, <2>3, <2>4
<1>8. DeskStateInv'
  BY <1>0, <1>4, <1>5, <1>6 DEF DeskStateInv
<1>9. ErrandInv'
  <2>1. ASSUME NEW r \in Calls
        PROVE  /\ Sound(errand'[r])
               /\ errand'[r].mine =>
                    /\ desk'.mounted
                    /\ errand'[r].kind = "load" \/ desk'.loaded
                    /\ errand'[r].kind = "preview" => desk'.previewing
                    /\ errand'[r].kind = "confirm" => desk'.submitting
                    /\ errand'[r].kind = "notes" => desk'.saving
    <3>1. CASE r = q
      BY <1>0, <1>1, <1>3, <1>4, <1>5, <3>1
    <3>2. CASE r # q
      BY <1>4, <1>5, <1>7, <3>2 DEF ErrandInv
    <3> QED BY <3>1, <3>2
  <2>2. ASSUME NEW k \in {"preview", "confirm", "notes"}, NEW r \in Errands({k})', NEW c \in Errands({k})'
        PROVE  r = c
    <3>1. r # q /\ c # q
      BY <1>1, <1>3, <1>4, <2>2 DEF Errands
    <3>2. r \in Errands({k}) /\ c \in Errands({k})
      BY <1>4, <2>2, <3>1 DEF Errands
    <3> QED BY <3>2 DEF ErrandInv
  <2> QED BY <2>1, <2>2 DEF ErrandInv
<1>10. PreviewInv'
  <2>1. ASSUME NEW r \in Calls, errand'[r].pc = "sent", errand'[r].kind = "confirm"
        PROVE  errand'[r] = errand[r]
    BY <1>1, <1>2, <1>4, <2>1, NoErrandTyped
  <2>2. ASSUME NEW r \in Errands({"preview"})'
        PROVE  r \in Errands({"preview"}) /\ errand'[r] = errand[r]
    <3>1. r # q
      BY <1>1, <1>3, <1>4, <2>2 DEF Errands
    <3> QED BY <1>4, <2>2, <3>1 DEF Errands
  <2> QED BY <1>0, <1>5, <2>1, <2>2 DEF PreviewInv
<1>11. CaseInv'
  <2> SUFFICES ASSUME ~ desk'.failed, ~ doubt' PROVE CaseInv'
    BY DEF CaseInv
  <2>1. new = load /\ ~ desk.failed
    BY <1>5
  <2>2. q \in Errands({"load"})' /\ q \in Errands({"load", "notes"})'
    BY <1>1, <1>4, <2>1 DEF Errands
  <2>3. crossed = {}
    <3>1. crossed \subseteq others
      BY DEF Errands
    <3> QED BY <1>6, <2>1, <3>1
  <2>4. \A r \in Errands({"load"})' : r = q
    BY <1>4, <2>3 DEF Errands
  <2>5. Errands({"notes"})' = {}
    BY <1>1, <1>4, <2>1, <2>3 DEF Errands
  <2>6. errand'[q].pc = "sent"
    BY <1>1, <1>4, <2>1
  <2> QED BY <2>2, <2>4, <2>5, <2>6 DEF CaseInv
<1> QED BY <1>8, <1>9, <1>10, <1>11

\* A call that fails for the page: the case is in doubt, its button is free.
LEMMA DeskFails ==
  ASSUME DeskInv, NEW q \in Calls, ErrandFails(q)
  PROVE  DeskInv'
<1> USE DeskAssumption DEF DeskInv
<1>0. /\ UNCHANGED <<row, template, wrongSms>>
      /\ doubt' = TRUE
      /\ errand[q].mine /\ errand[q].kind \in Kinds
      /\ errand[q] \in ErrandState /\ Sound(errand[q])
      /\ desk \in DeskState
  BY NoErrandTyped DEF ErrandFails, ErrandInv, Sound, DeskStateInv
<1>1. PICK new \in ErrandState :
        /\ errand' = [errand EXCEPT ![q] = new]
        /\ ~ new.mine /\ Sound(new)
        /\ \/ new = NoErrand
           \/ /\ new.pc = errand[q].pc /\ new.kind = errand[q].kind
              /\ new.status = errand[q].status /\ new.text = errand[q].text
              /\ new.excused = errand[q].excused
  <2>1. CASE errand' = [errand EXCEPT ![q] = NoErrand]
    BY <2>1, NoErrandTyped
  <2>2. CASE q \in Unread /\ errand' = [errand EXCEPT ![q].mine = FALSE]
    <3> DEFINE new == [errand[q] EXCEPT !.mine = FALSE]
    <3>1. errand' = [errand EXCEPT ![q] = new]
      BY <2>2
    <3>2. /\ new \in ErrandState /\ ~ new.mine
          /\ new.pc = errand[q].pc /\ new.kind = errand[q].kind
          /\ new.status = errand[q].status /\ new.text = errand[q].text
          /\ new.excused = errand[q].excused
      BY <1>0 DEF ErrandState
    <3>3. Sound(new)
      BY <1>0, <2>2, <3>2, NoErrandTyped DEF Sound, Unread, Kinds
    <3> QED BY <3>1, <3>2, <3>3
  <2> QED BY <2>1, <2>2 DEF ErrandFails, Forgotten
<1>2. /\ errand' \in [Calls -> ErrandState]
      /\ errand'[q] = new
      /\ \A r \in Calls \ {q} : errand'[r] = errand[r]
  BY <1>1, ErrandChanged
<1>3. ASSUME NEW r \in Calls, errand'[r].mine
      PROVE  r # q /\ errand'[r] = errand[r] /\ errand[r].mine
  BY <1>1, <1>2, <1>3
<1>4. /\ desk' \in DeskState
      /\ desk'.mounted = desk.mounted /\ desk'.loaded = desk.loaded
      /\ desk'.status = desk.status /\ desk'.selected = desk.selected
      /\ desk'.preview = desk.preview /\ desk'.notes = desk.notes /\ desk'.dirty = desk.dirty
      /\ desk'.excused = desk.excused
      /\ errand[q].kind # "preview" => desk'.previewing = desk.previewing
      /\ errand[q].kind # "confirm" => desk'.submitting = desk.submitting
      /\ errand[q].kind # "notes" => desk'.saving = desk.saving
  <2>1. CASE errand[q].kind = "load"
    <3>1. desk' = [desk EXCEPT !.failed = TRUE]
      BY <2>1 DEF ErrandFails
    <3> QED BY <1>0, <2>1, <3>1 DEF DeskState
  <2>2. CASE errand[q].kind = "preview"
    <3>1. desk' = [desk EXCEPT !.previewing = FALSE]
      BY <2>2 DEF ErrandFails
    <3> QED BY <1>0, <2>2, <3>1 DEF DeskState
  <2>3. CASE errand[q].kind = "confirm"
    <3>1. desk' = [desk EXCEPT !.submitting = FALSE]
      BY <2>3 DEF ErrandFails
    <3> QED BY <1>0, <2>3, <3>1 DEF DeskState
  <2>4. CASE errand[q].kind = "notes"
    <3>1. desk' = [desk EXCEPT !.saving = FALSE]
      BY <2>4 DEF ErrandFails
    <3> QED BY <1>0, <2>4, <3>1 DEF DeskState
  <2> QED BY <1>0, <2>1, <2>2, <2>3, <2>4 DEF Kinds
<1>5. DeskStateInv'
  BY <1>0, <1>2, <1>4 DEF DeskStateInv
<1>6. ErrandInv'
  <2>1. ASSUME NEW r \in Calls PROVE Sound(errand'[r])
    BY <1>1, <1>2 DEF ErrandInv
  <2>2. ASSUME NEW r \in Calls, errand'[r].mine
        PROVE  /\ desk'.mounted
               /\ errand'[r].kind = "load" \/ desk'.loaded
               /\ errand'[r].kind = "preview" => desk'.previewing
               /\ errand'[r].kind = "confirm" => desk'.submitting
               /\ errand'[r].kind = "notes" => desk'.saving
    <3>1. r # q /\ errand'[r] = errand[r] /\ errand[r].mine
      BY <1>3, <2>2
    <3>2. errand[r].kind \in {"preview", "confirm", "notes"} => errand[q].kind # errand[r].kind
      BY <1>0, <3>1 DEF ErrandInv, Errands
    <3> QED BY <1>4, <3>1, <3>2 DEF ErrandInv
  <2>3. \A k \in {"preview", "confirm", "notes"} : \A r, c \in Errands({k})' : r = c
    BY <1>3 DEF ErrandInv, Errands
  <2> QED BY <2>1, <2>2, <2>3 DEF ErrandInv
<1>7. PreviewInv'
  <2>1. ASSUME NEW r \in Calls, errand'[r].pc = "sent", errand'[r].kind = "confirm",
               ~ errand'[r].excused
        PROVE  template[errand'[r].status] = errand'[r].text
    <3>1. CASE r = q
      BY <1>1, <1>2, <2>1, <3>1, NoErrandTyped DEF PreviewInv
    <3>2. CASE r # q
      BY <1>2, <2>1, <3>2 DEF PreviewInv
    <3> QED BY <3>1, <3>2
  <2>2. ASSUME NEW r \in Errands({"preview"})'
        PROVE  r \in Errands({"preview"}) /\ errand'[r] = errand[r]
    BY <1>3, <2>2 DEF Errands
  <2> QED BY <1>0, <1>4, <2>1, <2>2 DEF PreviewInv
<1>8. CaseInv'
  BY <1>0 DEF CaseInv
<1> QED BY <1>5, <1>6, <1>7, <1>8

LEMMA DeskKept == DeskInv /\ [DeskNext]_deskVars => DeskInv'
<1> SUFFICES ASSUME DeskInv, [DeskNext]_deskVars PROVE DeskInv'
  OBVIOUS
<1>1. CASE UNCHANGED deskVars
  BY <1>1 DEF deskVars, DeskInv, DeskStateInv, ErrandInv, PreviewInv, CaseInv, Errands, Changed
<1>2. CASE AtDesk
  BY <1>2, DeskOpened, DeskLeft, DeskTyped, DeskClicked DEF AtDesk
<1>3. ASSUME NEW q \in Calls, OnErrand(q) PROVE DeskInv'
  BY <1>3, DeskRead, DeskWritten, DeskAnswered, DeskReloads, DeskFails DEF OnErrand
<1> QED BY <1>1, <1>2, <1>3, DeskElsewhere DEF DeskNext

LEMMA DeskInvariant == DeskSpec => []DeskInv
BY DeskKept, DeskInitially, PTL DEF DeskSpec

\* One call at a time behind every button.
LEMMA DeskIsTyped == DeskInv => DeskTypeOK
<1> SUFFICES ASSUME DeskInv PROVE DeskTypeOK
  OBVIOUS
<1> USE DEF DeskInv
<1>1. ASSUME NEW kind \in {"preview", "confirm", "notes"}
      PROVE  Cardinality({q \in Calls : errand[q].mine /\ errand[q].kind = kind}) <= 1
  <2>1. \A q, r \in {q \in Calls : errand[q].mine /\ errand[q].kind = kind} : q = r
    BY DEF ErrandInv, Errands
  <2> QED BY <2>1, AtMostOne
<1>2. \A q \in Calls : errand[q].pc = "idle" <=> errand[q] = NoErrand
  BY NoErrandTyped DEF ErrandInv, Sound
<1>3. desk.preview \in Texts \cup {None} /\ wrongSms \in BOOLEAN
  BY DEF DeskStateInv, DeskState
<1> QED BY <1>1, <1>2, <1>3 DEF DeskTypeOK, DeskStateInv

\* For every number of calls, statuses and templates: the SMS of a confirmed
\* change has the text that was previewed, however calls and answers interleave,
\* unless between preview and change a template was edited, or the select moved
\* while a preview was loading.
THEOREM SmsArePreviewed == DeskSpec => []SmsIsAsPreviewed
BY DeskInvariant, PTL DEF DeskInv, PreviewInv, SmsIsAsPreviewed

\* With nothing under way and no reason for doubt the page shows the status and
\* the notes the case has, or notes typed and not saved yet.
THEOREM DesksAreTrue == DeskSpec => []DeskIsTrue
<1>1. DeskInv => DeskIsTrue
  <2> SUFFICES ASSUME DeskInv, Working, ~ doubt,
                      Errands({"load", "preview", "confirm", "notes"}) = {}
               PROVE  desk.status = row.status /\ (desk.dirty \/ desk.notes = row.notes)
    BY DEF DeskIsTrue
  <2>1. Errands({"load"}) = {} /\ Errands({"load", "notes"}) = {} /\ ~ Changed
    BY DEF Errands, Changed
  <2> QED BY <2>1 DEF DeskInv, CaseInv, Working
<1> QED BY DeskInvariant, <1>1, PTL

-----------------------------------------------------------------------------
(* The list pages *)

LEMMA UnusedTyped ==
  ASSUME ListsStateInv
  PROVE  /\ Unused \in CallState /\ Proper(Unused)
         /\ ~ Unused.mine /\ Unused.pc = "idle"
         /\ Away \in PageState
BY DEF Unused, CallState, Proper, Away, PageState, Pairs

LEMMA FiltersTyped ==
  ASSUME ListsStateInv
  PROVE  /\ InitialFilter(list) \in Filters(list)
         /\ \A f \in Filters(list) :
              /\ \A s \in Tabs(list) : [f EXCEPT !.status = s] \in Filters(list)
              /\ \A g \in {"any", "narrow"} : [f EXCEPT !.form = g] \in Filters(list)
                                              /\ [f EXCEPT !.form = g].status = f.status
              /\ f.status \in Tabs(list)
<1> USE ListsAssumption DEF Filters
<1>1. (IF list = "properties" THEN "ACTIVE" ELSE "all") \in Tabs(list)
  BY DEF ListsStateInv, ListNames, Tabs, Values
<1>2. InitialFilter(list) \in Filters(list)
  BY <1>1 DEF InitialFilter
<1> QED BY <1>2

LEMMA ListsInitially == ListsInit => ListsInv
<1> SUFFICES ASSUME ListsInit PROVE ListsInv
  OBVIOUS
<1> USE ListsAssumption DEF ListsInit
<1>1. call = [q \in Calls |-> Unused] /\ Mine = {} /\ UnderWay = {} /\ ~ page.mounted
      /\ page.shown = {}
  BY DEF Mine, UnderWay, Unused, Away
<1>2. ListsStateInv
  BY DEF ListsStateInv, Unused, CallState, Away, PageState, Pairs
<1>3. CallInv
  BY <1>1, <1>2, UnusedTyped DEF CallInv
<1>4. BusyInv /\ OrderInv /\ FilterInv /\ LoadingIsBacked
  BY <1>1 DEF BusyInv, OrderInv, FilterInv, LoadingIsBacked, RowCalls, Queries, News
<1> QED BY <1>2, <1>3, <1>4 DEF ListsInv

\* A call sent behind those under way.
LEMMA Queued ==
  ASSUME ListsStateInv, CallInv,
         NEW q \in Calls, NEW new \in CallState,
         call[q].pc = "idle", new.pc = "sent", new.mine,
         call' = [call EXCEPT ![q] = new], SentLast(q)
  PROVE  /\ call' \in [Calls -> CallState] /\ call'[q] = new
         /\ \A r \in Calls \ {q} : call'[r] = call[r]
         /\ q \notin Mine /\ Mine' = Mine \cup {q} /\ UnderWay' = UnderWay \cup {q}
         /\ ahead' \subseteq UnderWay' \X UnderWay'
         /\ \A r, s \in UnderWay' : <<r, s>> \in ahead' <=> r # s /\ <<s, r>> \notin ahead'
         /\ \A r \in UnderWay : <<r, q>> \in ahead' /\ <<q, r>> \notin ahead'
         /\ \A r, s \in UnderWay : <<r, s>> \in ahead' <=> <<r, s>> \in ahead
<1>1. /\ call' \in [Calls -> CallState] /\ call'[q] = new
      /\ \A r \in Calls \ {q} : call'[r] = call[r]
  BY DEF ListsStateInv
<1>2. q \notin Mine /\ q \notin UnderWay
  BY DEF CallInv, Proper, Unused, Mine, UnderWay
<1>3. Mine' = Mine \cup {q} /\ UnderWay' = UnderWay \cup {q}
  BY <1>1 DEF Mine, UnderWay
<1>4. ahead \subseteq UnderWay \X UnderWay
      /\ \A r, s \in UnderWay : <<r, s>> \in ahead <=> r # s /\ <<s, r>> \notin ahead
  BY DEF CallInv
<1>5. ahead' = ahead \cup (UnderWay \X {q})
  BY DEF SentLast
<1>6. ahead' \subseteq UnderWay' \X UnderWay'
  BY <1>3, <1>4, <1>5
<1>7. \A r, s \in UnderWay : <<r, s>> \in ahead' <=> <<r, s>> \in ahead
  BY <1>2, <1>5
<1>8. \A r \in UnderWay : <<r, q>> \in ahead' /\ <<q, r>> \notin ahead'
  BY <1>2, <1>4, <1>5
<1>9. <<q, q>> \notin ahead'
  BY <1>2, <1>4, <1>5
<1>10. \A r, s \in UnderWay' : <<r, s>> \in ahead' <=> r # s /\ <<s, r>> \notin ahead'
  BY <1>3, <1>4, <1>7, <1>8, <1>9
<1> QED BY <1>1, <1>2, <1>3, <1>6, <1>7, <1>8, <1>10

\* A call that is over.
LEMMA Consumed ==
  ASSUME ListsStateInv, CallInv, NEW q \in Calls, Consume(q)
  PROVE  /\ call' \in [Calls -> CallState] /\ call'[q] = Unused
         /\ \A r \in Calls \ {q} : call'[r] = call[r]
         /\ Mine' = Mine \ {q} /\ UnderWay' = UnderWay \ {q}
         /\ ahead' \subseteq UnderWay' \X UnderWay'
         /\ \A r, s \in UnderWay' : <<r, s>> \in ahead' <=> r # s /\ <<s, r>> \notin ahead'
         /\ \A r, s \in Calls \ {q} : <<r, s>> \in ahead' <=> <<r, s>> \in ahead
<1>1. /\ call' \in [Calls -> CallState] /\ call'[q] = Unused
      /\ \A r \in Calls \ {q} : call'[r] = call[r]
  BY UnusedTyped DEF ListsStateInv, Consume
<1>2. Mine' = Mine \ {q} /\ UnderWay' = UnderWay \ {q}
  BY <1>1, UnusedTyped DEF Mine, UnderWay
<1>3. ahead \subseteq UnderWay \X UnderWay
      /\ \A r, s \in UnderWay : <<r, s>> \in ahead <=> r # s /\ <<s, r>> \notin ahead
  BY DEF CallInv
<1>4. ahead' = {pair \in ahead : q \notin {pair[1], pair[2]}}
  BY DEF Consume
<1>5. ahead' \subseteq UnderWay' \X UnderWay'
  BY <1>2, <1>3, <1>4
<1>6. \A r, s \in Calls \ {q} : <<r, s>> \in ahead' <=> <<r, s>> \in ahead
  BY <1>4
<1>7. UnderWay' \subseteq Calls \ {q}
  BY <1>2 DEF UnderWay
<1>8. \A r, s \in UnderWay' : <<r, s>> \in ahead' <=> r # s /\ <<s, r>> \notin ahead'
  BY <1>2, <1>3, <1>6, <1>7
<1> QED BY <1>1, <1>2, <1>5, <1>6, <1>8

\* A call that was served.
LEMMA Served ==
  ASSUME ListsStateInv, CallInv,
         NEW q \in Calls, NEW new \in CallState,
         call[q].pc = "sent", call[q].mine, new.pc = "answered", new.mine,
         call' = [call EXCEPT ![q] = new], UNCHANGED ahead
  PROVE  /\ call' \in [Calls -> CallState] /\ call'[q] = new
         /\ \A r \in Calls \ {q} : call'[r] = call[r]
         /\ q \in Mine /\ Mine' = Mine /\ UnderWay' = UnderWay
         /\ ahead' \subseteq UnderWay' \X UnderWay'
         /\ \A r, s \in UnderWay' : <<r, s>> \in ahead' <=> r # s /\ <<s, r>> \notin ahead'
<1>1. /\ call' \in [Calls -> CallState] /\ call'[q] = new
      /\ \A r \in Calls \ {q} : call'[r] = call[r]
  BY DEF ListsStateInv
<1>2. q \in Mine /\ Mine' = Mine /\ UnderWay' = UnderWay
  BY <1>1 DEF Mine, UnderWay
<1> QED BY <1>1, <1>2 DEF CallInv

\* A page that asks for its rows, or finds no token.
LEMMA Reloaded ==
  ASSUME ListsInv, NEW q \in Calls, NEW p \in PageState,
         p.mounted, p.filter \in Filters(list), p.busy = page.busy \/ Mine = {},
         Reload(q, p), UNCHANGED <<list, table, takeover>>
  PROVE  ListsInv'
<1> USE DEF ListsInv
<1>1. CASE Load(q, p)
  <2> DEFINE new == [Unused EXCEPT
        !.pc = "sent", !.kind = "list", !.mine = TRUE, !.filter = p.filter]
  <2>1. new \in CallState
    BY UnusedTyped DEF CallState
  <2>2. new.pc = "sent" /\ new.mine /\ new.kind = "list" /\ new.filter = p.filter
    BY DEF Unused
  <2>3. Proper(new)
    BY <2>2 DEF Proper
  <2>4. call[q].pc = "idle" /\ call' = [call EXCEPT ![q] = new] /\ SentLast(q)
        /\ excuse' = IF Mine = {} THEN {} ELSE excuse
    BY <1>1 DEF Load, Ask
  <2> HIDE DEF new
  <2>5. /\ call' \in [Calls -> CallState] /\ call'[q] = new
        /\ \A r \in Calls \ {q} : call'[r] = call[r]
        /\ q \notin Mine /\ Mine' = Mine \cup {q}
        /\ ahead' \subseteq UnderWay' \X UnderWay'
        /\ \A r, s \in UnderWay' : <<r, s>> \in ahead' <=> r # s /\ <<s, r>> \notin ahead'
        /\ \A r \in UnderWay : <<r, q>> \in ahead' /\ <<q, r>> \notin ahead'
        /\ \A r, s \in UnderWay : <<r, s>> \in ahead' <=> <<r, s>> \in ahead
    BY <2>1, <2>2, <2>4, Queued
  <2>6. Mine \subseteq UnderWay /\ Mine \subseteq Calls
    BY DEF CallInv, Proper, Mine, UnderWay, Unused
  <2>7. /\ page' \in PageState /\ page'.mounted /\ page'.filter = p.filter
        /\ page'.busy = p.busy /\ page'.loading
    BY <1>1 DEF Load, PageState
  <2>8. RowCalls' = RowCalls /\ Queries' = Queries \cup {q}
        /\ \A r \in Mine : call'[r] = call[r]
    BY <2>2, <2>5, <2>6 DEF RowCalls, Queries
  <2>9. \A i \in Rows : News(i)' = News(i)
    BY <2>2, <2>5, <2>8 DEF News, RowCalls
  <2>10. ListsStateInv'
    BY <2>4, <2>5, <2>7 DEF ListsStateInv, CallState, PageState, Pairs
  <2>11. CallInv'
    BY <2>3, <2>5, <2>7 DEF CallInv, Proper
  <2>12. BusyInv'
    BY <2>7, <2>8 DEF BusyInv, RowCalls
  <2>13. LoadingIsBacked'
    BY <2>8 DEF LoadingIsBacked, Queries
  <2>14. CASE Mine = {}
    <3>1. Queries = {} /\ RowCalls = {} /\ \A i \in Rows : News(i) = {}
      BY <2>14 DEF Queries, RowCalls, News
    <3>2. OrderInv'
      BY <2>14, <2>2, <2>5, <2>8, <2>9, <3>1 DEF OrderInv
    <3>3. FilterInv'
      BY <2>2, <2>5, <2>7, <2>8, <3>1 DEF FilterInv
    <3> QED BY <2>10, <2>11, <2>12, <2>13, <3>2, <3>3
  <2>15. CASE Mine # {}
    <3>0. excuse' = excuse
      BY <2>4, <2>15
    <3>1. OrderInv'
      <4> SUFFICES ASSUME excuse = {} PROVE OrderInv'
        BY <3>0 DEF OrderInv
      <4>1. \A u, r \in Mine' :
              <<u, r>> \in ahead' /\ call'[r].pc = "answered" => call'[u].pc = "answered"
        <5> SUFFICES ASSUME NEW u \in Mine', NEW r \in Mine',
                            <<u, r>> \in ahead', call'[r].pc = "answered"
                     PROVE  call'[u].pc = "answered"
          OBVIOUS
        <5>1. r # q
          BY <2>2, <2>5
        <5>2. u # q
          BY <2>5, <2>6, <5>1
        <5> QED BY <2>5, <2>6, <2>8, <5>1, <5>2 DEF OrderInv
      <4>2. \A u \in Queries' : call'[u].pc = "answered" =>
              \A s \in call'[u].rows :
                table'[s[1]] = s[2] \/ \E r \in News(s[1])' : <<u, r>> \in ahead'
        <5> SUFFICES ASSUME NEW u \in Queries', call'[u].pc = "answered",
                            NEW s \in call'[u].rows
                     PROVE  table'[s[1]] = s[2] \/ \E r \in News(s[1])' : <<u, r>> \in ahead'
          OBVIOUS
        <5>1. u \in Queries /\ u \in Mine /\ call'[u] = call[u]
          BY <2>2, <2>5, <2>8 DEF Queries
        <5>2. s[1] \in Rows
          BY <5>1, <2>6 DEF ListsStateInv, CallState, Pairs
        <5>3. News(s[1])' = News(s[1]) /\ News(s[1]) \subseteq Mine
          BY <2>9, <5>2 DEF News, RowCalls
        <5> QED BY <2>5, <2>6, <5>1, <5>3 DEF OrderInv
      <4>3. \A i \in Rows : \A u \in News(i)' :
              table'[i] = call'[u].value \/ \E r \in News(i)' : <<u, r>> \in ahead'
        <5> SUFFICES ASSUME NEW i \in Rows, NEW u \in News(i)
                     PROVE  table[i] = call'[u].value \/ \E r \in News(i) : <<u, r>> \in ahead'
          BY <2>9
        <5>1. News(i) \subseteq Mine
          BY DEF News, RowCalls
        <5> QED BY <2>5, <2>6, <2>8, <5>1 DEF OrderInv
      <4> QED BY <4>1, <4>2, <4>3, <2>8 DEF OrderInv
    <3>2. FilterInv'
      <4>1. \A u \in Queries : <<u, q>> \in ahead'
        BY <2>5, <2>6 DEF Queries
      <4> QED BY <2>2, <2>5, <2>7, <2>8, <4>1 DEF FilterInv
    <3> QED BY <2>10, <2>11, <2>12, <2>13, <3>1, <3>2
  <2> QED BY <2>14, <2>15
<1>2. ASSUME NEW x \in PageState, NoToken(x), x.mounted, x.filter = p.filter, x.busy = p.busy,
             ~ x.loading \/ list \in {"logs", "users", "properties"}
      PROVE  ListsInv'
  <2>1. /\ page' = x /\ UNCHANGED <<call, ahead>>
        /\ excuse' = excuse \cup {"token"}
    BY <1>2 DEF NoToken
  <2>2. ListsStateInv'
    BY <1>2, <2>1 DEF ListsStateInv, CallState, PageState, Pairs
  <2>3. CallInv'
    BY <1>2, <2>1 DEF CallInv, Proper, UnderWay
  <2>4. BusyInv'
    BY <1>2, <2>1 DEF BusyInv, RowCalls, Mine
  <2>5. OrderInv' /\ FilterInv'
    BY <2>1 DEF OrderInv, FilterInv
  <2>6. LoadingIsBacked'
    BY <1>2, <2>1 DEF LoadingIsBacked
  <2> QED BY <2>2, <2>3, <2>4, <2>5, <2>6
<1>3. [p EXCEPT !.loading = FALSE] \in PageState
      /\ [p EXCEPT !.loading = FALSE].filter = p.filter
      /\ [p EXCEPT !.loading = FALSE].busy = p.busy
      /\ [p EXCEPT !.loading = FALSE].mounted
      /\ ~ [p EXCEPT !.loading = FALSE].loading
  BY DEF PageState
<1>4. \/ Load(q, p)
      \/ NoToken([p EXCEPT !.loading = FALSE])
      \/ NoToken(p) /\ list \in {"logs", "users", "properties"}
  BY DEF Reload, LoadCases, LoadContacts, LoadLogs, LoadUsers, LoadProperties
<1> QED BY <1>1, <1>2, <1>3, <1>4

\* A visit begins, a tab or a filter is chosen, the form is filled in or sent.
LEMMA ListFiltered ==
  ASSUME ListsInv,
         \/ \E q \in Calls : OpenList(q) \/ SubmitForm(q)
         \/ \E q \in Calls, s \in Tabs(list) : CaseTab(q, s) \/ LogTab(q, s) \/ PropertyTab(q, s)
         \/ \E q \in Calls, f \in {"any", "narrow"} : SetServiceType(q, f)
         \/ \E f \in {"any", "narrow"} : EditForm(f)
  PROVE  ListsInv'
<1> USE DEF ListsInv
<1>0. /\ page.mounted => page.filter \in Filters(list)
      /\ ~ page.mounted => Mine = {}
  BY DEF ListsStateInv, CallInv, Mine
<1>1. ASSUME NEW q \in Calls, OpenList(q) PROVE ListsInv'
  <2> DEFINE p == [Away EXCEPT !.mounted = TRUE, !.filter = InitialFilter(list)]
  <2>1. p \in PageState /\ p.mounted /\ p.filter \in Filters(list)
    BY UnusedTyped, FiltersTyped DEF Away, PageState
  <2> HIDE DEF p
  <2>2. Reload(q, p) /\ UNCHANGED <<list, table, takeover>> /\ Mine = {}
    BY <1>0, <1>1 DEF OpenList, p
  <2> QED BY <2>1, <2>2, Reloaded
<1>2. ASSUME NEW q \in Calls, SubmitForm(q) PROVE ListsInv'
  <2>1. page \in PageState /\ page.mounted /\ Reload(q, page) /\ UNCHANGED <<list, table, takeover>>
    BY <1>2 DEF SubmitForm, ListsStateInv
  <2> QED BY <1>0, <2>1, Reloaded
<1>3. ASSUME NEW q \in Calls, NEW s \in Tabs(list), ChooseTab(q, s) PROVE ListsInv'
  <2> DEFINE p == [page EXCEPT !.filter.status = s]
  <2>1. [page.filter EXCEPT !.status = s] \in Filters(list)
    BY <1>0, <1>3, FiltersTyped DEF ChooseTab
  <2>2. p = [page EXCEPT !.filter = [page.filter EXCEPT !.status = s]]
    BY DEF ListsStateInv, PageState
  <2>3. p \in PageState /\ p.mounted /\ p.filter \in Filters(list) /\ p.busy = page.busy
    BY <1>3, <2>1, <2>2 DEF ChooseTab, ListsStateInv, PageState
  <2> HIDE DEF p
  <2>4. Reload(q, p) /\ UNCHANGED <<list, table, takeover>>
    BY <1>3 DEF ChooseTab, p
  <2> QED BY <2>3, <2>4, Reloaded
<1>4. ASSUME NEW q \in Calls, NEW f \in {"any", "narrow"}, SetServiceType(q, f) PROVE ListsInv'
  <2> DEFINE p == [page EXCEPT !.filter.form = f]
  <2>1. [page.filter EXCEPT !.form = f] \in Filters(list)
    BY <1>0, <1>4, FiltersTyped DEF SetServiceType
  <2>2. p = [page EXCEPT !.filter = [page.filter EXCEPT !.form = f]]
    BY DEF ListsStateInv, PageState
  <2>3. p \in PageState /\ p.mounted /\ p.filter \in Filters(list) /\ p.busy = page.busy
    BY <1>4, <2>1, <2>2 DEF SetServiceType, ListsStateInv, PageState
  <2> HIDE DEF p
  <2>4. Reload(q, p) /\ UNCHANGED <<list, table, takeover>>
    BY <1>4 DEF SetServiceType, p
  <2> QED BY <2>3, <2>4, Reloaded
<1>5. ASSUME NEW f \in {"any", "narrow"}, EditForm(f) PROVE ListsInv'
  <2>1. /\ page.mounted /\ page' = [page EXCEPT !.filter.form = f]
        /\ UNCHANGED <<list, table, call, ahead, excuse, takeover>>
    BY <1>5 DEF EditForm
  <2>2. /\ [page.filter EXCEPT !.form = f] \in Filters(list)
        /\ [page.filter EXCEPT !.form = f].status = page.filter.status
    BY <1>0, <2>1, FiltersTyped
  <2>3. page' = [page EXCEPT !.filter = [page.filter EXCEPT !.form = f]]
    BY <2>1 DEF ListsStateInv, PageState
  <2>4. /\ page' \in PageState /\ page'.mounted /\ page'.filter \in Filters(list)
        /\ page'.filter.status = page.filter.status /\ page'.busy = page.busy
        /\ page'.shown = page.shown /\ page'.asked = page.asked /\ page'.loading = page.loading
    BY <2>1, <2>2, <2>3 DEF ListsStateInv, PageState
  <2>5. ListsStateInv'
    BY <2>1, <2>4 DEF ListsStateInv, CallState, PageState, Pairs
  <2>6. CallInv' /\ BusyInv'
    BY <2>1, <2>4 DEF CallInv, Proper, UnderWay, BusyInv, RowCalls, Mine
  <2>7. OrderInv' /\ FilterInv'
    <3>1. Mine' = Mine /\ RowCalls' = RowCalls /\ Queries' = Queries
          /\ \A i : News(i)' = News(i)
      BY <2>1 DEF Queries, News, RowCalls, Mine
    <3> QED BY <2>1, <2>4, <3>1 DEF OrderInv, FilterInv
  <2>8. LoadingIsBacked'
    BY <2>1, <2>4 DEF LoadingIsBacked, Mine
  <2> QED BY <2>5, <2>6, <2>7, <2>8
<1> QED BY <1>1, <1>2, <1>3, <1>4, <1>5 DEF CaseTab, LogTab, PropertyTab

\* The page is left.
LEMMA ListLeft == ASSUME ListsInv, LeaveList PROVE ListsInv'
<1> USE DEF ListsInv
<1>1. /\ page' = Away /\ excuse' = {} /\ takeover' = FALSE /\ UNCHANGED <<list, table>>
      /\ ahead' = ahead \cap (Abandoned \X Abandoned)
  BY DEF LeaveList
<1>2. ASSUME NEW r \in Abandoned
      PROVE  /\ call'[r] \in CallState /\ Proper(call'[r]) /\ ~ call'[r].mine
             /\ call'[r].pc = "sent"
  <2>1. call[r] \in CallState /\ Proper(call[r]) /\ call[r].pc = "sent" /\ call[r].kind = "row"
    BY DEF Abandoned, ListsStateInv, CallInv
  <2>2. call'[r] = [call[r] EXCEPT !.mine = FALSE]
    BY DEF LeaveList, Abandoned
  <2>3. call'[r] \in CallState /\ ~ call'[r].mine /\ call'[r].pc = "sent"
    BY <2>1, <2>2 DEF CallState
  <2>4. call[r].row \in Rows /\ call[r].value \in Wanted(list)
    BY <2>1 DEF Proper, Unused
  <2>5. call'[r].kind = "row" /\ call'[r].row = call[r].row /\ call'[r].value = call[r].value
    BY <2>1, <2>2 DEF CallState
  <2> QED BY <2>3, <2>4, <2>5 DEF Proper
<1>3. \A r \in Calls \ Abandoned : call'[r] = Unused
  BY DEF LeaveList
<1>4. Abandoned \subseteq UnderWay /\ UnderWay' = Abandoned /\ Mine' = {}
  BY <1>2, <1>3, UnusedTyped DEF Abandoned, UnderWay, Mine
<1>5. call' \in [Calls -> CallState]
  <2>1. \A r \in Calls : call'[r] \in CallState
    BY <1>2, <1>3, UnusedTyped
  <2>2. call' = [r \in Calls |-> call'[r]]
    BY DEF LeaveList
  <2> QED BY <2>1, <2>2
<1>6. ListsStateInv'
  BY <1>1, <1>5, UnusedTyped DEF ListsStateInv, CallState, PageState, Pairs, Away
<1>7. CallInv'
  <2>1. \A q \in Calls : Proper(call[q])' /\ ~ call'[q].mine
    BY <1>1, <1>2, <1>3, UnusedTyped DEF Proper
  <2>2. ahead' \subseteq UnderWay' \X UnderWay'
    BY <1>1, <1>4
  <2>3. \A q, r \in UnderWay' : <<q, r>> \in ahead' <=> q # r /\ <<r, q>> \notin ahead'
    BY <1>1, <1>4 DEF CallInv
  <2> QED BY <2>1, <2>2, <2>3 DEF CallInv
<1>8. ~ page'.mounted /\ page'.shown = {}
  BY <1>1 DEF Away
<1>9. BusyInv' /\ OrderInv' /\ FilterInv' /\ LoadingIsBacked'
  BY <1>4, <1>8 DEF BusyInv, OrderInv, FilterInv, LoadingIsBacked, RowCalls, Queries, News
<1> QED BY <1>6, <1>7, <1>9

\* A row is changed: by the button in the slot, or by one that needs none.
LEMMA Sent ==
  ASSUME ListsInv, NEW q \in Calls, NEW i \in Rows, NEW v \in Wanted(list),
         page.mounted, Change(q, i, v),
         \/ UNCHANGED page /\ list \notin {"logs", "users"}
         \/ page.busy # i /\ page' = [page EXCEPT !.busy = i]
  PROVE  ListsInv'
<1> USE DEF ListsInv
<1> DEFINE new == [Unused EXCEPT
      !.pc = "sent", !.kind = "row", !.mine = TRUE, !.row = i, !.value = v]
<1>1. /\ call[q].pc = "idle" /\ call' = [call EXCEPT ![q] = new] /\ SentLast(q)
      /\ takeover' = (takeover \/ \E r \in RowCalls : call[r].row # i)
      /\ UNCHANGED <<list, table, excuse>>
  BY DEF Change
<1>2. v \in Values(list) \cup Wishes
  BY DEF Wanted
<1>3. new.pc = "sent" /\ new.mine /\ new.kind = "row" /\ new.row = i /\ new.value = v
  BY DEF Unused
<1>4. new \in CallState /\ Proper(new)
  BY <1>2, <1>3, UnusedTyped DEF CallState, Proper, ListsStateInv
<1> HIDE DEF new
<1>5. /\ call' \in [Calls -> CallState] /\ call'[q] = new
      /\ \A r \in Calls \ {q} : call'[r] = call[r]
      /\ q \notin Mine /\ Mine' = Mine \cup {q}
      /\ ahead' \subseteq UnderWay' \X UnderWay'
      /\ \A r, s \in UnderWay' : <<r, s>> \in ahead' <=> r # s /\ <<s, r>> \notin ahead'
      /\ \A r \in UnderWay : <<r, q>> \in ahead' /\ <<q, r>> \notin ahead'
      /\ \A r, s \in UnderWay : <<r, s>> \in ahead' <=> <<r, s>> \in ahead
  BY <1>1, <1>4, <1>3, Queued
<1>6. Mine \subseteq UnderWay /\ Mine \subseteq Calls
  BY DEF CallInv, Proper, Mine, UnderWay, Unused
<1>7. \A r \in Mine : call'[r] = call[r]
  BY <1>5, <1>6
<1>8. RowCalls' = RowCalls \cup {q} /\ Queries' = Queries
  BY <1>3, <1>5, <1>7 DEF RowCalls, Queries
<1>9. \A j : News(j)' = News(j)
  BY <1>3, <1>5, <1>7, <1>8 DEF News, RowCalls
<1>10. /\ page' \in PageState /\ page'.mounted /\ page'.filter = page.filter
       /\ page'.shown = page.shown /\ page'.asked = page.asked /\ page'.loading = page.loading
       /\ list \in {"logs", "users"} => page'.busy = i /\ page.busy # i
  BY DEF ListsStateInv, PageState
<1>11. ListsStateInv'
  BY <1>1, <1>5, <1>10 DEF ListsStateInv, CallState, PageState, Pairs
<1>12. CallInv'
  BY <1>1, <1>4, <1>5, <1>10 DEF CallInv, Proper
<1>13. BusyInv'
  <2> SUFFICES ASSUME list \in {"logs", "users"}, ~ takeover'
               PROVE  /\ \A r \in RowCalls' : page'.busy = call'[r].row
                      /\ \A r, s \in RowCalls' : r = s
    BY <1>1 DEF BusyInv
  <2>1. ~ takeover /\ \A r \in RowCalls : call[r].row = i
    BY <1>1 DEF ListsStateInv
  <2>2. RowCalls = {}
    BY <1>10, <2>1 DEF BusyInv
  <2> QED BY <1>3, <1>5, <1>8, <1>10, <2>2
<1>14. OrderInv'
  <2> SUFFICES ASSUME excuse = {} PROVE OrderInv'
    BY <1>1 DEF OrderInv
  <2>1. \A u, r \in Mine' :
          <<u, r>> \in ahead' /\ call'[r].pc = "answered" => call'[u].pc = "answered"
    <3> SUFFICES ASSUME NEW u \in Mine', NEW r \in Mine',
                        <<u, r>> \in ahead', call'[r].pc = "answered"
                 PROVE  call'[u].pc = "answered"
      OBVIOUS
    <3>1. r # q
      BY <1>3, <1>5
    <3>2. u # q
      BY <1>5, <1>6, <3>1
    <3> QED BY <1>5, <1>6, <1>7, <3>1, <3>2 DEF OrderInv
  <2>2. \A u \in Queries : call'[u].pc = "answered" =>
          \A s \in call'[u].rows :
            table'[s[1]] = s[2] \/ \E r \in News(s[1]) : <<u, r>> \in ahead'
    <3> SUFFICES ASSUME NEW u \in Queries, call'[u].pc = "answered",
                        NEW s \in call'[u].rows
                 PROVE  table[s[1]] = s[2] \/ \E r \in News(s[1]) : <<u, r>> \in ahead'
      BY <1>1
    <3>1. u \in Mine /\ call'[u] = call[u] /\ News(s[1]) \subseteq Mine
      BY <1>7 DEF Queries, News, RowCalls
    <3> QED BY <1>5, <1>6, <3>1 DEF OrderInv
  <2>3. \A j \in Rows : \A u \in News(j) :
          table'[j] = call'[u].value \/ \E r \in News(j) : <<u, r>> \in ahead'
    <3> SUFFICES ASSUME NEW j \in Rows, NEW u \in News(j)
                 PROVE  table[j] = call'[u].value \/ \E r \in News(j) : <<u, r>> \in ahead'
      BY <1>1
    <3>1. News(j) \subseteq Mine
      BY DEF News, RowCalls
    <3> QED BY <1>5, <1>6, <1>7, <3>1 DEF OrderInv
  <2>4. Queries = {} => \A s \in page'.shown : table'[s[1]] = s[2] \/ News(s[1]) # {}
    BY <1>1, <1>10 DEF OrderInv
  <2> QED BY <1>8, <1>9, <2>1, <2>2, <2>3, <2>4 DEF OrderInv
<1>15. FilterInv'
  <2>1. \A u \in Queries : call'[u] = call[u]
    BY <1>7 DEF Queries
  <2>2. \A u, r \in Queries : <<u, r>> \in ahead' <=> <<u, r>> \in ahead
    BY <1>5, <1>6 DEF Queries
  <2> QED BY <1>1, <1>8, <1>10, <2>1, <2>2 DEF FilterInv
<1>16. LoadingIsBacked'
  <2>1. \A r \in Mine : call[r].kind = "list" => r \in Mine' /\ call'[r].kind = "list"
    BY <1>5, <1>7
  <2> QED BY <1>1, <1>10, <2>1 DEF LoadingIsBacked
<1> QED BY <1>11, <1>12, <1>13, <1>14, <1>15, <1>16

LEMMA RowChanged ==
  ASSUME ListsInv, NEW q \in Calls, NEW i \in Rows,
         \/ Resend(q, i)
         \/ MarkHandled(q, i)
         \/ \E role \in {"STAFF", "ADMIN"} : ChangeRole(q, i, role)
         \/ ToggleActive(q, i)
         \/ Archive(q, i)
  PROVE  ListsInv'
<1>0. \A s \in page.shown : s[2] \in Values(list)
  BY DEF ListsInv, ListsStateInv, PageState, Pairs
<1>1. CASE Resend(q, i)
  <2>1. list = "logs" /\ page.mounted
    BY <1>1 DEF Resend, ShownLogs, OnScreen
  <2>2. "PENDING" \in Wanted(list)
    BY <2>1 DEF Wanted, Values
  <2> QED BY <1>1, <2>1, <2>2, Sent DEF Resend
<1>2. CASE MarkHandled(q, i)
  <2>1. list = "contacts" /\ page.mounted
    BY <1>2 DEF MarkHandled, ShownContacts, OnScreen
  <2>2. "handled" \in Wanted(list)
    BY <2>1 DEF Wanted, Values
  <2> QED BY <1>2, <2>1, <2>2, Sent DEF MarkHandled
<1>3. ASSUME NEW role \in {"STAFF", "ADMIN"}, ChangeRole(q, i, role) PROVE ListsInv'
  <2>1. list = "users" /\ page.mounted
    BY <1>3 DEF ChangeRole, ShownUsers, OnScreen
  <2>2. [role |-> role] \in Wanted(list)
    BY <2>1 DEF Wanted, Wishes
  <2> QED BY <1>3, <2>1, <2>2, Sent DEF ChangeRole
<1>4. CASE ToggleActive(q, i)
  <2>1. PICK s \in ShownUsers : Change(q, i, [active |-> ~ s[2].active])
    BY <1>4 DEF ToggleActive
  <2>2. list = "users" /\ page.mounted /\ s \in page.shown
    BY <2>1 DEF ShownUsers, OnScreen
  <2>3. s[2] \in [role : {"STAFF", "ADMIN"}, active : BOOLEAN]
    BY <1>0, <2>2 DEF Values
  <2>4. [active |-> ~ s[2].active] \in Wanted(list)
    BY <2>2, <2>3 DEF Wanted, Wishes
  <2> QED BY <1>4, <2>1, <2>2, <2>4, Sent DEF ToggleActive
<1>5. CASE Archive(q, i)
  <2>1. list = "properties" /\ page.mounted
    BY <1>5 DEF Archive, ShownProperties, OnScreen
  <2>2. "ARCHIVED" \in Wanted(list)
    BY <2>1 DEF Wanted, Values
  <2> QED BY <1>5, <2>1, <2>2, Sent DEF Archive
<1> QED BY <1>1, <1>2, <1>3, <1>4, <1>5

\* Nothing the page knows changes: the server finds the rows of a list.
LEMMA ListServed == ASSUME ListsInv, NEW q \in Calls, ServeList(q) PROVE ListsInv'
<1> USE DEF ListsInv
<1> DEFINE new == [call[q] EXCEPT !.pc = "answered", !.rows = Found(call[q].filter)]
<1>1. /\ call[q].pc = "sent" /\ call[q].kind = "list" /\ call[q].mine
      /\ call[q].filter \in Filters(list) /\ call[q] \in CallState
  BY DEF ServeList, ListsStateInv, CallInv, Proper, Unused
<1>2. Found(call[q].filter) \subseteq Pairs
      /\ \A s \in Found(call[q].filter) : table[s[1]] = s[2]
  BY DEF Found, Pairs, ListsStateInv
<1>3. /\ new \in CallState /\ new.pc = "answered" /\ new.mine /\ new.kind = "list"
      /\ new.filter = call[q].filter /\ new.rows = Found(call[q].filter)
  BY <1>1, <1>2 DEF CallState
<1>4. Proper(new)
  BY <1>1, <1>3 DEF Proper
<1>5. call' = [call EXCEPT ![q] = new] /\ UNCHANGED <<list, table, page, ahead, takeover>>
      /\ excuse' = IF Overtakes(q) THEN excuse \cup {"mishap"} ELSE excuse
  BY DEF ServeList, NoteOrder, ListsStateInv
<1> HIDE DEF new
<1>6. /\ call' \in [Calls -> CallState] /\ call'[q] = new
      /\ \A r \in Calls \ {q} : call'[r] = call[r]
      /\ q \in Mine /\ Mine' = Mine
      /\ ahead' \subseteq UnderWay' \X UnderWay'
      /\ \A r, s \in UnderWay' : <<r, s>> \in ahead' <=> r # s /\ <<s, r>> \notin ahead'
  BY <1>1, <1>3, <1>5, Served
<1>7. Mine \subseteq Calls /\ Queries \subseteq Mine /\ RowCalls \subseteq Mine
  BY DEF Mine, Queries, RowCalls
<1>8. q \in Queries /\ Queries' = Queries /\ RowCalls' = RowCalls
      /\ \A r \in RowCalls : call'[r] = call[r]
  BY <1>1, <1>3, <1>6, <1>7 DEF Queries, RowCalls
<1>9. \A i : News(i)' = News(i)
  BY <1>8 DEF News
<1>10. ListsStateInv' /\ CallInv'
  BY <1>4, <1>5, <1>6 DEF ListsStateInv, CallState, PageState, Pairs, CallInv, Proper, Mine
<1>11. BusyInv'
  BY <1>5, <1>8 DEF BusyInv
<1>12. LoadingIsBacked'
  BY <1>5, <1>8 DEF LoadingIsBacked, Queries
<1>13. OrderInv'
  <2> SUFFICES ASSUME excuse = {}, ~ Overtakes(q) PROVE OrderInv'
    BY <1>5 DEF OrderInv
  <2>1. \A u, r \in Mine :
          <<u, r>> \in ahead /\ call'[r].pc = "answered" => call'[u].pc = "answered"
    <3> SUFFICES ASSUME NEW u \in Mine, NEW r \in Mine, u # q,
                        <<u, r>> \in ahead, call'[r].pc = "answered"
                 PROVE  call[u].pc = "answered"
      BY <1>3, <1>6, <1>7
    <3>1. CASE r = q
      <4>1. call[u].pc # "sent"
        BY <1>1, <3>1 DEF Overtakes
      <4> QED BY <4>1 DEF CallInv, Proper, Mine, Unused
    <3>2. CASE r # q
      BY <1>6, <1>7, <3>2 DEF OrderInv
    <3> QED BY <3>1, <3>2
  <2>2. \A u \in Queries : call'[u].pc = "answered" =>
          \A s \in call'[u].rows :
            table[s[1]] = s[2] \/ \E r \in News(s[1]) : <<u, r>> \in ahead
    BY <1>2, <1>3, <1>6, <1>7 DEF OrderInv
  <2>3. \A i \in Rows : \A u \in News(i) :
          table[i] = call'[u].value \/ \E r \in News(i) : <<u, r>> \in ahead
    BY <1>8 DEF OrderInv, News
  <2> QED BY <1>5, <1>6, <1>8, <1>9, <2>1, <2>2, <2>3 DEF OrderInv
<1>14. FilterInv'
  <2>1. \A u \in Queries : call'[u].filter = call[u].filter
    BY <1>3, <1>6, <1>7
  <2> QED BY <1>5, <1>8, <2>1 DEF FilterInv
<1> QED BY <1>10, <1>11, <1>12, <1>13, <1>14

LEMMA UpdateTyped ==
  ASSUME ListsStateInv, NEW i \in Rows, NEW v \in Wanted(list)
  PROVE  Update(i, v) \in Values(list)
<1>1. CASE list # "users"
  BY <1>1 DEF Wanted, Update
<1>2. CASE list = "users"
  <2>1. table[i] \in [role : {"STAFF", "ADMIN"}, active : BOOLEAN]
    BY <1>2 DEF ListsStateInv, Values
  <2>2. CASE v \in [role : {"STAFF", "ADMIN"}]
    <3>1. "role" \in DOMAIN v /\ v.role \in {"STAFF", "ADMIN"}
      BY <2>2
    <3> QED BY <1>2, <2>1, <3>1 DEF Update, Values
  <2>3. CASE v \in [active : BOOLEAN]
    <3>1. "role" \notin DOMAIN v /\ v.active \in BOOLEAN
      BY <2>3
    <3> QED BY <1>2, <2>1, <3>1 DEF Update, Values
  <2> QED BY <1>2, <2>2, <2>3 DEF Wanted, Wishes
<1> QED BY <1>1, <1>2

\* A change reaches the table.
LEMMA RowServed == ASSUME ListsInv, NEW q \in Calls, ServeRow(q) PROVE ListsInv'
<1> USE DEF ListsInv
<1>1. /\ call[q].pc = "sent" /\ call[q].kind = "row" /\ call[q] \in CallState
      /\ call[q].row \in Rows /\ call[q].value \in Wanted(list)
  BY DEF ServeRow, ListsStateInv, CallInv, Proper, Unused
<1>2. PICK i \in Rows, v \in Values(list) :
        i = call[q].row /\ v = Update(call[q].row, call[q].value)
  BY <1>1, UpdateTyped
<1>3. table' = [table EXCEPT ![i] = v] /\ UNCHANGED <<list, page, takeover>>
  BY <1>2 DEF ServeRow
<1>4. table' \in [Rows -> Values(list)] /\ table'[i] = v
      /\ \A j \in Rows \ {i} : table'[j] = table[j]
  BY <1>3 DEF ListsStateInv
<1>5. CASE ~ call[q].mine
  <2>1. Consume(q) /\ excuse' = excuse \cup {"mishap"}
    BY <1>5 DEF ServeRow
  <2>2. /\ call' \in [Calls -> CallState] /\ call'[q] = Unused
        /\ \A r \in Calls \ {q} : call'[r] = call[r]
        /\ Mine' = Mine \ {q}
        /\ ahead' \subseteq UnderWay' \X UnderWay'
        /\ \A r, s \in UnderWay' : <<r, s>> \in ahead' <=> r # s /\ <<s, r>> \notin ahead'
    BY <2>1, Consumed
  <2>3. Mine' = Mine /\ \A r \in Mine : call'[r] = call[r]
    BY <1>5, <2>2 DEF Mine
  <2>4. ListsStateInv' /\ CallInv'
    BY <1>3, <1>4, <2>1, <2>2, UnusedTyped
       DEF ListsStateInv, CallState, PageState, Pairs, CallInv, Proper, Mine
  <2>5. BusyInv' /\ LoadingIsBacked'
    BY <1>3, <2>1, <2>3 DEF BusyInv, LoadingIsBacked, RowCalls
  <2>6. OrderInv' /\ FilterInv'
    BY <2>1 DEF OrderInv, FilterInv
  <2> QED BY <2>4, <2>5, <2>6
<1>6. CASE call[q].mine
  <2> DEFINE new == [call[q] EXCEPT !.pc = "answered", !.value = v]
  <2>1. /\ new \in CallState /\ new.pc = "answered" /\ new.mine /\ new.kind = "row"
        /\ new.row = i /\ new.value = v
    BY <1>1, <1>2, <1>6 DEF CallState
  <2>2. Proper(new)
    BY <1>1, <1>2, <2>1 DEF Proper
  <2>3. call' = [call EXCEPT ![q] = new] /\ UNCHANGED ahead
        /\ excuse' = IF Overtakes(q) THEN excuse \cup {"mishap"} ELSE excuse
    BY <1>2, <1>6 DEF ServeRow, NoteOrder, ListsStateInv
  <2> HIDE DEF new
  <2>4. /\ call' \in [Calls -> CallState] /\ call'[q] = new
        /\ \A r \in Calls \ {q} : call'[r] = call[r]
        /\ q \in Mine /\ Mine' = Mine
        /\ ahead' \subseteq UnderWay' \X UnderWay'
        /\ \A r, s \in UnderWay' : <<r, s>> \in ahead' <=> r # s /\ <<s, r>> \notin ahead'
    BY <1>1, <1>6, <2>1, <2>3, Served
  <2>5. Mine \subseteq Calls /\ Mine \subseteq UnderWay
        /\ Queries \subseteq Mine /\ RowCalls \subseteq Mine
    BY DEF Mine, UnderWay, Queries, RowCalls, CallInv, Proper, Unused
  <2>6. /\ q \in RowCalls /\ Queries' = Queries /\ RowCalls' = RowCalls
        /\ \A r \in Queries : call'[r] = call[r]
        /\ \A r \in RowCalls : call'[r].row = call[r].row
    BY <1>1, <2>1, <1>2, <2>4, <2>5 DEF Queries, RowCalls
  <2>7. News(i)' = News(i) \cup {q}
    BY <2>1, <2>4, <2>5, <2>6, <1>2 DEF News
  <2>8. \A j \in Rows \ {i} : News(j)' = News(j)
    BY <2>1, <2>4, <2>5, <2>6, <1>2 DEF News
  <2>9. ListsStateInv' /\ CallInv'
    BY <1>3, <1>4, <2>2, <2>3, <2>4
       DEF ListsStateInv, CallState, PageState, Pairs, CallInv, Proper, Mine
  <2>10. BusyInv'
    BY <1>3, <2>6 DEF BusyInv
  <2>11. LoadingIsBacked'
    BY <1>3, <2>3, <2>6 DEF LoadingIsBacked, Queries
  <2>12. FilterInv'
    BY <1>3, <2>3, <2>6 DEF FilterInv
  <2>13. OrderInv'
    <3> SUFFICES ASSUME excuse = {}, ~ Overtakes(q) PROVE OrderInv'
      BY <2>3 DEF OrderInv
    <3>1. \A u, r \in Mine :
            <<u, r>> \in ahead /\ call'[r].pc = "answered" => call'[u].pc = "answered"
      <4> SUFFICES ASSUME NEW u \in Mine, NEW r \in Mine, u # q,
                          <<u, r>> \in ahead, call'[r].pc = "answered"
                   PROVE  call[u].pc = "answered"
        BY <2>1, <2>4, <2>5
      <4>1. CASE r = q
        <5>1. call[u].pc # "sent"
          BY <1>1, <1>6, <4>1 DEF Overtakes
        <5> QED BY <5>1 DEF CallInv, Proper, Mine, Unused
      <4>2. CASE r # q
        BY <2>4, <2>5, <4>2 DEF OrderInv
      <4> QED BY <4>1, <4>2
    <3>2. \A u \in Mine \ {q} : call[u].pc = "answered" => <<u, q>> \in ahead
      <4> SUFFICES ASSUME NEW u \in Mine \ {q}, call[u].pc = "answered", <<u, q>> \notin ahead
                   PROVE  FALSE
        OBVIOUS
      <4>1. <<q, u>> \in ahead
        BY <2>4, <2>5 DEF CallInv
      <4> QED BY <1>1, <2>4, <4>1 DEF OrderInv
    <3>3. \A u \in Queries : call[u].pc = "answered" =>
            \A s \in call[u].rows :
              table'[s[1]] = s[2] \/ \E r \in News(s[1])' : <<u, r>> \in ahead
      <4> SUFFICES ASSUME NEW u \in Queries, call[u].pc = "answered", NEW s \in call[u].rows
                   PROVE  table'[s[1]] = s[2] \/ \E r \in News(s[1])' : <<u, r>> \in ahead
        OBVIOUS
      <4>1. u \in Mine \ {q} /\ u \in Calls
        BY <1>1, <2>5 DEF Queries
      <4>2. s[1] \in Rows
        BY <4>1 DEF ListsStateInv, CallState, Pairs
      <4>3. CASE s[1] = i
        BY <2>7, <3>2, <4>1, <4>3
      <4>4. CASE s[1] # i
        BY <1>4, <2>8, <4>2, <4>4 DEF OrderInv
      <4> QED BY <4>3, <4>4
    <3>4. \A j \in Rows : \A u \in News(j)' :
            table'[j] = call'[u].value \/ \E r \in News(j)' : <<u, r>> \in ahead
      <4> SUFFICES ASSUME NEW j \in Rows, NEW u \in News(j)'
                   PROVE  table'[j] = call'[u].value \/ \E r \in News(j)' : <<u, r>> \in ahead
        OBVIOUS
      <4>1. CASE j = i
        <5>1. CASE u = q
          BY <1>4, <2>1, <2>4, <4>1, <5>1
        <5>2. CASE u # q
          <6>1. u \in Mine \ {q} /\ call[u].pc = "answered"
            BY <2>5, <2>7, <4>1, <5>2 DEF News
          <6> QED BY <2>7, <3>2, <4>1, <6>1
        <5> QED BY <5>1, <5>2
      <4>2. CASE j # i
        <5>1. News(j)' = News(j) /\ u \in News(j)
          BY <2>8, <4>2
        <5>2. u # q /\ u \in Calls
          BY <1>1, <2>5, <5>1 DEF News
        <5>3. table'[j] = table[j] /\ call'[u] = call[u]
          BY <1>4, <2>4, <4>2, <5>2
        <5> QED BY <5>1, <5>3 DEF OrderInv
      <4> QED BY <4>1, <4>2
    <3>5. Queries = {} => \A s \in page.shown : table'[s[1]] = s[2] \/ News(s[1])' # {}
      <4> SUFFICES ASSUME Queries = {}, NEW s \in page.shown
                   PROVE  table'[s[1]] = s[2] \/ News(s[1])' # {}
        OBVIOUS
      <4>1. s[1] \in Rows
        BY DEF ListsStateInv, PageState, Pairs
      <4>2. CASE s[1] = i
        BY <2>7, <4>2
      <4>3. CASE s[1] # i
        BY <1>4, <2>8, <4>1, <4>3 DEF OrderInv
      <4> QED BY <4>2, <4>3
    <3>6. \A u \in Queries : call'[u].pc = "answered" =>
            \A s \in call'[u].rows :
              table'[s[1]] = s[2] \/ \E r \in News(s[1])' : <<u, r>> \in ahead
      BY <2>6, <3>3
    <3> QED BY <1>3, <2>3, <2>4, <2>6, <3>1, <3>4, <3>5, <3>6 DEF OrderInv
  <2> QED BY <2>9, <2>10, <2>11, <2>12, <2>13
<1> QED BY <1>5, <1>6

LEMMA ListElsewhere ==
  ASSUME ListsInv, NEW i \in Rows, NEW v \in Values(list), Elsewhere(i, v)
  PROVE  ListsInv'
<1> USE DEF ListsInv
<1>1. /\ table' = [table EXCEPT ![i] = v] /\ excuse' = excuse \cup {"mishap"}
      /\ UNCHANGED <<list, page, call, ahead, takeover>>
  BY DEF Elsewhere
<1>2. ListsStateInv'
  BY <1>1 DEF ListsStateInv, CallState, PageState, Pairs
<1>3. CallInv'
  BY <1>1 DEF CallInv, Proper, UnderWay
<1>4. BusyInv' /\ LoadingIsBacked'
  BY <1>1 DEF BusyInv, LoadingIsBacked, RowCalls, Mine
<1>5. OrderInv' /\ FilterInv'
  BY <1>1 DEF OrderInv, FilterInv
<1> QED BY <1>2, <1>3, <1>4, <1>5

\* The rows arrive.
LEMMA ListAnswered == ASSUME ListsInv, NEW q \in Calls, AnswerList(q) PROVE ListsInv'
<1> USE DEF ListsInv
<1>1. /\ call[q].pc = "answered" /\ call[q].kind = "list" /\ call[q].mine
      /\ call[q].filter \in Filters(list) /\ call[q].rows \subseteq Pairs
  BY DEF AnswerList, ListsStateInv, CallInv, Proper, Unused, CallState
<1>2. Consume(q) /\ UNCHANGED <<list, table, takeover>>
      /\ excuse' = IF Overtakes(q) THEN excuse \cup {"mishap"} ELSE excuse
  BY DEF AnswerList, NoteOrder
<1>3. /\ call' \in [Calls -> CallState] /\ call'[q] = Unused
      /\ \A r \in Calls \ {q} : call'[r] = call[r]
      /\ Mine' = Mine \ {q}
      /\ ahead' \subseteq UnderWay' \X UnderWay'
      /\ \A r, s \in UnderWay' : <<r, s>> \in ahead' <=> r # s /\ <<s, r>> \notin ahead'
      /\ \A r, s \in Calls \ {q} : <<r, s>> \in ahead' <=> <<r, s>> \in ahead
  BY <1>2, Consumed
<1>4. call[q].filter.status \in Tabs(list)
  BY <1>1, FiltersTyped
<1>5. /\ page' \in PageState /\ page'.mounted = page.mounted /\ page'.filter = page.filter
      /\ page'.shown = call[q].rows /\ page'.asked = call[q].filter.status
      /\ ~ page'.loading /\ page'.busy = page.busy
  BY <1>1, <1>4 DEF AnswerList, ListsStateInv, PageState
<1>6. Mine \subseteq Calls /\ Mine \subseteq UnderWay
      /\ Queries \subseteq Mine /\ RowCalls \subseteq Mine /\ q \in Queries /\ q \notin RowCalls
  BY <1>1 DEF Mine, UnderWay, Queries, RowCalls, CallInv, Proper, Unused
<1>7. \A r \in Mine \ {q} : call'[r] = call[r]
  BY <1>3, <1>6
<1>8. Queries' = Queries \ {q} /\ RowCalls' = RowCalls
  BY <1>3, <1>6, <1>7 DEF Queries, RowCalls
<1>9. \A r \in RowCalls : call'[r] = call[r]
  BY <1>6, <1>7
<1>10. \A i : News(i)' = News(i) /\ News(i) \subseteq RowCalls
  BY <1>8, <1>9 DEF News
<1>11. ListsStateInv'
  BY <1>2, <1>3, <1>5 DEF ListsStateInv, CallState, PageState, Pairs
<1>12. CallInv'
  BY <1>2, <1>3, <1>5, UnusedTyped DEF CallInv, Proper
<1>13. BusyInv'
  <2> SUFFICES ASSUME list \in {"logs", "users"}, ~ takeover
               PROVE  /\ \A r \in RowCalls : page'.busy = call'[r].row
                      /\ \A r, s \in RowCalls : r = s
    BY <1>2, <1>8 DEF BusyInv
  <2> QED BY <1>5, <1>9 DEF BusyInv
<1>14. LoadingIsBacked'
  BY <1>5 DEF LoadingIsBacked
<1>15. ASSUME excuse = {}, ~ Overtakes(q) PROVE \A r \in Mine : <<r, q>> \notin ahead
  <2> SUFFICES ASSUME NEW r \in Mine, <<r, q>> \in ahead PROVE FALSE
    OBVIOUS
  <2>1. call[r].pc = "answered"
    BY <1>1, <1>6, <1>15 DEF OrderInv
  <2> QED BY <1>1, <1>15, <2>1 DEF Overtakes
<1>16. OrderInv'
  <2> SUFFICES ASSUME excuse = {}, ~ Overtakes(q) PROVE OrderInv'
    BY <1>2 DEF OrderInv
  <2>1. \A u, r \in Mine \ {q} :
          <<u, r>> \in ahead' /\ call'[r].pc = "answered" => call'[u].pc = "answered"
    BY <1>3, <1>6, <1>7 DEF OrderInv
  <2>2. \A u \in Queries \ {q} : call'[u].pc = "answered" =>
          \A s \in call'[u].rows :
            table[s[1]] = s[2] \/ \E r \in News(s[1]) : <<u, r>> \in ahead'
    <3> SUFFICES ASSUME NEW u \in Queries \ {q}, call[u].pc = "answered", NEW s \in call[u].rows
                 PROVE  table[s[1]] = s[2] \/ \E r \in News(s[1]) : <<u, r>> \in ahead'
      BY <1>6, <1>7
    <3> QED BY <1>3, <1>6, <1>10 DEF OrderInv
  <2>3. \A i \in Rows : \A u \in News(i) :
          table[i] = call'[u].value \/ \E r \in News(i) : <<u, r>> \in ahead'
    <3> SUFFICES ASSUME NEW i \in Rows, NEW u \in News(i)
                 PROVE  table[i] = call'[u].value \/ \E r \in News(i) : <<u, r>> \in ahead'
      OBVIOUS
    <3>1. News(i) \subseteq Calls \ {q} /\ call'[u] = call[u]
      BY <1>6, <1>9, <1>10
    <3> QED BY <1>3, <3>1 DEF OrderInv
  <2>4. \A s \in page'.shown : table[s[1]] = s[2] \/ News(s[1]) # {}
    BY <1>1, <1>5, <1>6 DEF OrderInv
  <2> QED BY <1>2, <1>3, <1>8, <1>10, <2>1, <2>2, <2>3, <2>4 DEF OrderInv
<1>17. FilterInv'
  <2> SUFFICES ASSUME excuse = {}, page.mounted, ~ Overtakes(q) PROVE FilterInv'
    BY <1>2, <1>5 DEF FilterInv
  <2>1. \A u \in Queries \ {q} :
          \/ call'[u].filter.status = page.filter.status
          \/ \E r \in Queries \ {q} : <<u, r>> \in ahead'
    <3> SUFFICES ASSUME NEW u \in Queries \ {q}
                 PROVE  \/ call[u].filter.status = page.filter.status
                        \/ \E r \in Queries \ {q} : <<u, r>> \in ahead'
      BY <1>6, <1>7
    <3>1. <<u, q>> \notin ahead
      BY <1>6, <1>15
    <3> QED BY <1>3, <1>6, <3>1 DEF FilterInv
  <2>2. ASSUME Queries \ {q} = {} PROVE call[q].filter.status = page.filter.status
    <3>1. <<q, q>> \notin ahead
      BY <1>6, <1>15
    <3>2. Queries = {q}
      BY <1>6, <2>2
    <3> QED BY <3>1, <3>2 DEF FilterInv
  <2> QED BY <1>5, <1>8, <2>1, <2>2 DEF FilterInv
<1> QED BY <1>11, <1>12, <1>13, <1>14, <1>16, <1>17

\* The changed row arrives.
LEMMA RowAnswered == ASSUME ListsInv, NEW q \in Calls, AnswerRow(q) PROVE ListsInv'
<1> USE DEF ListsInv
<1>1. /\ call[q].pc = "answered" /\ call[q].kind = "row" /\ call[q].mine
      /\ call[q].row \in Rows /\ call[q].value \in Values(list)
  BY DEF AnswerRow, CallInv, Proper, Unused
<1>2. Consume(q) /\ UNCHANGED <<list, table, takeover>>
      /\ excuse' = IF Overtakes(q) THEN excuse \cup {"mishap"} ELSE excuse
  BY DEF AnswerRow, NoteOrder
<1>3. /\ call' \in [Calls -> CallState] /\ call'[q] = Unused
      /\ \A r \in Calls \ {q} : call'[r] = call[r]
      /\ Mine' = Mine \ {q}
      /\ ahead' \subseteq UnderWay' \X UnderWay'
      /\ \A r, s \in UnderWay' : <<r, s>> \in ahead' <=> r # s /\ <<s, r>> \notin ahead'
      /\ \A r, s \in Calls \ {q} : <<r, s>> \in ahead' <=> <<r, s>> \in ahead
  BY <1>2, Consumed
<1>4. PICK i \in Rows, v \in Values(list) : i = call[q].row /\ v = call[q].value
  BY <1>1
<1>5. PICK shown \in SUBSET Pairs :
        /\ shown = IF list = "properties" THEN {s \in page.shown : s[1] # i} ELSE Replaced(i, v)
        /\ \A s \in shown : (s \in page.shown /\ s[1] # i) \/ s = <<i, v>>
  <2>1. page.shown \subseteq Pairs
    BY DEF ListsStateInv, PageState
  <2>2. \A s \in Replaced(i, v) : (s \in page.shown /\ s[1] # i) \/ s = <<i, v>>
    BY DEF Replaced
  <2>3. Replaced(i, v) \subseteq Pairs
    BY <2>1, <2>2 DEF Pairs
  <2> QED BY <2>1, <2>2, <2>3
<1>6. /\ page' \in PageState /\ page'.mounted = page.mounted /\ page'.filter = page.filter
      /\ page'.shown = shown /\ page'.asked = page.asked
      /\ page'.loading = page.loading /\ page'.busy = None
  <2>1. page' = [page EXCEPT !.busy = None, !.shown = shown]
    BY <1>4, <1>5 DEF AnswerRow, ListsStateInv, PageState
  <2> QED BY <2>1 DEF ListsStateInv, PageState
<1>7. Mine \subseteq Calls /\ Mine \subseteq UnderWay
      /\ Queries \subseteq Mine /\ RowCalls \subseteq Mine /\ q \in RowCalls /\ q \notin Queries
  BY <1>1 DEF Mine, UnderWay, Queries, RowCalls, CallInv, Proper, Unused
<1>8. \A r \in Mine \ {q} : call'[r] = call[r]
  BY <1>3, <1>7
<1>9. Queries' = Queries /\ RowCalls' = RowCalls \ {q}
      /\ \A r \in Queries : call'[r] = call[r]
  BY <1>3, <1>7, <1>8 DEF Queries, RowCalls
<1>10. \A j : News(j)' = News(j) \ {q} /\ News(j) \subseteq RowCalls
  BY <1>7, <1>8, <1>9 DEF News
<1>11. ListsStateInv'
  BY <1>2, <1>3, <1>6 DEF ListsStateInv, CallState, PageState, Pairs
<1>12. CallInv'
  BY <1>2, <1>3, <1>6, UnusedTyped DEF CallInv, Proper
<1>13. BusyInv'
  <2> SUFFICES ASSUME list \in {"logs", "users"}, ~ takeover PROVE RowCalls \ {q} = {}
    BY <1>2, <1>9 DEF BusyInv
  <2> QED BY <1>7 DEF BusyInv
<1>14. LoadingIsBacked'
  <2>1. \A r \in Mine : call[r].kind = "list" => r \in Mine' /\ call'[r].kind = "list"
    BY <1>1, <1>3, <1>8
  <2>2. "token" \in excuse => "token" \in excuse'
    BY <1>2
  <2> QED BY <1>2, <1>6, <2>1, <2>2 DEF LoadingIsBacked
<1>15. ASSUME excuse = {}, ~ Overtakes(q) PROVE \A r \in Mine : <<r, q>> \notin ahead
  <2> SUFFICES ASSUME NEW r \in Mine, <<r, q>> \in ahead PROVE FALSE
    OBVIOUS
  <2>1. call[r].pc = "answered"
    BY <1>1, <1>7, <1>15 DEF OrderInv
  <2> QED BY <1>1, <1>15, <2>1 DEF Overtakes
<1>16. OrderInv'
  <2> SUFFICES ASSUME excuse = {}, ~ Overtakes(q) PROVE OrderInv'
    BY <1>2 DEF OrderInv
  <2>1. \A u, r \in Mine \ {q} :
          <<u, r>> \in ahead' /\ call'[r].pc = "answered" => call'[u].pc = "answered"
    BY <1>3, <1>7, <1>8 DEF OrderInv
  <2>2. \A u \in Queries : call'[u].pc = "answered" =>
          \A s \in call'[u].rows :
            table[s[1]] = s[2] \/ \E r \in News(s[1]) \ {q} : <<u, r>> \in ahead'
    <3> SUFFICES ASSUME NEW u \in Queries, call[u].pc = "answered", NEW s \in call[u].rows
                 PROVE  table[s[1]] = s[2] \/ \E r \in News(s[1]) \ {q} : <<u, r>> \in ahead'
      BY <1>9
    <3>1. <<u, q>> \notin ahead /\ u \in Calls \ {q}
      BY <1>7, <1>15
    <3>2. News(s[1]) \subseteq Calls
      BY <1>7, <1>10
    <3> QED BY <1>3, <3>1, <3>2 DEF OrderInv
  <2>3. \A j \in Rows : \A u \in News(j) \ {q} :
          table[j] = call'[u].value \/ \E r \in News(j) \ {q} : <<u, r>> \in ahead'
    <3> SUFFICES ASSUME NEW j \in Rows, NEW u \in News(j) \ {q}
                 PROVE  table[j] = call'[u].value \/ \E r \in News(j) \ {q} : <<u, r>> \in ahead'
      OBVIOUS
    <3>1. News(j) \subseteq Calls /\ u \in Mine \ {q}
      BY <1>7, <1>10
    <3>2. <<u, q>> \notin ahead /\ call'[u] = call[u]
      BY <1>8, <1>15, <3>1
    <3> QED BY <1>3, <3>1, <3>2 DEF OrderInv
  <2>4. Queries = {} => \A s \in shown : table[s[1]] = s[2] \/ News(s[1]) \ {q} # {}
    <3> SUFFICES ASSUME Queries = {}, NEW s \in shown
                 PROVE  table[s[1]] = s[2] \/ News(s[1]) \ {q} # {}
      OBVIOUS
    <3>1. CASE s = <<i, v>>
      <4>1. q \in News(i)
        BY <1>1, <1>4, <1>7 DEF News
      <4>2. <<q, q>> \notin ahead
        BY <1>7, <1>15
      <4>3. table[i] = v \/ \E r \in News(i) : <<q, r>> \in ahead
        BY <1>4, <4>1 DEF OrderInv
      <4> QED BY <3>1, <4>2, <4>3
    <3>2. CASE s \in page.shown /\ s[1] # i
      <4>1. q \notin News(s[1])
        BY <1>4, <3>2 DEF News
      <4> QED BY <3>2, <4>1 DEF OrderInv
    <3> QED BY <1>5, <3>1, <3>2
  <2> QED BY <1>2, <1>3, <1>6, <1>9, <1>10, <2>1, <2>2, <2>3, <2>4 DEF OrderInv
<1>17. FilterInv'
  <2>1. \A u, r \in Queries : <<u, r>> \in ahead' <=> <<u, r>> \in ahead
    BY <1>3, <1>7
  <2>2. excuse' = {} => excuse = {}
    BY <1>2
  <2> QED BY <1>2, <1>6, <1>9, <2>1, <2>2 DEF FilterInv
<1> QED BY <1>11, <1>12, <1>13, <1>14, <1>16, <1>17

\* A call fails, is answered in vain, or is given up.
LEMMA CallFailed == ASSUME ListsInv, NEW q \in Calls, AnswerError(q) PROVE ListsInv'
<1> USE DEF ListsInv
<1>1. /\ call[q].pc # "idle" /\ call[q].mine /\ excuse' = excuse \cup {"mishap"}
      /\ UNCHANGED <<list, table, takeover>>
  BY DEF AnswerError
<1>2. /\ call' \in [Calls -> CallState] /\ Proper(call'[q]) /\ ~ call'[q].mine
      /\ \A r \in Calls \ {q} : call'[r] = call[r]
      /\ ahead' \subseteq UnderWay' \X UnderWay'
      /\ \A r, s \in UnderWay' : <<r, s>> \in ahead' <=> r # s /\ <<s, r>> \notin ahead'
  <2>1. CASE Consume(q)
    BY <2>1, Consumed, UnusedTyped
  <2>2. CASE q \in Abandoned /\ call' = [call EXCEPT ![q].mine = FALSE] /\ UNCHANGED ahead
    <3> DEFINE new == [call[q] EXCEPT !.mine = FALSE]
    <3>1. /\ call[q] \in CallState /\ call[q].pc = "sent" /\ call[q].kind = "row"
          /\ call[q].row \in Rows /\ call[q].value \in Wanted(list)
      BY <2>2 DEF Abandoned, ListsStateInv, CallInv, Proper, Unused
    <3>2. /\ new \in CallState /\ ~ new.mine /\ new.pc = "sent" /\ new.kind = "row"
          /\ new.row = call[q].row /\ new.value = call[q].value
      BY <3>1 DEF CallState
    <3>3. Proper(new)
      BY <3>1, <3>2 DEF Proper
    <3>4. call' = [call EXCEPT ![q] = new]
      BY <2>2 DEF ListsStateInv
    <3> HIDE DEF new
    <3>5. /\ call' \in [Calls -> CallState] /\ call'[q] = new
          /\ \A r \in Calls \ {q} : call'[r] = call[r]
      BY <3>2, <3>4 DEF ListsStateInv
    <3>6. UnderWay' = UnderWay
      BY <3>1, <3>2, <3>5 DEF UnderWay
    <3> QED BY <2>2, <3>2, <3>3, <3>5, <3>6 DEF CallInv
  <2> QED BY <2>1, <2>2 DEF AnswerError
<1>3. Mine' = Mine \ {q} /\ \A r \in Mine \ {q} : call'[r] = call[r]
  BY <1>2 DEF Mine
<1>4. /\ page' \in PageState /\ page'.mounted = page.mounted /\ page'.filter = page.filter
      /\ page'.busy = (IF call[q].kind = "list" THEN page.busy ELSE None)
      /\ IF call[q].kind = "list" THEN ~ page'.loading ELSE page'.loading = page.loading
  BY DEF AnswerError, ListsStateInv, PageState
<1>5. call[q].kind \in {"list", "row"}
  BY <1>1 DEF CallInv, Proper, Unused
<1>6. RowCalls' = RowCalls \ {q} /\ \A r \in RowCalls \ {q} : call'[r] = call[r]
  BY <1>3 DEF RowCalls
<1>7. ListsStateInv'
  BY <1>1, <1>2, <1>4 DEF ListsStateInv, CallState, PageState, Pairs
<1>8. CallInv'
  BY <1>1, <1>2, <1>4 DEF CallInv, Proper
<1>9. BusyInv'
  <2> SUFFICES ASSUME list \in {"logs", "users"}, ~ takeover
               PROVE  /\ \A r \in RowCalls \ {q} : page'.busy = call'[r].row
                      /\ \A r, s \in RowCalls \ {q} : r = s
    BY <1>1, <1>6 DEF BusyInv
  <2>1. CASE call[q].kind = "list"
    BY <1>4, <1>6, <2>1 DEF BusyInv
  <2>2. CASE call[q].kind = "row"
    <3>1. q \in RowCalls
      BY <1>1, <2>2 DEF RowCalls, Mine
    <3> QED BY <3>1 DEF BusyInv
  <2> QED BY <1>5, <2>1, <2>2
<1>10. LoadingIsBacked'
  <2>1. CASE call[q].kind = "list"
    BY <1>4, <2>1 DEF LoadingIsBacked
  <2>2. CASE call[q].kind = "row"
    <3>1. \A r \in Mine : call[r].kind = "list" => r \in Mine' /\ call'[r].kind = "list"
      BY <1>3, <2>2
    <3> QED BY <1>1, <1>4, <2>2, <3>1 DEF LoadingIsBacked
  <2> QED BY <1>5, <2>1, <2>2
<1>11. OrderInv' /\ FilterInv'
  BY <1>1 DEF OrderInv, FilterInv
<1> QED BY <1>7, <1>8, <1>9, <1>10, <1>11

LEMMA ListsKept == ListsInv /\ [ListsNext]_listVars => ListsInv'
<1> SUFFICES ASSUME ListsInv, [ListsNext]_listVars PROVE ListsInv'
  OBVIOUS
<1>1. CASE UNCHANGED listVars
  <2> USE <1>1 DEF listVars, ListsInv
  <2>1. Mine' = Mine /\ UnderWay' = UnderWay /\ RowCalls' = RowCalls /\ Queries' = Queries
        /\ \A i : News(i)' = News(i)
    BY DEF Queries, News, RowCalls, Mine, UnderWay
  <2>2. ListsStateInv'
    BY DEF ListsStateInv, PageState, CallState, Pairs
  <2>3. CallInv' /\ BusyInv'
    BY <2>1 DEF CallInv, Proper, BusyInv
  <2>4. OrderInv' /\ FilterInv' /\ LoadingIsBacked'
    BY <2>1 DEF OrderInv, FilterInv, LoadingIsBacked
  <2> QED BY <2>2, <2>3, <2>4
<1>2. CASE Visit
  BY <1>2, ListFiltered, ListLeft, RowChanged DEF Visit
<1>3. ASSUME NEW q \in Calls, Network(q) PROVE ListsInv'
  BY <1>3, ListServed, RowServed, ListAnswered, RowAnswered, CallFailed DEF Network
<1> QED BY <1>1, <1>2, <1>3, ListElsewhere DEF ListsNext

LEMMA ListsInvariant == ListsSpec => []ListsInv
BY ListsKept, ListsInitially, PTL DEF ListsSpec

\* For every number of calls in flight and of rows: when what the page asked for
\* was served and answered in the order it was sent, the screen shows the rows as
\* they are, and those of the tab that is marked.
THEOREM QuietPagesAreTrue == ListsSpec => []QuietPageIsTrue
<1>1. ListsInv => QuietPageIsTrue
  <2> SUFFICES ASSUME ListsInv, Quiet, excuse = {}
               PROVE  /\ \A s \in Screen : table[s[1]] = s[2]
                      /\ page.asked = page.filter.status
    BY DEF QuietPageIsTrue
  <2>1. Queries = {} /\ \A i : News(i) = {}
    BY DEF Quiet, Queries, News, RowCalls
  <2>2. Screen \subseteq page.shown
    BY DEF Screen, ShownCases, ShownLogs, ShownContacts, ShownUsers, ShownProperties, OnScreen
  <2> QED BY <2>1, <2>2 DEF ListsInv, OrderInv, FilterInv, Quiet
<1> QED BY ListsInvariant, <1>1, PTL

\* The one slot of a page keeps a second call from a row that has one, until
\* another row takes the slot.
THEOREM SlotsGuardRows == ListsSpec => []SlotGuardsRow
<1>1. ListsInv => SlotGuardsRow
  BY DEF ListsInv, BusyInv, SlotGuardsRow
<1> QED BY ListsInvariant, <1>1, PTL

\* No page says for ever that it is loading: a list is under way, or there was no
\* token and the page is one of the three that do not say so.
THEOREM LoadingIsAlwaysBacked == ListsSpec => []LoadingIsBacked
BY ListsInvariant, PTL DEF ListsInv

\* A page asks for its rows: those it shows stay, the call brings none yet.
LEMMA OnceReloaded ==
  ASSUME ListsStateInv, OnceInv, NEW q \in Calls, NEW p, Reload(q, p),
         "shown" \in DOMAIN p, OneEach(p.shown)
  PROVE  OnceInv'
<1>1. page' = [p EXCEPT !.loading = TRUE] \/ page' = p \/ page' = [p EXCEPT !.loading = FALSE]
  BY DEF Reload, LoadCases, LoadContacts, LoadLogs, LoadUsers, LoadProperties, Load, NoToken
<1>2. page'.shown = p.shown
  BY <1>1
<1>3. call' = call \/ \E f : Ask(q, f)
  BY DEF Reload, LoadCases, LoadContacts, LoadLogs, LoadUsers, LoadProperties, Load, NoToken
<1>4. \A r \in Calls : call'[r].rows = call[r].rows \/ call'[r].rows = {}
  BY <1>3 DEF Ask, ListsStateInv, Unused
<1> QED BY <1>2, <1>4 DEF OnceInv, OneEach

\* No step lists a row twice.
LEMMA OnceKept ==
  ASSUME ListsInv, OnceInv, [ListsNext]_listVars
  PROVE  OnceInv'
<1> USE DEF ListsInv
<1>t. page \in PageState /\ call \in [Calls -> CallState]
  BY DEF ListsStateInv
<1>k. ASSUME page'.shown = page.shown \/ page'.shown = {},
             \A q \in Calls : call'[q].rows = call[q].rows \/ call'[q].rows = {}
      PROVE  OnceInv'
  BY <1>k DEF OnceInv, OneEach
<1>c. ASSUME NEW q \in Calls, Consume(q)
      PROVE  \A r \in Calls : call'[r].rows = call[r].rows \/ call'[r].rows = {}
  BY <1>c, <1>t DEF Consume, Unused
<1>1. CASE UNCHANGED listVars
  BY <1>1, <1>k DEF listVars
<1>2. ASSUME NEW q \in Calls, OpenList(q) PROVE OnceInv'
  <2> DEFINE p == [Away EXCEPT !.mounted = TRUE, !.filter = InitialFilter(list)]
  <2>1. "shown" \in DOMAIN p /\ p.shown = {}
    BY DEF Away
  <2>2. Reload(q, p)
    BY <1>2 DEF OpenList
  <2> HIDE DEF p
  <2> QED BY <2>1, <2>2, OnceReloaded DEF OneEach
<1>3. CASE LeaveList
  <2>1. page'.shown = {}
    BY <1>3 DEF LeaveList, Away
  <2>2. \A q \in Calls : call'[q].rows = call[q].rows \/ call'[q].rows = {}
    <3>1. TAKE q \in Calls
    <3>2. call'[q] = [call[q] EXCEPT !.mine = FALSE] \/ call'[q] = Unused
      BY <1>3 DEF LeaveList
    <3>3. call[q] \in CallState
      BY <1>t
    <3> QED BY <3>2, <3>3 DEF CallState, Unused
  <2> QED BY <1>k, <2>1, <2>2
<1>4. ASSUME NEW q \in Calls, NEW p, Reload(q, p), "shown" \in DOMAIN p, p.shown = page.shown
      PROVE  OnceInv'
  BY <1>4, OnceReloaded DEF OnceInv
<1>5. ASSUME NEW q \in Calls, NEW s, CaseTab(q, s) \/ LogTab(q, s) \/ PropertyTab(q, s)
      PROVE  OnceInv'
  <2> DEFINE p == [page EXCEPT !.filter.status = s]
  <2>1. "shown" \in DOMAIN p /\ p.shown = page.shown
    BY <1>t DEF PageState
  <2>2. Reload(q, p)
    BY <1>5 DEF CaseTab, LogTab, PropertyTab, ChooseTab
  <2> HIDE DEF p
  <2> QED BY <1>4, <2>1, <2>2
<1>6. ASSUME NEW q \in Calls, NEW f, SetServiceType(q, f) PROVE OnceInv'
  <2> DEFINE p == [page EXCEPT !.filter.form = f]
  <2>1. "shown" \in DOMAIN p /\ p.shown = page.shown
    BY <1>t DEF PageState
  <2>2. Reload(q, p)
    BY <1>6 DEF SetServiceType
  <2> HIDE DEF p
  <2> QED BY <1>4, <2>1, <2>2
<1>7. ASSUME NEW f, EditForm(f) PROVE OnceInv'
  <2>1. page'.shown = page.shown /\ call' = call
    BY <1>7, <1>t DEF EditForm, PageState
  <2> QED BY <1>k, <2>1
<1>8. ASSUME NEW q \in Calls, SubmitForm(q) PROVE OnceInv'
  <2>1. "shown" \in DOMAIN page
    BY <1>t DEF PageState
  <2> QED BY <1>4, <1>8, <2>1 DEF SubmitForm
<1>9. ASSUME NEW q \in Calls, NEW i, \/ Resend(q, i) \/ MarkHandled(q, i)
                                     \/ (\E role \in {"STAFF", "ADMIN"} : ChangeRole(q, i, role))
                                     \/ ToggleActive(q, i) \/ Archive(q, i)
      PROVE  OnceInv'
  <2>1. page' = page \/ page' = [page EXCEPT !.busy = i]
    BY <1>9 DEF Resend, MarkHandled, ChangeRole, ToggleActive, Archive
  <2>2. page'.shown = page.shown
    BY <1>t, <2>1 DEF PageState
  <2>3. \E v : Change(q, i, v)
    BY <1>9 DEF Resend, MarkHandled, ChangeRole, ToggleActive, Archive
  <2>4. \A r \in Calls : call'[r].rows = call[r].rows \/ call'[r].rows = {}
    BY <1>t, <2>3 DEF Change, Unused
  <2> QED BY <1>k, <2>2, <2>4
<1>10. CASE Visit
  BY <1>2, <1>3, <1>5, <1>6, <1>7, <1>8, <1>9, <1>10 DEF Visit
<1>11. ASSUME NEW q \in Calls, ServeList(q) PROVE OnceInv'
  <2>1. OneEach(Found(call[q].filter))
    BY DEF OneEach, Found
  <2>2. /\ call' = [call EXCEPT ![q].pc = "answered", ![q].rows = Found(call[q].filter)]
        /\ page' = page
    BY <1>11 DEF ServeList
  <2> DEFINE found == Found(call[q].filter)
  <2> HIDE DEF found
  <2>3. call' = [call EXCEPT ![q].pc = "answered", ![q].rows = found]
    BY <2>2 DEF found
  <2>4. \A r \in Calls : call'[r].rows = IF r = q THEN found ELSE call[r].rows
    BY <1>t, <2>3 DEF CallState
  <2> QED BY <2>1, <2>2, <2>4 DEF OnceInv, found
<1>12. ASSUME NEW q \in Calls, ServeRow(q) PROVE OnceInv'
  <2>1. page' = page
    BY <1>12 DEF ServeRow
  <2>2. CASE Consume(q)
    BY <1>c, <1>k, <2>1, <2>2
  <2>3. CASE \E v : call' = [call EXCEPT ![q].pc = "answered", ![q].value = v]
    <3>1. \A r \in Calls : call'[r].rows = call[r].rows
      BY <1>t, <2>3 DEF CallState
    <3> QED BY <1>k, <2>1, <3>1
  <2> QED BY <1>12, <2>2, <2>3 DEF ServeRow
<1>13. ASSUME NEW q \in Calls, AnswerList(q) PROVE OnceInv'
  <2>1. page'.shown = call[q].rows
    BY <1>13, <1>t DEF AnswerList, PageState
  <2>2. \A r \in Calls : call'[r].rows = call[r].rows \/ call'[r].rows = {}
    BY <1>13, <1>c DEF AnswerList
  <2> QED BY <2>1, <2>2 DEF OnceInv, OneEach
<1>14. ASSUME NEW q \in Calls, AnswerRow(q) PROVE OnceInv'
  <2> DEFINE i == call[q].row
             v == call[q].value
  <2>1. \/ page'.shown = {s \in page.shown : s[1] # i}
        \/ page'.shown = Replaced(i, v)
    BY <1>14, <1>t DEF AnswerRow, PageState
  <2>2. \A r \in Calls : call'[r].rows = call[r].rows \/ call'[r].rows = {}
    BY <1>14, <1>c DEF AnswerRow
  <2>3. OneEach({s \in page.shown : s[1] # i})
    BY DEF OnceInv, OneEach
  <2>4. OneEach(Replaced(i, v))
    BY DEF OnceInv, OneEach, Replaced
  <2> QED BY <2>1, <2>2, <2>3, <2>4 DEF OnceInv, OneEach
<1>15. ASSUME NEW q \in Calls, AnswerError(q) PROVE OnceInv'
  <2>1. page' = [page EXCEPT !.loading = FALSE] \/ page' = [page EXCEPT !.busy = None]
    BY <1>15 DEF AnswerError
  <2>2. page'.shown = page.shown
    BY <1>t, <2>1 DEF PageState
  <2>3. Consume(q) \/ call' = [call EXCEPT ![q].mine = FALSE]
    BY <1>15 DEF AnswerError
  <2>4. \A r \in Calls : call'[r].rows = call[r].rows \/ call'[r].rows = {}
    BY <1>c, <1>t, <2>3 DEF CallState
  <2> QED BY <1>k, <2>2, <2>4
<1>16. ASSUME NEW i, NEW v, Elsewhere(i, v) PROVE OnceInv'
  BY <1>16, <1>k DEF Elsewhere
<1> QED BY <1>1, <1>10, <1>11, <1>12, <1>13, <1>14, <1>15, <1>16 DEF ListsNext, Network

LEMMA OnceInitially == ListsInit => OnceInv
BY DEF ListsInit, OnceInv, OneEach, Away, Unused

LEMMA ListsAreTyped == ListsInv /\ OnceInv => ListsTypeOK
<1> SUFFICES ASSUME ListsInv, OnceInv PROVE ListsTypeOK
  OBVIOUS
<1> USE DEF ListsInv
<1>1. ASSUME NEW q \in Calls
      PROVE  call[q].pc \in {"idle", "sent", "answered"} /\ call[q].rows \subseteq Rows \X Values(list)
  BY DEF ListsStateInv, CallState, Pairs
<1>2. page \in [mounted : BOOLEAN, filter : Filters(list) \cup {None},
                shown : SUBSET (Rows \X Values(list)),
                asked : Tabs(list) \cup {None}, loading : BOOLEAN, busy : Rows \cup {None}]
  BY DEF ListsStateInv, PageState, Pairs
<1> QED BY <1>1, <1>2 DEF ListsTypeOK, ListsStateInv, CallInv, OnceInv

-----------------------------------------------------------------------------
(* Lists without repetition and the order of their elements *)

\* The place of an element in the first part of a list, or behind it.
LEMMA ConcatOrder ==
  ASSUME NEW S, NEW s \in Seq(S), NEW t \in Seq(S)
  PROVE  /\ s \o t \in Seq(S)
         /\ ToSet(s \o t) = ToSet(s) \cup ToSet(t)
         /\ \A x, y : Before(s \o t, x, y) <=>
              \/ Before(s, x, y) \/ Before(t, x, y)
              \/ (x \in ToSet(s) /\ y \in ToSet(t))
         /\ IsInjective(s) /\ IsInjective(t) /\ ToSet(s) \cap ToSet(t) = {}
              => IsInjective(s \o t)
<1> DEFINE u == s \o t
<1>1. /\ u \in Seq(S) /\ Len(u) = Len(s) + Len(t)
      /\ Len(s) \in Nat /\ Len(t) \in Nat
      /\ DOMAIN s = 1 .. Len(s) /\ DOMAIN t = 1 .. Len(t) /\ DOMAIN u = 1 .. Len(u)
      /\ \A i \in DOMAIN s : i \in DOMAIN u /\ u[i] = s[i]
      /\ \A i \in DOMAIN t : Len(s) + i \in DOMAIN u /\ u[Len(s) + i] = t[i]
      /\ \A i \in DOMAIN u : \/ i \in DOMAIN s /\ u[i] = s[i]
                             \/ i - Len(s) \in DOMAIN t /\ u[i] = t[i - Len(s)]
  <2>1. /\ u \in Seq(S) /\ Len(u) = Len(s) + Len(t)
        /\ \A i \in 1 .. Len(s) + Len(t) :
             u[i] = IF i <= Len(s) THEN s[i] ELSE t[i - Len(s)]
    BY ConcatProperties
  <2>2. /\ Len(s) \in Nat /\ Len(t) \in Nat
        /\ DOMAIN s = 1 .. Len(s) /\ DOMAIN t = 1 .. Len(t)
    BY LenProperties
  <2>3. DOMAIN u = 1 .. Len(u)
    BY <2>1, LenProperties
  <2> HIDE DEF u
  <2> QED BY <2>1, <2>2, <2>3
<1> HIDE DEF u
<1>2. ToSet(u) = ToSet(s) \cup ToSet(t)
  <2>1. ToSet(s) \cup ToSet(t) \subseteq ToSet(u)
    BY <1>1 DEF ToSet
  <2>2. ToSet(u) \subseteq ToSet(s) \cup ToSet(t)
    BY <1>1 DEF ToSet
  <2> QED BY <2>1, <2>2
<1>3. ASSUME NEW x, NEW y
      PROVE Before(u, x, y) <=> \/ Before(s, x, y) \/ Before(t, x, y)
                                \/ (x \in ToSet(s) /\ y \in ToSet(t))
  <2>1. ASSUME Before(u, x, y)
        PROVE \/ Before(s, x, y) \/ Before(t, x, y) \/ (x \in ToSet(s) /\ y \in ToSet(t))
    <3>1. PICK i \in DOMAIN u, j \in DOMAIN u : i < j /\ u[i] = x /\ u[j] = y
      BY <2>1 DEF Before
    <3>2. CASE j \in DOMAIN s /\ u[j] = s[j]
      BY <1>1, <3>1, <3>2 DEF Before
    <3>3. CASE i - Len(s) \in DOMAIN t /\ u[i] = t[i - Len(s)]
      <4>1. j - Len(s) \in DOMAIN t /\ u[j] = t[j - Len(s)]
        BY <1>1, <3>1, <3>3
      <4>2. i - Len(s) < j - Len(s)
        BY <1>1, <3>1
      <4> QED BY <3>1, <3>3, <4>1, <4>2 DEF Before
    <3>4. CASE /\ i \in DOMAIN s /\ u[i] = s[i]
               /\ j - Len(s) \in DOMAIN t /\ u[j] = t[j - Len(s)]
      BY <3>1, <3>4 DEF ToSet
    <3> QED BY <1>1, <3>1, <3>2, <3>3, <3>4
  <2>2. CASE Before(s, x, y)
    BY <1>1, <2>2 DEF Before
  <2>3. ASSUME Before(t, x, y) PROVE Before(u, x, y)
    <3>1. PICK i \in DOMAIN t, j \in DOMAIN t : i < j /\ t[i] = x /\ t[j] = y
      BY <2>3 DEF Before
    <3>2. Len(s) + i < Len(s) + j
      BY <1>1, <3>1
    <3> QED BY <1>1, <3>1, <3>2 DEF Before
  <2>4. ASSUME x \in ToSet(s), y \in ToSet(t) PROVE Before(u, x, y)
    <3>1. PICK i \in DOMAIN s, j \in DOMAIN t : s[i] = x /\ t[j] = y
      BY <2>4 DEF ToSet
    <3>2. i < Len(s) + j
      BY <1>1, <3>1
    <3> QED BY <1>1, <3>1, <3>2 DEF Before
  <2> QED BY <2>1, <2>2, <2>3, <2>4
<1>4. ASSUME IsInjective(s), IsInjective(t), ToSet(s) \cap ToSet(t) = {}
      PROVE IsInjective(u)
  <2>1. SUFFICES ASSUME NEW i \in DOMAIN u, NEW j \in DOMAIN u, u[i] = u[j]
                 PROVE i = j
    BY DEF IsInjective
  <2>2. CASE i \in DOMAIN s /\ u[i] = s[i] /\ j \in DOMAIN s /\ u[j] = s[j]
    BY <1>4, <2>1, <2>2 DEF IsInjective
  <2>3. CASE /\ i - Len(s) \in DOMAIN t /\ u[i] = t[i - Len(s)]
             /\ j - Len(s) \in DOMAIN t /\ u[j] = t[j - Len(s)]
    <3>1. i - Len(s) = j - Len(s)
      BY <1>4, <2>1, <2>3 DEF IsInjective
    <3> QED BY <1>1, <3>1
  <2>4. CASE /\ i \in DOMAIN s /\ u[i] = s[i]
             /\ j - Len(s) \in DOMAIN t /\ u[j] = t[j - Len(s)]
    BY <1>4, <2>1, <2>4 DEF ToSet
  <2>5. CASE /\ j \in DOMAIN s /\ u[j] = s[j]
             /\ i - Len(s) \in DOMAIN t /\ u[i] = t[i - Len(s)]
    BY <1>4, <2>1, <2>5 DEF ToSet
  <2> QED BY <1>1, <2>1, <2>2, <2>3, <2>4, <2>5
<1> QED BY <1>1, <1>2, <1>3, <1>4 DEF u

LEMMA SingleOrder ==
  ASSUME NEW S, NEW z \in S
  PROVE  /\ <<z>> \in Seq(S) /\ ToSet(<<z>>) = {z} /\ IsInjective(<<z>>)
         /\ \A x, y : ~ Before(<<z>>, x, y)
BY DEF ToSet, IsInjective, Before

LEMMA AppendOrder ==
  ASSUME NEW S, NEW s \in Seq(S), NEW z \in S
  PROVE  /\ Append(s, z) \in Seq(S)
         /\ ToSet(Append(s, z)) = ToSet(s) \cup {z}
         /\ \A x, y : Before(Append(s, z), x, y) <=>
              Before(s, x, y) \/ (x \in ToSet(s) /\ y = z)
         /\ IsInjective(s) /\ z \notin ToSet(s) => IsInjective(Append(s, z))
<1>1. Append(s, z) = s \o <<z>>
  BY AppendIsConcat
<1>2. <<z>> \in Seq(S)
  OBVIOUS
<1>3. /\ ToSet(<<z>>) = {z} /\ IsInjective(<<z>>)
      /\ \A x, y : ~ Before(<<z>>, x, y)
  BY SingleOrder
<1>4. /\ s \o <<z>> \in Seq(S)
      /\ ToSet(s \o <<z>>) = ToSet(s) \cup ToSet(<<z>>)
      /\ \A x, y : Before(s \o <<z>>, x, y) <=>
           \/ Before(s, x, y) \/ Before(<<z>>, x, y)
           \/ (x \in ToSet(s) /\ y \in ToSet(<<z>>))
      /\ IsInjective(s) /\ IsInjective(<<z>>) /\ ToSet(s) \cap ToSet(<<z>>) = {}
           => IsInjective(s \o <<z>>)
  BY <1>2, ConcatOrder
<1> HIDE <1>2
<1> QED BY <1>1, <1>3, <1>4

\* Without takes one element out and leaves the order of the others.
LEMMA WithoutOrder ==
  ASSUME NEW S, NEW s \in Seq(S), IsInjective(s), NEW z
  PROVE  /\ Without(s, z) \in Seq(S) /\ IsInjective(Without(s, z))
         /\ ToSet(Without(s, z)) = ToSet(s) \ {z}
         /\ \A x, y : Before(Without(s, z), x, y) <=>
              Before(s, x, y) /\ x # z /\ y # z
<1>d. Len(s) \in Nat /\ DOMAIN s = 1 .. Len(s)
  BY LenProperties
<1>1. CASE z \notin ToSet(s)
  BY <1>1 DEF Without, ToSet, Before
<1>2. CASE z \in ToSet(s)
  <2>1. PICK k \in 1 .. Len(s) : s[k] = z /\ Without(s, z) = RemoveAt(s, k)
    BY <1>d, <1>2 DEF ToSet, Without
  <2> DEFINE a == SubSeq(s, 1, k - 1)
             b == SubSeq(s, k + 1, Len(s))
  <2>2. Without(s, z) = a \o b
    BY <2>1 DEF RemoveAt
  <2>3. /\ a \in Seq(S) /\ Len(a) = k - 1 /\ DOMAIN a = 1 .. k - 1
        /\ \A i \in 1 .. k - 1 : a[i] = s[i]
    <3>1. \A i \in 1 .. k - 1 : s[i] \in S
      BY <1>d, <2>1
    <3>2. a \in Seq(S) /\ Len(a) = k - 1
      BY <2>1, <3>1
    <3>3. \A i \in 1 .. k - 1 : a[i] = s[i]
      BY <2>1, <3>2
    <3> QED BY <3>2, <3>3, LenProperties
  <2>4. /\ b \in Seq(S) /\ Len(b) = Len(s) - k /\ DOMAIN b = 1 .. Len(s) - k
        /\ \A i \in 1 .. Len(s) - k : b[i] = s[k + i]
    <3>1. \A i \in k + 1 .. Len(s) : s[i] \in S
      BY <1>d, <2>1
    <3>2. k + 1 \in Int /\ Len(s) \in Int
      BY <1>d, <2>1
    <3>3. /\ b \in Seq(S) /\ Len(b) = IF k + 1 <= Len(s) THEN Len(s) - (k + 1) + 1 ELSE 0
          /\ \A i \in 1 .. Len(s) - (k + 1) + 1 : b[i] = s[k + 1 + i - 1]
      BY <3>1, <3>2, SubSeqProperties
    <3>4. Len(b) = Len(s) - k
      <4>1. PICK n \in Nat : n = Len(s) /\ k \in 1 .. n
        BY <1>d
      <4>2. IF k + 1 <= n THEN n - (k + 1) + 1 = n - k ELSE 0 = n - k
        BY <4>1
      <4> QED BY <3>3, <4>1, <4>2
    <3>5. \A i \in 1 .. Len(s) - k : b[i] = s[k + i]
      <4>1. TAKE i \in 1 .. Len(s) - k
      <4>2. i \in 1 .. Len(s) - (k + 1) + 1 /\ k + 1 + i - 1 = k + i
        BY <1>d
      <4> HIDE DEF b
      <4> QED BY <3>3, <4>2
    <3> QED BY <3>3, <3>4, <3>5, LenProperties
  <2> HIDE DEF a, b
  <2>5. \A i \in DOMAIN s : \/ i \in DOMAIN a /\ a[i] = s[i] /\ i < k
                            \/ i = k
                            \/ i - k \in DOMAIN b /\ b[i - k] = s[i] /\ i > k
    BY <1>d, <2>1, <2>3, <2>4
  <2>6. ToSet(a) \cup ToSet(b) = ToSet(s) \ {z}
    <3>1. \A i \in DOMAIN a : i \in DOMAIN s /\ i # k /\ a[i] = s[i]
      BY <1>d, <2>1, <2>3
    <3>2. \A i \in DOMAIN b : k + i \in DOMAIN s /\ k + i # k /\ b[i] = s[k + i]
      BY <1>d, <2>1, <2>4
    <3>3. \A i \in DOMAIN s : i # k => s[i] # z
      BY <1>d, <2>1 DEF IsInjective
    <3>4. ToSet(a) \subseteq ToSet(s) \ {z}
      BY <3>1, <3>3 DEF ToSet
    <3>5. ToSet(b) \subseteq ToSet(s) \ {z}
      BY <3>2, <3>3 DEF ToSet
    <3>6. ToSet(s) \ {z} \subseteq ToSet(a) \cup ToSet(b)
      <4>1. SUFFICES ASSUME NEW i \in DOMAIN s, s[i] # z
                     PROVE s[i] \in ToSet(a) \cup ToSet(b)
        BY DEF ToSet
      <4> QED BY <2>1, <2>5, <4>1 DEF ToSet
    <3> QED BY <3>4, <3>5, <3>6
  <2>7. ToSet(a) \cap ToSet(b) = {} /\ IsInjective(a) /\ IsInjective(b)
    <3>1. \A i \in DOMAIN a, j \in DOMAIN b : a[i] # b[j]
      <4>1. TAKE i \in DOMAIN a, j \in DOMAIN b
      <4>2. i \in DOMAIN s /\ k + j \in DOMAIN s /\ i # k + j
        BY <1>d, <2>1, <2>3, <2>4
      <4>3. a[i] = s[i] /\ b[j] = s[k + j]
        BY <2>3, <2>4
      <4> QED BY <4>2, <4>3 DEF IsInjective
    <3>2. IsInjective(a)
      BY <1>d, <2>1, <2>3 DEF IsInjective
    <3>3. IsInjective(b)
      <4>1. SUFFICES ASSUME NEW i \in DOMAIN b, NEW j \in DOMAIN b, b[i] = b[j]
                     PROVE i = j
        BY DEF IsInjective
      <4>2. k + i \in DOMAIN s /\ k + j \in DOMAIN s /\ s[k + i] = s[k + j]
        BY <1>d, <2>1, <2>4, <4>1
      <4>3. k + i = k + j
        BY <4>2 DEF IsInjective
      <4> QED BY <2>1, <2>4, <4>3
    <3> QED BY <3>1, <3>2, <3>3 DEF ToSet
  <2>8. ASSUME NEW x, NEW y
        PROVE (\/ Before(a, x, y) \/ Before(b, x, y) \/ (x \in ToSet(a) /\ y \in ToSet(b)))
              <=> Before(s, x, y) /\ x # z /\ y # z
    <3>1. ASSUME Before(s, x, y), x # z, y # z
          PROVE \/ Before(a, x, y) \/ Before(b, x, y) \/ (x \in ToSet(a) /\ y \in ToSet(b))
      <4>1. PICK i \in DOMAIN s, j \in DOMAIN s : i < j /\ s[i] = x /\ s[j] = y
        BY <3>1 DEF Before
      <4>2. CASE j \in DOMAIN a /\ a[j] = s[j] /\ j < k
        BY <1>d, <2>1, <2>3, <4>1, <4>2 DEF Before
      <4>3. CASE i - k \in DOMAIN b /\ b[i - k] = s[i] /\ i > k
        <5>1. j - k \in DOMAIN b /\ b[j - k] = s[j] /\ i - k < j - k
          BY <1>d, <2>1, <2>5, <4>1, <4>3
        <5> QED BY <4>1, <4>3, <5>1 DEF Before
      <4>4. CASE i \in DOMAIN a /\ a[i] = s[i] /\ j - k \in DOMAIN b /\ b[j - k] = s[j]
        BY <4>1, <4>4 DEF ToSet
      <4> QED BY <1>d, <2>1, <2>5, <3>1, <4>1, <4>2, <4>3, <4>4
    <3>2. \A i \in DOMAIN s : s[i] = z => i = k
      BY <1>d, <2>1 DEF IsInjective
    <3>3. ASSUME Before(a, x, y) PROVE Before(s, x, y) /\ x # z /\ y # z
      <4>1. PICK i \in DOMAIN a, j \in DOMAIN a : i < j /\ a[i] = x /\ a[j] = y
        BY <3>3 DEF Before
      <4> QED BY <1>d, <2>1, <2>3, <3>2, <4>1 DEF Before
    <3>4. ASSUME Before(b, x, y) PROVE Before(s, x, y) /\ x # z /\ y # z
      <4>1. PICK i \in DOMAIN b, j \in DOMAIN b : i < j /\ b[i] = x /\ b[j] = y
        BY <3>4 DEF Before
      <4>2. /\ k + i \in DOMAIN s /\ k + j \in DOMAIN s /\ k + i < k + j
            /\ k + i # k /\ k + j # k /\ s[k + i] = x /\ s[k + j] = y
        BY <1>d, <2>1, <2>4, <4>1
      <4> QED BY <3>2, <4>2 DEF Before
    <3>5. ASSUME x \in ToSet(a), y \in ToSet(b) PROVE Before(s, x, y) /\ x # z /\ y # z
      <4>1. PICK i \in DOMAIN a, j \in DOMAIN b : a[i] = x /\ b[j] = y
        BY <3>5 DEF ToSet
      <4>2. /\ i \in DOMAIN s /\ k + j \in DOMAIN s /\ i < k + j
            /\ i # k /\ k + j # k /\ s[i] = x /\ s[k + j] = y
        BY <1>d, <2>1, <2>3, <2>4, <4>1
      <4> QED BY <3>2, <4>2 DEF Before
    <3> QED BY <3>1, <3>3, <3>4, <3>5
  <2> QED BY <2>2, <2>3, <2>4, <2>6, <2>7, <2>8, ConcatOrder
<1> QED BY <1>1, <1>2

\* The parts of a list without repetition have none and no element in common.
LEMMA PartsInjective ==
  ASSUME NEW S, NEW s \in Seq(S), NEW t \in Seq(S), IsInjective(s \o t)
  PROVE  IsInjective(s) /\ IsInjective(t) /\ ToSet(s) \cap ToSet(t) = {}
<1> DEFINE u == s \o t
<1>1. /\ Len(s) \in Nat /\ Len(t) \in Nat
      /\ DOMAIN s = 1 .. Len(s) /\ DOMAIN t = 1 .. Len(t)
      /\ DOMAIN u = 1 .. Len(s) + Len(t)
      /\ \A i \in 1 .. Len(s) + Len(t) :
           u[i] = IF i <= Len(s) THEN s[i] ELSE t[i - Len(s)]
  BY ConcatProperties, LenProperties
<1>2. IsInjective(u)
  OBVIOUS
<1> HIDE DEF u
<1>3. \A i \in DOMAIN s : i \in DOMAIN u /\ u[i] = s[i]
  BY <1>1
<1>4. \A i \in DOMAIN t : Len(s) + i \in DOMAIN u /\ u[Len(s) + i] = t[i]
  <2>1. TAKE i \in DOMAIN t
  <2>2. Len(s) + i \in 1 .. Len(s) + Len(t) /\ ~ (Len(s) + i <= Len(s)) /\ Len(s) + i - Len(s) = i
    BY <1>1
  <2> QED BY <1>1, <2>2
<1>5. IsInjective(s)
  BY <1>2, <1>3 DEF IsInjective
<1>6. IsInjective(t)
  <2>1. SUFFICES ASSUME NEW i \in DOMAIN t, NEW j \in DOMAIN t, t[i] = t[j] PROVE i = j
    BY DEF IsInjective
  <2>2. Len(s) + i = Len(s) + j
    BY <1>2, <1>4, <2>1 DEF IsInjective
  <2> QED BY <1>1, <2>2
<1>7. ASSUME NEW i \in DOMAIN s, NEW j \in DOMAIN t PROVE s[i] # t[j]
  <2>1. i # Len(s) + j
    BY <1>1
  <2> QED BY <1>2, <1>3, <1>4, <2>1 DEF IsInjective
<1> QED BY <1>5, <1>6, <1>7 DEF ToSet

\* A picture that is dragged elsewhere is still the same list otherwise.
LEMMA MovedSame ==
  ASSUME NEW s \in Distinct, NEW from \in DOMAIN s, NEW to \in DOMAIN s
  PROVE  Moved(s, from, to) \in Distinct /\ ToSet(Moved(s, from, to)) = ToSet(s)
<1>d. /\ s \in Seq(Pictures) /\ IsInjective(s) /\ Len(s) \in Nat /\ DOMAIN s = 1 .. Len(s)
      /\ s[from] \in Pictures
  BY LenProperties, ElementOfSeq DEF Distinct
<1> DEFINE e == s[from]
           r == RemoveAt(s, from)
<1>1. r = Without(s, e)
  <2>1. \A k \in DOMAIN s : s[k] = e => k = from
    BY <1>d DEF IsInjective
  <2> QED BY <2>1 DEF Without, ToSet
<1>2. r \in Seq(Pictures) /\ IsInjective(r) /\ ToSet(r) = ToSet(s) \ {e}
  BY <1>1, <1>d, WithoutOrder
<1>3. Len(r) = Len(s) - 1
  <2>1. \A i \in 1 .. from - 1 : s[i] \in Pictures
    BY <1>d, ElementOfSeq
  <2>2. \A i \in from + 1 .. Len(s) : s[i] \in Pictures
    BY <1>d, ElementOfSeq
  <2>3. 1 \in Int /\ from - 1 \in Int /\ from + 1 \in Int /\ Len(s) \in Int
    BY <1>d
  <2> DEFINE a == SubSeq(s, 1, from - 1)
             b == SubSeq(s, from + 1, Len(s))
  <2>4. a \in Seq(Pictures) /\ Len(a) = IF 1 <= from - 1 THEN from - 1 - 1 + 1 ELSE 0
    BY <2>1, <2>3, SubSeqProperties
  <2>5. b \in Seq(Pictures) /\ Len(b) = IF from + 1 <= Len(s) THEN Len(s) - (from + 1) + 1 ELSE 0
    BY <2>2, <2>3, SubSeqProperties
  <2>6. Len(a \o b) = Len(a) + Len(b)
    BY <2>4, <2>5, ConcatProperties
  <2>7. r = a \o b
    BY DEF RemoveAt
  <2> HIDE DEF a, b, r
  <2>8. PICK n \in Nat : n = Len(s) /\ from \in 1 .. n
    BY <1>d
  <2>9. Len(a) = from - 1
    BY <2>4, <2>8
  <2>10. Len(b) = n - from
    <3>1. (IF from + 1 <= n THEN n - (from + 1) + 1 ELSE 0) = n - from
      BY <2>8
    <3> QED BY <2>5, <2>8, <3>1
  <2>11. from - 1 + (n - from) = n - 1
    BY <2>8
  <2> QED BY <2>6, <2>7, <2>8, <2>9, <2>10, <2>11
<1> HIDE DEF r
<1> DEFINE a == SubSeq(r, 1, to - 1)
           b == SubSeq(r, to, Len(r))
<1>4. a \in Seq(Pictures) /\ b \in Seq(Pictures) /\ a \o b = r
  <2>1. 1 \in 1 .. Len(r) + 1 /\ to - 1 \in 1 - 1 .. Len(r) /\ Len(r) \in to - 1 .. Len(r)
    BY <1>d, <1>3
  <2>2. SubSeq(r, 1, to - 1) \o SubSeq(r, to - 1 + 1, Len(r)) = SubSeq(r, 1, Len(r))
    BY <1>2, <2>1, ConcatAdjacentSubSeq
  <2>3. SubSeq(r, 1, Len(r)) = r
    BY <1>2, SubSeqFull
  <2>4. to - 1 + 1 = to
    BY <1>d
  <2>5. /\ \A i \in 1 .. to - 1 : r[i] \in Pictures
        /\ \A i \in to .. Len(r) : r[i] \in Pictures
    BY <1>d, <1>2, <1>3, ElementOfSeq
  <2>6. to - 1 \in Int /\ to \in Int /\ Len(r) \in Int /\ 1 \in Int
    BY <1>d, <1>3
  <2>7. a \in Seq(Pictures)
    BY <2>5, <2>6, SubSeqProperties
  <2>8. b \in Seq(Pictures)
    BY <2>5, <2>6, SubSeqProperties
  <2> QED BY <2>2, <2>3, <2>4, <2>7, <2>8
<1>5. Moved(s, from, to) = (a \o <<e>>) \o b
  BY DEF Moved, InsertAt, r
<1> HIDE DEF a, b, e
<1>6. IsInjective(a) /\ IsInjective(b) /\ ToSet(a) \cap ToSet(b) = {}
  BY <1>2, <1>4, PartsInjective
<1>7. ToSet(a) \cup ToSet(b) = ToSet(s) \ {e}
  BY <1>2, <1>4, ConcatOrder
<1>8. e \in Pictures /\ e \in ToSet(s)
  BY <1>d DEF e, ToSet
<1>9. <<e>> \in Seq(Pictures) /\ ToSet(<<e>>) = {e} /\ IsInjective(<<e>>)
  BY <1>8, SingleOrder
<1>10. a \o <<e>> \in Seq(Pictures) /\ ToSet(a \o <<e>>) = ToSet(a) \cup {e} /\ IsInjective(a \o <<e>>)
  BY <1>4, <1>6, <1>7, <1>9, ConcatOrder
<1>11. ToSet(a \o <<e>>) \cap ToSet(b) = {}
  BY <1>6, <1>7, <1>10
<1>12. /\ (a \o <<e>>) \o b \in Seq(Pictures) /\ IsInjective((a \o <<e>>) \o b)
       /\ ToSet((a \o <<e>>) \o b) = ToSet(a \o <<e>>) \cup ToSet(b)
  BY <1>4, <1>6, <1>10, <1>11, ConcatOrder
<1> QED BY <1>5, <1>7, <1>8, <1>10, <1>12 DEF Distinct

\* Two lists of the same pictures in the same order are equal.
LEMMA SameOrder ==
  ASSUME NEW s \in Distinct, NEW t \in Distinct, ToSet(s) = ToSet(t),
         \A x, y \in ToSet(t) : Before(s, x, y) => Before(t, x, y)
  PROVE  s = t
<1>d. /\ s \in Seq(Pictures) /\ t \in Seq(Pictures) /\ IsInjective(s) /\ IsInjective(t)
      /\ Len(s) \in Nat /\ DOMAIN s = 1 .. Len(s)
      /\ Len(t) \in Nat /\ DOMAIN t = 1 .. Len(t)
  BY LenProperties DEF Distinct
<1> DEFINE D == {i \in DOMAIN s \cup DOMAIN t :
                   ~ (i \in DOMAIN s /\ i \in DOMAIN t /\ s[i] = t[i])}
<1>1. SUFFICES D = {}
  <2>1. ASSUME D = {} PROVE s = t
    <3>1. DOMAIN s = DOMAIN t /\ \A i \in DOMAIN s : s[i] = t[i]
      BY <2>1
    <3>2. Len(s) = Len(t)
      <4>1. PICK m \in Nat, n \in Nat : m = Len(s) /\ n = Len(t) /\ 1 .. m = 1 .. n
        BY <1>d, <3>1
      <4>2. m > 0 => m \in 1 .. n
        BY <4>1
      <4>3. n > 0 => n \in 1 .. m
        BY <4>1
      <4> QED BY <4>1, <4>2, <4>3
    <3> QED BY <1>d, <3>1, <3>2, SeqEqual
  <2> QED BY <2>1
<1>2. SUFFICES ASSUME D # {} PROVE FALSE
  OBVIOUS
<1> DEFINE R == OpToRel(<, Nat)
<1>3. IsWellFoundedOn(R, Nat)
  BY NatLessThanWellFounded
<1>4. D \subseteq Nat
  BY <1>d
<1> HIDE DEF D, R
<1>5. PICK i \in D : \A m \in D : ~ (<<m, i>> \in R)
  BY <1>2, <1>3, <1>4, WFMin
<1>6. i \in Nat /\ \A m \in D : ~ (m < i)
  BY <1>4, <1>5 DEF R, OpToRel
<1> USE DEF D
<1>7. \A m \in DOMAIN s \cup DOMAIN t :
        m < i => m \in DOMAIN s /\ m \in DOMAIN t /\ s[m] = t[m]
  BY <1>6
<1>8. ASSUME i \in DOMAIN s
      PROVE \E j \in DOMAIN t : t[j] = s[i] /\ j > i
  <2>1. PICK j \in DOMAIN t : t[j] = s[i]
    BY <1>8 DEF ToSet
  <2>2. j # i
    BY <1>5, <1>8, <2>1
  <2>3. ~ (j < i)
    BY <1>7, <1>8, <1>d, <2>1, <2>2 DEF IsInjective
  <2> QED BY <1>d, <1>6, <2>1, <2>2, <2>3
<1>9. ASSUME i \in DOMAIN t
      PROVE \E j \in DOMAIN s : s[j] = t[i] /\ j > i
  <2>1. PICK j \in DOMAIN s : s[j] = t[i]
    BY <1>9 DEF ToSet
  <2>2. j # i
    BY <1>5, <1>9, <2>1
  <2>3. ~ (j < i)
    BY <1>7, <1>9, <1>d, <2>1, <2>2 DEF IsInjective
  <2> QED BY <1>d, <1>6, <2>1, <2>2, <2>3
<1>10. i \in DOMAIN s /\ i \in DOMAIN t
  <2>1. 1 <= i
    BY <1>d, <1>5
  <2> QED BY <1>d, <1>5, <1>6, <1>8, <1>9, <2>1
<1>11. PICK j \in DOMAIN t : t[j] = s[i] /\ j > i
  BY <1>8, <1>10
<1>12. PICK k \in DOMAIN s : s[k] = t[i] /\ k > i
  BY <1>9, <1>10
<1>13. Before(s, s[i], t[i]) /\ s[i] \in ToSet(t) /\ t[i] \in ToSet(t)
  BY <1>10, <1>11, <1>12 DEF Before, ToSet
<1>14. PICK a \in DOMAIN t, b \in DOMAIN t : a < b /\ t[a] = s[i] /\ t[b] = t[i]
  BY <1>13 DEF Before
<1>15. a = j /\ b = i
  BY <1>d, <1>10, <1>11, <1>14 DEF IsInjective
<1> QED BY <1>d, <1>11, <1>14, <1>15

-----------------------------------------------------------------------------
(* The pictures of a listing *)

LEMMA EmptyPictures == <<>> \in Distinct /\ ToSet(<<>>) = {}
BY DEF Distinct, IsInjective, ToSet

LEMMA NoTaskTyped == NoTask \in TaskState /\ ~ NoTask.mine
BY EmptyPictures DEF NoTask, TaskState

LEMMA NewTyped ==
  ASSUME NEW kind \in {"load", "upload", "delete", "order"}
  PROVE  /\ New(kind) \in TaskState /\ New(kind).mine /\ New(kind).pc = "sent"
         /\ New(kind).kind = kind /\ New(kind).images = <<>>
BY EmptyPictures DEF New, NoTask, TaskState

\* A call changes and the others stay as they are.
LEMMA TaskChanged ==
  ASSUME PictureStateInv, NEW q \in Calls, NEW t \in TaskState, task' = [task EXCEPT ![q] = t]
  PROVE  /\ task' \in [Calls -> TaskState] /\ task'[q] = t
         /\ \A r \in Calls \ {q} : task'[r] = task[r]
BY DEF PictureStateInv

LEMMA PicturesInitially == PictureInit => PictureInv
<1> SUFFICES ASSUME PictureInit PROVE PictureInv
  OBVIOUS
<1>1. PICK i \in Pictures : gallery = <<i>>
  BY DEF PictureInit
<1>2. /\ born = ToSet(gallery) /\ album = Closed /\ task = [q \in Calls |-> NoTask]
      /\ orders = <<>> /\ spoiled = FALSE
  BY DEF PictureInit
<1>3. gallery \in Distinct /\ ToSet(gallery) = {i}
  BY <1>1, SingleOrder DEF Distinct
<1>4. \A q \in Calls : task[q] = NoTask
  BY <1>2
<1>5. OwnTasks = {} /\ Uploads = {}
  BY <1>4 DEF OwnTasks, Uploads, NoTask
<1>6. PictureStateInv
  BY <1>2, <1>3, NoTaskTyped, EmptyPictures DEF PictureStateInv, Closed
<1>7. QueueInv
  BY <1>2, <1>4 DEF QueueInv, NoTask, ToSet, IsInjective
<1>8. \A q \in Calls : Orderly(task[q])
  BY <1>4 DEF Orderly
<1>9. VisitInv /\ BatchInv
  BY <1>5 DEF VisitInv, BatchInv, Uploads
<1>10. SyncInv
  BY <1>2, <1>5 DEF SyncInv, Editing, Closed
<1> QED BY <1>6, <1>7, <1>8, <1>9, <1>10 DEF PictureInv

LEMMA PicturesOpened ==
  ASSUME PictureInv, NEW q \in Calls, OpenPictures(q)
  PROVE  PictureInv'
<1> USE DEF PictureInv
<1>1. /\ ~ album.mounted /\ album' = [Closed EXCEPT !.mounted = TRUE]
      /\ UNCHANGED <<gallery, born, orders>> /\ spoiled' = FALSE
      /\ \/ task[q].pc = "idle" /\ task' = [task EXCEPT ![q] = New("load")]
         \/ task' = task
  BY DEF OpenPictures, Start
<1>2. OwnTasks = {} /\ album = Closed
  BY <1>1 DEF VisitInv, PictureStateInv
<1>3. \A r \in Calls : ~ task[r].mine
  BY <1>2 DEF OwnTasks
<1>4. /\ task' \in [Calls -> TaskState]
      /\ \A r \in Calls : task'[r] = task[r] \/ (r = q /\ task[q].pc = "idle" /\ task'[q] = New("load"))
  <2>1. CASE task' = task
    BY <2>1 DEF PictureStateInv
  <2>2. CASE task[q].pc = "idle" /\ task' = [task EXCEPT ![q] = New("load")]
    BY <2>2, TaskChanged, NewTyped
  <2> QED BY <1>1, <2>1, <2>2
<1>5. /\ New("load").mine /\ New("load").pc = "sent" /\ New("load").kind = "load"
      /\ New("load").images = <<>>
  BY NewTyped
<1>6. /\ album'.mounted /\ ~ album'.loaded /\ ~ album'.failed /\ album'.images = <<>>
      /\ album' \in [mounted : BOOLEAN, loaded : BOOLEAN, failed : BOOLEAN,
                     images : Distinct, drag : Nat]
  BY <1>1, EmptyPictures DEF Closed
<1>7. PictureStateInv'
  BY <1>1, <1>2, <1>4, <1>6 DEF PictureStateInv, Closed
<1>8. QueueInv'
  <2>1. \A r \in Calls : (task'[r].pc = "sent" /\ task'[r].kind = "order")
                            <=> (task[r].pc = "sent" /\ task[r].kind = "order")
    BY <1>4, <1>5
  <2> QED BY <1>1, <2>1 DEF QueueInv
<1>9. \A r \in Calls : Orderly(task[r])'
  <2>1. TAKE r \in Calls
  <2>2. CASE task'[r] = task[r]
    BY <1>1, <2>2 DEF Orderly
  <2>3. CASE task'[r] = New("load")
    BY <1>5, <2>3, EmptyPictures, PictureAssumption DEF Orderly
  <2> QED BY <1>4, <2>2, <2>3
<1>10. \A r \in OwnTasks' : r = q /\ task'[r] = New("load")
  BY <1>3, <1>4 DEF OwnTasks
<1>11. VisitInv'
  BY <1>5, <1>6, <1>10 DEF VisitInv
<1>12. Uploads' = {}
  BY <1>5, <1>10 DEF Uploads
<1>13. BatchInv'
  BY <1>5, <1>10, <1>12 DEF BatchInv
<1>14. SyncInv'
  BY <1>5, <1>6, <1>10 DEF SyncInv, Editing
<1> QED BY <1>7, <1>8, <1>9, <1>11, <1>13, <1>14

LEMMA PicturesLeft ==
  ASSUME PictureInv, LeavePictures
  PROVE  PictureInv'
<1> USE DEF PictureInv
<1> DEFINE Kept(r) == task[r].kind = "upload" \/ (task[r].pc = "sent" /\ task[r].kind # "load")
           Stray(r) == [task[r] EXCEPT !.mine = FALSE,
                          !.images = IF task[r].kind = "order" THEN @ ELSE <<>>]
<1>1. /\ album' = Closed /\ UNCHANGED <<gallery, born, orders, spoiled>>
      /\ task' = [r \in Calls |-> IF Kept(r) THEN Stray(r) ELSE NoTask]
  BY DEF LeavePictures
<1>2. ASSUME NEW r \in Calls
      PROVE  /\ task[r] \in TaskState /\ Stray(r) \in TaskState /\ ~ Stray(r).mine
             /\ Stray(r).pc = task[r].pc /\ Stray(r).kind = task[r].kind
             /\ Stray(r).image = task[r].image
             /\ Stray(r).images = IF task[r].kind = "order" THEN task[r].images ELSE <<>>
  BY EmptyPictures DEF PictureStateInv, TaskState
<1> HIDE DEF Stray
<1>3. /\ task' \in [Calls -> TaskState]
      /\ \A r \in Calls : task'[r] = IF Kept(r) THEN Stray(r) ELSE NoTask
  BY <1>1, <1>2, NoTaskTyped
<1>4. OwnTasks' = {} /\ Uploads' = {}
  BY <1>2, <1>3, NoTaskTyped DEF OwnTasks, Uploads
<1>5. PictureStateInv'
  BY <1>1, <1>3, EmptyPictures DEF PictureStateInv, Closed
<1>6. QueueInv'
  <2>1. \A r \in Calls : (task'[r].pc = "sent" /\ task'[r].kind = "order")
                            <=> (task[r].pc = "sent" /\ task[r].kind = "order")
    BY <1>2, <1>3 DEF NoTask
  <2> QED BY <1>1, <2>1 DEF QueueInv
<1>7. \A r \in Calls : Orderly(task[r])'
  <2>1. TAKE r \in Calls
  <2>2. CASE ~ Kept(r)
    BY <1>3, <2>2 DEF Orderly
  <2>3. CASE Kept(r) /\ task[r] = NoTask
    <3>1. NoTask.pc = "idle" /\ NoTask.kind # "upload"
      BY PictureAssumption DEF NoTask
    <3> QED BY <2>3, <3>1
  <2>4. CASE Kept(r) /\ task[r] # NoTask
    <3>1. task'[r] = Stray(r) /\ born' = born
      BY <1>1, <1>3, <2>4
    <3>2. /\ task[r].pc # "idle" /\ task[r].kind # None
          /\ ToSet(task[r].images) \subseteq born
          /\ task[r].kind = "upload" => task[r].pc \in {"sent", "ok"}
          /\ task[r].kind = "upload" /\ task[r].pc = "ok" => task[r].image \in born
          /\ task[r].kind = "delete" => task[r].image \in born
      BY <2>4 DEF Orderly
    <3>3. task[r].kind # "load"
      BY <2>4
    <3>4. task[r].kind # "upload" => task[r].pc = "sent"
      BY <2>4
    <3> QED BY <1>2, <3>1, <3>2, <3>3, <3>4, EmptyPictures DEF Orderly
  <2> QED BY <2>2, <2>3, <2>4
<1>8. VisitInv' /\ BatchInv'
  BY <1>4 DEF VisitInv, BatchInv
<1>9. SyncInv'
  BY <1>1, <1>4 DEF SyncInv, Editing, Closed
<1> QED BY <1>5, <1>6, <1>7, <1>8, <1>9

\* What an action that moves neither the pictures nor an order leaves in place.
LEMMA SettledStays ==
  ASSUME SyncInv, ~ Trouble' => ~ Trouble, Editing' => Editing,
         \A q \in OwnTasks' : task'[q].kind = "load" /\ task'[q].pc = "ok" =>
           task'[q].images = gallery',
         ~ Trouble' /\ Editing' => \A q, r \in Uploads' : q = r,
         ~ Trouble' /\ Editing' => Settled' = Settled /\ ToSet(Batch') \subseteq ToSet(Batch),
         gallery' = gallery, Deleted \subseteq Deleted', OwnOrders' = OwnOrders,
         \A q \in OwnOrders : task'[q].images = task[q].images,
         \A q, r \in OwnOrders : Before(orders', q, r) <=> Before(orders, q, r)
  PROVE  SyncInv'
<1> SUFFICES ASSUME ~ Trouble'
             PROVE  Editing' =>
                      /\ ToSet(Batch') \subseteq ToSet(gallery')
                      /\ OwnOrders' = {} => Level'
                      /\ \A q \in Calls : SentLastOf(q)' => LevelAfter(task[q].images)'
  BY DEF SyncInv
<1> SUFFICES ASSUME Editing'
             PROVE  /\ ToSet(Batch') \subseteq ToSet(gallery')
                    /\ OwnOrders' = {} => Level'
                    /\ \A q \in Calls : SentLastOf(q)' => LevelAfter(task[q].images)'
  OBVIOUS
<1>1. Settled' = Settled /\ ToSet(Batch') \subseteq ToSet(Batch)
  OBVIOUS
<1>2. /\ ToSet(Batch) \subseteq ToSet(gallery)
      /\ OwnOrders = {} => Level
      /\ \A q \in Calls : SentLastOf(q) => LevelAfter(task[q].images)
  BY DEF SyncInv
<1>3. OwnOrders' = {} => Level'
  BY <1>1, <1>2 DEF Level, Keeps
<1>4. ASSUME NEW q \in Calls, SentLastOf(q)' PROVE LevelAfter(task[q].images)'
  <2>1. q \in OwnOrders /\ SentLastOf(q)
    BY <1>4 DEF SentLastOf
  <2>2. LevelAfter(task[q].images) /\ task'[q].images = task[q].images
    BY <1>2, <2>1
  <2> QED BY <1>1, <2>2 DEF LevelAfter, Keeps
<1> QED BY <1>1, <1>2, <1>3, <1>4

LEMMA PicturesStay ==
  ASSUME SyncInv, ~ Trouble' => ~ Trouble, Editing' => Editing,
         \A q \in OwnTasks' : task'[q].kind = "load" /\ task'[q].pc = "ok" =>
           task'[q].images = gallery',
         ~ Trouble' /\ Editing' => \A q, r \in Uploads' : q = r,
         ~ Trouble' /\ Editing' => Batch' = Batch,
         gallery' = gallery, album'.images = album.images,
         Deleted \subseteq Deleted', OwnOrders' = OwnOrders,
         \A q \in OwnOrders : task'[q].images = task[q].images,
         \A q, r \in OwnOrders : Before(orders', q, r) <=> Before(orders, q, r)
  PROVE  SyncInv'
<1>1. ~ Trouble' /\ Editing' => Settled' = Settled /\ ToSet(Batch') \subseteq ToSet(Batch)
  BY DEF Settled
<1> QED BY <1>1, SettledStays

\* A handler of the page sends a call: one more of its own.
LEMMA CallBegun ==
  ASSUME PictureInv, Editing, NEW q \in Calls, NEW t \in TaskState,
         task[q].pc = "idle", task' = [task EXCEPT ![q] = t],
         t.mine, t.pc = "sent", t.kind \in {"upload", "delete", "order"},
         ToSet(t.images) \subseteq born, t.kind = "upload" => t.images = <<>>,
         t.kind = "delete" => t.image \in ToSet(album.images),
         album'.mounted = album.mounted, album'.loaded = album.loaded,
         ToSet(album'.images) = ToSet(album.images), gallery' = gallery, born' = born
  PROVE  /\ task' \in [Calls -> TaskState] /\ task'[q] = t
         /\ \A r \in Calls \ {q} : task'[r] = task[r]
         /\ (\A r \in Calls : Orderly(task[r])') /\ VisitInv' /\ BatchInv'
         /\ q \notin OwnTasks /\ OwnTasks' = OwnTasks \cup {q}
         /\ Uploads' = IF t.kind = "upload" THEN Uploads \cup {q} ELSE Uploads
         /\ \A r \in Uploads : Added(r)' = Added(r)
         /\ Deleted' = Deleted
<1> USE DEF PictureInv
<1>1. /\ task' \in [Calls -> TaskState] /\ task'[q] = t
      /\ \A r \in Calls \ {q} : task'[r] = task[r]
  BY TaskChanged
<1>2. task[q] = NoTask
  BY DEF Orderly
<1>3. ~ task[q].mine /\ task[q].pc # "ok"
  BY <1>2, NoTaskTyped
<1>4. q \notin OwnTasks /\ OwnTasks' = OwnTasks \cup {q} /\ q \notin Uploads
  BY <1>1, <1>3 DEF OwnTasks, Uploads
<1>5. Uploads' = IF t.kind = "upload" THEN Uploads \cup {q} ELSE Uploads
  BY <1>1, <1>4 DEF Uploads
<1>6. \A r \in Uploads : Added(r)' = Added(r)
  BY <1>1, <1>4 DEF Added, Uploads, OwnTasks
<1>7. Deleted' = Deleted
  BY <1>1, <1>4 DEF Deleted, OwnTasks
<1>8. \A r \in Calls : Orderly(task[r])'
  <2>1. TAKE r \in Calls
  <2>2. CASE r # q
    BY <1>1, <2>2 DEF Orderly
  <2>3. CASE r = q
    <3>1. t.kind = "delete" => t.image \in born
      BY DEF PictureStateInv
    <3> QED BY <1>1, <2>3, <3>1, PictureAssumption DEF Orderly
  <2> QED BY <2>2, <2>3
<1>9. VisitInv'
  <2>1. album.mounted /\ album.loaded
    BY DEF Editing, PictureStateInv, Closed
  <2>2. \A r \in OwnTasks : task[r].kind # "load"
    BY <2>1 DEF VisitInv
  <2>3. \A r \in OwnTasks' : task'[r].kind # "load"
    BY <1>1, <1>4, <2>2 DEF OwnTasks
  <2> QED BY <2>1, <2>3 DEF VisitInv
<1>10. BatchInv'
  <2>1. t.kind = "upload" => ToSet(Added(q)') = {}
    BY <1>1, EmptyPictures DEF Added
  <2>2. \A r \in Uploads' : (r \in Uploads /\ Added(r)' = Added(r)) \/ (r = q /\ ToSet(Added(r)') = {})
    BY <1>5, <1>6, <2>1
  <2>3. \A r \in Uploads' : ToSet(Added(r)') \cap ToSet(album'.images) = {}
    BY <2>2 DEF BatchInv
  <2>4. \A r, u \in Uploads' : r # u => ToSet(Added(r)') \cap ToSet(Added(u)') = {}
    BY <2>2 DEF BatchInv
  <2>5. ASSUME NEW r \in OwnTasks', task'[r].kind = "delete"
        PROVE  /\ \A u \in Uploads' : task'[r].image \notin ToSet(Added(u)')
               /\ task'[r].pc = "ok" => task'[r].image \notin ToSet(gallery')
    <3>1. CASE r = q
      <4>1. task'[r].image \in ToSet(album.images)
        BY <1>1, <2>5, <3>1
      <4> QED BY <1>1, <2>2, <3>1, <4>1 DEF BatchInv
    <3>2. CASE r # q
      <4>1. r \in OwnTasks /\ task'[r] = task[r]
        BY <1>1, <1>4, <3>2 DEF OwnTasks
      <4> QED BY <2>2, <2>5, <4>1 DEF BatchInv
    <3> QED BY <3>1, <3>2
  <2> QED BY <2>3, <2>4, <2>5 DEF BatchInv
<1> QED BY <1>1, <1>4, <1>5, <1>6, <1>7, <1>8, <1>9, <1>10

LEMMA BatchOfNone == Uploads = {} => Batch = <<>>
BY DEF Batch

LEMMA BatchOfOne ==
  ASSUME NEW q \in Uploads, \A r \in Uploads : r = q
  PROVE  Batch = Added(q)
BY DEF Batch

\* Calls of other kinds leave the batch as it is.
LEMMA BatchStays ==
  ASSUME Uploads' = Uploads, \A q, r \in Uploads : q = r,
         \A r \in Uploads : Added(r)' = Added(r)
  PROVE  Batch' = Batch
<1>1. CASE Uploads = {}
  BY <1>1 DEF Batch
<1>2. CASE Uploads # {}
  <2>1. PICK q \in Uploads : \A r \in Uploads : r = q
    BY <1>2
  <2>2. Batch = Added(q)
    BY <2>1, BatchOfOne
  <2>3. (CHOOSE r \in Uploads : TRUE) = q
    BY <2>1
  <2>4. Batch' = Added(q)'
    BY <1>2, <2>1, <2>3 DEF Batch
  <2> QED BY <2>1, <2>2, <2>4
<1> QED BY <1>1, <1>2

\* What holds of a page that is in use and has no trouble.
LEMMA InSync ==
  ASSUME PictureInv, ~ Trouble, Editing
  PROVE  /\ \A q, r \in Uploads : q = r
         /\ ToSet(Batch) \subseteq ToSet(gallery)
         /\ OwnOrders = {} => Level
         /\ \A q \in Calls : SentLastOf(q) => LevelAfter(task[q].images)
         /\ \A q \in OwnTasks : task[q].pc # "refused" /\ task[q].kind # "load"
         /\ ~ spoiled
<1>1. album.loaded
  BY DEF Editing
<1> QED BY <1>1 DEF PictureInv, SyncInv, Trouble, VisitInv

LEMMA PicturesAdded ==
  ASSUME PictureInv, NEW q \in Calls, NEW n \in 1 .. MaxBatch, AddPictures(q, n)
  PROVE  PictureInv'
<1> USE DEF PictureInv
<1> DEFINE t == [New("upload") EXCEPT !.left = n]
<1>1. /\ Editing /\ task[q].pc = "idle" /\ task' = [task EXCEPT ![q] = t]
      /\ spoiled' = (spoiled \/ Uploads # {})
      /\ UNCHANGED <<gallery, born, album, orders>>
  BY DEF AddPictures, Start
<1>2. /\ t \in TaskState /\ t.mine /\ t.pc = "sent" /\ t.kind = "upload" /\ t.images = <<>>
  BY PictureAssumption, NewTyped DEF TaskState
<1> HIDE DEF t
<1>3. /\ task' \in [Calls -> TaskState] /\ task'[q] = t
      /\ \A r \in Calls \ {q} : task'[r] = task[r]
      /\ (\A r \in Calls : Orderly(task[r])') /\ VisitInv' /\ BatchInv'
      /\ q \notin OwnTasks /\ OwnTasks' = OwnTasks \cup {q}
      /\ Uploads' = Uploads \cup {q} /\ Deleted' = Deleted
  BY <1>1, <1>2, EmptyPictures, CallBegun
<1>4. PictureStateInv'
  BY <1>1, <1>3 DEF PictureStateInv
<1>5. QueueInv'
  BY <1>1, <1>2, <1>3 DEF QueueInv
<1>6. SyncInv'
  <2>1. ~ Trouble' => ~ Trouble /\ Uploads = {}
    <3>1. \A r \in OwnTasks : task'[r] = task[r]
      BY <1>3 DEF OwnTasks
    <3> QED BY <1>1, <1>3, <3>1 DEF Trouble
  <2>2. Editing' = Editing
    BY <1>1 DEF Editing
  <2>3. \A r \in OwnTasks' : task'[r].kind = "load" /\ task'[r].pc = "ok" => task'[r].images = gallery'
    BY <1>1, <1>3 DEF Editing, VisitInv
  <2>4. ~ Trouble' => Uploads' = {q}
    BY <1>3, <2>1
  <2>5. ~ Trouble' => Batch' = Batch
    <3>1. Added(q)' = <<>>
      BY <1>2, <1>3 DEF Added
    <3>2. ASSUME Uploads' = {q} PROVE Batch' = Added(q)'
      BY <3>2, BatchOfOne DEF Batch
    <3> QED BY <2>1, <2>4, <3>1, <3>2, BatchOfNone
  <2>6. /\ OwnOrders' = OwnOrders /\ \A r \in OwnOrders : task'[r].images = task[r].images
    BY <1>2, <1>3 DEF OwnOrders, OwnTasks
  <2> QED BY <1>1, <1>3, <2>1, <2>2, <2>3, <2>4, <2>5, <2>6, PicturesStay
<1> QED BY <1>3, <1>4, <1>5, <1>6

LEMMA PictureDeleted ==
  ASSUME PictureInv, NEW q \in Calls, NEW i \in Pictures, DeletePicture(q, i)
  PROVE  PictureInv'
<1> USE DEF PictureInv
<1> DEFINE t == [New("delete") EXCEPT !.image = i]
<1>1. /\ Editing /\ i \in ToSet(album.images)
      /\ task[q].pc = "idle" /\ task' = [task EXCEPT ![q] = t]
      /\ UNCHANGED <<gallery, born, album, orders, spoiled>>
  BY DEF DeletePicture, Start
<1>2. /\ t \in TaskState /\ t.mine /\ t.pc = "sent" /\ t.kind = "delete" /\ t.images = <<>>
      /\ t.image = i
  BY NewTyped DEF TaskState
<1> HIDE DEF t
<1>3. /\ task' \in [Calls -> TaskState] /\ task'[q] = t
      /\ \A r \in Calls \ {q} : task'[r] = task[r]
      /\ (\A r \in Calls : Orderly(task[r])') /\ VisitInv' /\ BatchInv'
      /\ q \notin OwnTasks /\ OwnTasks' = OwnTasks \cup {q}
      /\ Uploads' = Uploads /\ Deleted' = Deleted
      /\ \A r \in Uploads : Added(r)' = Added(r)
  BY <1>1, <1>2, EmptyPictures, CallBegun
<1>4. PictureStateInv'
  BY <1>1, <1>3 DEF PictureStateInv
<1>5. QueueInv'
  BY <1>1, <1>2, <1>3 DEF QueueInv
<1>6. SyncInv'
  <2>1. ~ Trouble' => ~ Trouble
    <3>1. \A r \in OwnTasks : task'[r] = task[r]
      BY <1>3 DEF OwnTasks
    <3> QED BY <1>1, <1>3, <3>1 DEF Trouble
  <2>2. Editing' = Editing
    BY <1>1 DEF Editing
  <2>3. \A r \in OwnTasks' : task'[r].kind = "load" /\ task'[r].pc = "ok" => task'[r].images = gallery'
    BY <1>1, <1>3 DEF Editing, VisitInv
  <2>4. ~ Trouble' => \A r, u \in Uploads : r = u
    BY <1>1, <2>1, InSync
  <2>5. ~ Trouble' => Batch' = Batch
    BY <1>3, <2>4, BatchStays
  <2>6. /\ OwnOrders' = OwnOrders /\ \A r \in OwnOrders : task'[r].images = task[r].images
    BY <1>2, <1>3 DEF OwnOrders, OwnTasks
  <2> QED BY <1>1, <1>3, <2>1, <2>2, <2>3, <2>4, <2>5, <2>6, PicturesStay
<1> QED BY <1>3, <1>4, <1>5, <1>6

LEMMA DragStarted ==
  ASSUME PictureInv, NEW k \in DOMAIN album.images, StartDrag(k)
  PROVE  PictureInv'
<1> USE DEF PictureInv
<1>1. /\ album' = [album EXCEPT !.drag = k] /\ UNCHANGED <<gallery, born, task, orders, spoiled>>
  BY DEF StartDrag
<1>2. k \in Nat
  <2>1. album.images \in Seq(Pictures)
    BY DEF PictureStateInv, Distinct
  <2> QED BY <2>1, LenProperties
<1>3. /\ album'.mounted = album.mounted /\ album'.loaded = album.loaded
      /\ album'.failed = album.failed /\ album'.images = album.images
      /\ album' \in [mounted : BOOLEAN, loaded : BOOLEAN, failed : BOOLEAN,
                     images : Distinct, drag : Nat]
  BY <1>1, <1>2 DEF PictureStateInv
<1>4. PictureStateInv'
  BY <1>1, <1>3 DEF PictureStateInv, StartDrag, Editing, Closed
<1>5. QueueInv' /\ (\A q \in Calls : Orderly(task[q])') /\ OwnTasks' = OwnTasks /\ Uploads' = Uploads
  BY <1>1 DEF QueueInv, Orderly, OwnTasks, Uploads
<1>6. VisitInv' /\ BatchInv'
  BY <1>1, <1>3, <1>5 DEF VisitInv, BatchInv, Added
<1>7. SyncInv'
  <2>1. Trouble' = Trouble /\ Editing' = Editing /\ OwnOrders' = OwnOrders /\ Deleted' = Deleted
    BY <1>1, <1>3, <1>5 DEF Trouble, Editing, OwnOrders, Deleted
  <2>2. Batch' = Batch
    BY <1>1, <1>5 DEF Batch, Added
  <2> QED BY <1>1, <1>3, <1>5, <2>1, <2>2 DEF SyncInv, Level, LevelAfter, Keeps, Settled, SentLastOf
<1> QED BY <1>4, <1>5, <1>6, <1>7

\* What a batch has stored are pictures, each once.
LEMMA AddedTyped ==
  ASSUME PictureInv
  PROVE  /\ \A q \in Uploads : Added(q) \in Distinct /\ ToSet(Added(q)) \subseteq born
         /\ Batch \in Distinct
<1> USE DEF PictureInv
<1>1. ASSUME NEW q \in Uploads PROVE Added(q) \in Distinct /\ ToSet(Added(q)) \subseteq born
  <2>1. /\ q \in Calls /\ task[q].kind = "upload" /\ task[q].images \in Distinct
        /\ task[q].mine /\ Orderly(task[q])
    BY DEF Uploads, OwnTasks, PictureStateInv, TaskState
  <2>2. /\ ToSet(task[q].images) \subseteq born
        /\ task[q].pc = "ok" => task[q].image \in born \ ToSet(task[q].images)
    BY <2>1, NoTaskTyped DEF Orderly
  <2>3. CASE task[q].pc = "ok"
    <3>1. task[q].image \in Pictures
      BY <2>2, <2>3 DEF PictureStateInv
    <3> QED BY <2>1, <2>2, <2>3, <3>1, AppendOrder DEF Added, Distinct
  <2>4. CASE task[q].pc # "ok"
    BY <2>1, <2>2, <2>4 DEF Added
  <2> QED BY <2>3, <2>4
<1>2. Batch \in Distinct
  BY <1>1, EmptyPictures DEF Batch
<1> QED BY <1>1, <1>2

\* The screen and the batch behind it.
LEMMA SettledIs ==
  ASSUME NEW s \in Distinct, NEW t \in Distinct
  PROVE  /\ s \o t \in Seq(Pictures)
         /\ ToSet(s \o t) = ToSet(s) \cup ToSet(t)
         /\ \A x, y : Before(s \o t, x, y) <=>
              \/ Before(s, x, y) \/ Before(t, x, y)
              \/ (x \in ToSet(s) /\ y \in ToSet(t))
         /\ ToSet(s) \cap ToSet(t) = {} => s \o t \in Distinct
BY ConcatOrder DEF Distinct

LEMMA OrderSent ==
  ASSUME PictureInv, Editing, NEW q \in Calls, NEW next \in Distinct,
         ToSet(next) = ToSet(album.images),
         album'.mounted = album.mounted, album'.loaded = album.loaded,
         album'.failed = album.failed, album'.images = next, PictureStateInv',
         task[q].pc = "idle",
         task' = [task EXCEPT ![q] = [New("order") EXCEPT !.images = next]],
         orders' = Append(orders, q), spoiled' = (spoiled /\ OwnTasks # {}),
         gallery' = gallery, born' = born
  PROVE  PictureInv'
<1> USE DEF PictureInv
<1> DEFINE t == [New("order") EXCEPT !.images = next]
<1>1. /\ t \in TaskState /\ t.mine /\ t.pc = "sent" /\ t.kind = "order" /\ t.images = next
  BY NewTyped DEF TaskState
<1>2. task' = [task EXCEPT ![q] = t]
  OBVIOUS
<1> HIDE DEF t
<1>3. ToSet(next) \subseteq born
  BY DEF PictureStateInv
<1>4. /\ task' \in [Calls -> TaskState] /\ task'[q] = t
      /\ \A r \in Calls \ {q} : task'[r] = task[r]
      /\ (\A r \in Calls : Orderly(task[r])') /\ VisitInv' /\ BatchInv'
      /\ q \notin OwnTasks /\ OwnTasks' = OwnTasks \cup {q}
      /\ Uploads' = Uploads /\ Deleted' = Deleted
      /\ \A r \in Uploads : Added(r)' = Added(r)
  BY <1>1, <1>2, <1>3, CallBegun
<1>5. QueueInv' /\ \A r \in ToSet(orders) : Before(orders', r, q)
  <2>1. orders \in Seq(Calls) /\ IsInjective(orders) /\ q \notin ToSet(orders)
    BY DEF QueueInv
  <2>2. /\ orders' \in Seq(Calls) /\ IsInjective(orders')
        /\ ToSet(orders') = ToSet(orders) \cup {q}
        /\ \A r \in ToSet(orders) : Before(orders', r, q)
    BY <2>1, AppendOrder
  <2> QED BY <1>1, <1>4, <2>2 DEF QueueInv
<1>6. SyncInv'
  <2> SUFFICES ASSUME ~ Trouble' PROVE SyncInv'
    BY DEF SyncInv
  <2>1. ~ Trouble \/ OwnTasks = {}
    <3>1. \A r \in OwnTasks : task'[r] = task[r]
      BY <1>4 DEF OwnTasks
    <3> QED BY <1>4, <3>1 DEF Trouble
  <2>2. (\A r, u \in Uploads : r = u) /\ ToSet(Batch) \subseteq ToSet(gallery)
    <3>1. CASE ~ Trouble
      BY <3>1, InSync
    <3>2. CASE OwnTasks = {}
      <4>1. Uploads = {}
        BY <3>2 DEF Uploads
      <4> QED BY <4>1, BatchOfNone, EmptyPictures
    <3> QED BY <2>1, <3>1, <3>2
  <2>3. Batch' = Batch
    BY <1>4, <2>2, BatchStays
  <2>4. Batch \in Distinct
    BY AddedTyped
  <2>5. Settled' = next \o Batch
    BY <2>3 DEF Settled
  <2>6. LevelAfter(next)'
    BY <2>2, <2>4, <2>5, SettledIs DEF LevelAfter, Keeps
  <2>7. OwnOrders' = OwnOrders \cup {q}
    BY <1>1, <1>4 DEF OwnOrders, OwnTasks
  <2>8. OwnOrders \subseteq ToSet(orders)
    BY DEF OwnOrders, OwnTasks, QueueInv
  <2>9. \A r \in Calls : SentLastOf(r)' => r = q
    BY <1>5, <2>7, <2>8 DEF SentLastOf
  <2>10. \A r \in Calls : SentLastOf(r)' => LevelAfter(task[r].images)'
    BY <1>1, <1>4, <2>6, <2>9 DEF LevelAfter, Keeps
  <2>11. \A r \in OwnTasks' : task'[r].kind # "load"
    BY <1>4 DEF Editing, VisitInv
  <2> QED BY <1>4, <2>2, <2>3, <2>7, <2>10, <2>11 DEF SyncInv
<1> QED BY <1>4, <1>5, <1>6

LEMMA PictureDropped ==
  ASSUME PictureInv, NEW q \in Calls, NEW k \in DOMAIN album.images, DropOn(q, k)
  PROVE  PictureInv'
<1> USE DEF PictureInv
<1>1. Editing /\ UNCHANGED <<gallery, born>> /\ album.mounted
  BY DEF DropOn, PictureStateInv, Editing, Closed
<1>2. CASE album.drag \notin DOMAIN album.images
  <2>1. /\ album' = [album EXCEPT !.failed = TRUE, !.drag = 0]
        /\ UNCHANGED <<task, orders, spoiled>>
    BY <1>2 DEF DropOn
  <2>2. /\ album'.mounted = album.mounted /\ album'.loaded = album.loaded
        /\ album'.failed /\ album'.images = album.images
        /\ album' \in [mounted : BOOLEAN, loaded : BOOLEAN, failed : BOOLEAN,
                       images : Distinct, drag : Nat]
    BY <2>1 DEF PictureStateInv
  <2>3. PictureStateInv' /\ QueueInv' /\ (\A r \in Calls : Orderly(task[r])')
    BY <1>1, <2>1, <2>2 DEF PictureStateInv, QueueInv, Orderly
  <2>4. OwnTasks' = OwnTasks /\ Uploads' = Uploads
    BY <2>1 DEF OwnTasks, Uploads
  <2>5. VisitInv' /\ BatchInv'
    BY <1>1, <2>1, <2>2, <2>4 DEF VisitInv, BatchInv, Added
  <2>6. SyncInv'
    BY <1>1, <2>1, <2>2, <2>4 DEF SyncInv, Editing, VisitInv
  <2> QED BY <2>3, <2>5, <2>6
<1>3. CASE album.drag \in DOMAIN album.images
  <2> DEFINE next == Moved(album.images, album.drag, k)
  <2>1. album' = [album EXCEPT !.images = next, !.drag = 0] /\ PersistOrder(q, next)
    BY <1>3 DEF DropOn
  <2>2. next \in Distinct /\ ToSet(next) = ToSet(album.images)
    BY <1>3, MovedSame DEF PictureStateInv
  <2> HIDE DEF next
  <2>3. /\ album'.mounted = album.mounted /\ album'.loaded = album.loaded
        /\ album'.failed = album.failed /\ album'.images = next
        /\ album' \in [mounted : BOOLEAN, loaded : BOOLEAN, failed : BOOLEAN,
                       images : Distinct, drag : Nat]
    BY <2>1, <2>2 DEF PictureStateInv
  <2>4. CASE /\ task[q].pc = "idle"
             /\ task' = [task EXCEPT ![q] = [New("order") EXCEPT !.images = next]]
             /\ orders' = Append(orders, q) /\ spoiled' = (spoiled /\ OwnTasks # {})
    <3>1. [New("order") EXCEPT !.images = next] \in TaskState
      BY <2>2, NewTyped DEF TaskState
    <3>2. task' \in [Calls -> TaskState]
      BY <2>4, <3>1, TaskChanged
    <3>3. PictureStateInv'
      BY <1>1, <2>2, <2>3, <2>4, <3>2 DEF PictureStateInv
    <3> QED BY <1>1, <2>2, <2>3, <2>4, <3>3, OrderSent
  <2>5. CASE spoiled' = TRUE /\ UNCHANGED <<task, orders>>
    <3>1. PictureStateInv' /\ QueueInv' /\ (\A r \in Calls : Orderly(task[r])')
      BY <1>1, <2>2, <2>3, <2>5 DEF PictureStateInv, QueueInv, Orderly
    <3>2. OwnTasks' = OwnTasks /\ Uploads' = Uploads
      BY <2>5 DEF OwnTasks, Uploads
    <3>3. VisitInv' /\ BatchInv'
      BY <1>1, <2>2, <2>3, <2>5, <3>2 DEF VisitInv, BatchInv, Added
    <3>4. SyncInv'
      BY <2>5 DEF SyncInv, Trouble
    <3> QED BY <3>1, <3>3, <3>4
  <2> QED BY <2>1, <2>4, <2>5 DEF PersistOrder, Start
<1> QED BY <1>2, <1>3

LEMMA BeforeMembers ==
  ASSUME NEW s, NEW x, NEW y, Before(s, x, y)
  PROVE  x \in ToSet(s) /\ y \in ToSet(s)
BY DEF Before, ToSet

\* A call that is not an upload goes on and stays what it is.
LEMMA TaskMoves ==
  ASSUME PictureInv, NEW q \in Calls, NEW t \in TaskState, task' = [task EXCEPT ![q] = t],
         task[q].pc # "idle", task[q].kind # "upload",
         t.mine = task[q].mine, t.kind = task[q].kind, t.image = task[q].image, Orderly(t),
         born' = born, album' = album, ToSet(gallery') \subseteq ToSet(gallery),
         t.mine /\ t.kind = "delete" /\ t.pc = "ok" => t.image \notin ToSet(gallery')
  PROVE  /\ task' \in [Calls -> TaskState] /\ task'[q] = t
         /\ \A r \in Calls \ {q} : task'[r] = task[r]
         /\ (\A r \in Calls : Orderly(task[r])') /\ VisitInv' /\ BatchInv'
         /\ OwnTasks' = OwnTasks /\ Uploads' = Uploads
         /\ \A r \in Uploads : Added(r)' = Added(r)
<1> USE DEF PictureInv
<1>1. /\ task' \in [Calls -> TaskState] /\ task'[q] = t
      /\ \A r \in Calls \ {q} : task'[r] = task[r]
  BY TaskChanged
<1>2. OwnTasks' = OwnTasks /\ Uploads' = Uploads
  BY <1>1 DEF OwnTasks, Uploads
<1>3. \A r \in Calls : Orderly(task[r])'
  BY <1>1 DEF Orderly
<1>4. q \notin Uploads
  BY DEF Uploads
<1>5. \A r \in Uploads : Added(r)' = Added(r)
  BY <1>1, <1>4 DEF Added, Uploads, OwnTasks
<1>6. \A r \in OwnTasks : task'[r].kind = task[r].kind /\ task'[r].image = task[r].image
  BY <1>1 DEF OwnTasks
<1>7. VisitInv'
  BY <1>2, <1>6 DEF VisitInv
<1>8. BatchInv'
  <2>1. ASSUME NEW r \in OwnTasks, task'[r].kind = "delete", task'[r].pc = "ok"
        PROVE  task'[r].image \notin ToSet(gallery')
    <3>1. CASE r = q
      BY <1>1, <2>1, <3>1 DEF OwnTasks
    <3>2. CASE r # q
      BY <1>1, <2>1, <3>2 DEF BatchInv, OwnTasks
    <3> QED BY <3>1, <3>2
  <2> QED BY <1>2, <1>5, <1>6, <2>1 DEF BatchInv
<1> QED BY <1>1, <1>2, <1>3, <1>5, <1>7, <1>8

\* A call is over.
LEMMA TaskEnds ==
  ASSUME PictureInv, NEW q \in Calls, Done(q),
         born' = born, ToSet(gallery') \subseteq ToSet(gallery),
         ToSet(album'.images) \subseteq ToSet(album.images),
         album'.mounted = album.mounted, album'.loaded = album.loaded
  PROVE  /\ task' \in [Calls -> TaskState] /\ task'[q] = NoTask
         /\ \A r \in Calls \ {q} : task'[r] = task[r]
         /\ (\A r \in Calls : Orderly(task[r])') /\ VisitInv' /\ BatchInv'
         /\ OwnTasks' = OwnTasks \ {q} /\ Uploads' = Uploads \ {q}
         /\ \A r \in Uploads' : Added(r)' = Added(r)
<1> USE DEF PictureInv
<1>1. /\ task' \in [Calls -> TaskState] /\ task'[q] = NoTask
      /\ \A r \in Calls \ {q} : task'[r] = task[r]
  BY TaskChanged, NoTaskTyped DEF Done
<1>2. OwnTasks' = OwnTasks \ {q}
  BY <1>1, NoTaskTyped DEF OwnTasks
<1>3. Uploads' = Uploads \ {q}
  BY <1>1, <1>2 DEF Uploads, OwnTasks
<1>4. \A r \in Calls : Orderly(task[r])'
  BY <1>1 DEF Orderly
<1>5. \A r \in OwnTasks' : task'[r] = task[r]
  BY <1>1, <1>2 DEF OwnTasks
<1>6. \A r \in Uploads' : Added(r)' = Added(r)
  BY <1>5 DEF Added, Uploads
<1>7. VisitInv'
  BY <1>2, <1>5 DEF VisitInv
<1>8. BatchInv'
  BY <1>2, <1>3, <1>5, <1>6 DEF BatchInv
<1> QED BY <1>1, <1>2, <1>3, <1>4, <1>6, <1>7, <1>8

LEMMA PicturesServed ==
  ASSUME PictureInv, NEW q \in Calls, ServePictures(q)
  PROVE  PictureInv'
<1> USE DEF PictureInv
<1> DEFINE t == [task[q] EXCEPT !.pc = "ok", !.images = gallery]
<1>1. /\ task[q].pc = "sent" /\ task[q].kind = "load" /\ task[q] \in TaskState
      /\ task' = [task EXCEPT ![q] = t] /\ UNCHANGED <<gallery, born, album, orders, spoiled>>
  BY DEF ServePictures, PictureStateInv
<1>2. task[q].mine
  BY <1>1, NoTaskTyped, PictureAssumption DEF Orderly, NoTask
<1>3. /\ t \in TaskState /\ t.mine /\ t.kind = "load" /\ t.image = task[q].image
      /\ t.pc = "ok" /\ t.images = gallery
  BY <1>1, <1>2 DEF TaskState, PictureStateInv
<1> HIDE DEF t
<1>4. Orderly(t)
  BY <1>3, PictureAssumption DEF Orderly, PictureStateInv
<1>5. /\ task' \in [Calls -> TaskState] /\ task'[q] = t
      /\ \A r \in Calls \ {q} : task'[r] = task[r]
      /\ (\A r \in Calls : Orderly(task[r])') /\ VisitInv' /\ BatchInv'
      /\ OwnTasks' = OwnTasks
  BY <1>1, <1>2, <1>3, <1>4, TaskMoves
<1>6. PictureStateInv' /\ QueueInv'
  BY <1>1, <1>3, <1>5 DEF PictureStateInv, QueueInv
<1>7. q \in OwnTasks /\ OwnTasks = {q} /\ ~ album.loaded
  BY <1>1, <1>2 DEF VisitInv, OwnTasks
<1>8. SyncInv'
  BY <1>1, <1>3, <1>5, <1>7 DEF SyncInv, Editing
<1> QED BY <1>5, <1>6, <1>8

LEMMA PictureUploaded ==
  ASSUME PictureInv, NEW q \in Calls, NEW i \in Pictures, ServeUpload(q, i)
  PROVE  PictureInv'
<1> USE DEF PictureInv
<1> DEFINE t == [task[q] EXCEPT !.pc = "ok", !.image = i]
<1>1. /\ task[q].pc = "sent" /\ task[q].kind = "upload" /\ task[q] \in TaskState
      /\ i \notin born /\ born' = born \cup {i} /\ gallery' = Append(gallery, i)
      /\ task' = [task EXCEPT ![q] = t]
      /\ spoiled' = (spoiled \/ ~ task[q].mine) /\ UNCHANGED <<album, orders>>
  BY DEF ServeUpload, NoteStray, PictureStateInv
<1>2. /\ t \in TaskState /\ t.mine = task[q].mine /\ t.kind = "upload" /\ t.image = i
      /\ t.pc = "ok" /\ t.images = task[q].images
  BY <1>1 DEF TaskState
<1> HIDE DEF t
<1>3. /\ task' \in [Calls -> TaskState] /\ task'[q] = t
      /\ \A r \in Calls \ {q} : task'[r] = task[r]
  BY <1>1, <1>2, TaskChanged
<1>4. /\ ToSet(task[q].images) \subseteq born /\ (~ task[q].mine => task[q].images = <<>>)
      /\ task[q].images \in Distinct
  <2>1. task[q] # NoTask
    BY <1>1 DEF NoTask
  <2> QED BY <1>1, <2>1 DEF Orderly, TaskState
<1>5. \A r \in Calls : Orderly(task[r])'
  <2>1. TAKE r \in Calls
  <2>2. CASE r # q
    BY <1>1, <1>3, <2>2 DEF Orderly
  <2>3. CASE r = q
    BY <1>1, <1>2, <1>3, <1>4, <2>3, PictureAssumption DEF Orderly
  <2> QED BY <2>2, <2>3
<1>6. /\ gallery \in Distinct /\ i \notin ToSet(gallery) /\ ToSet(gallery) \subseteq born
      /\ album.images \in Distinct /\ i \notin ToSet(album.images)
  BY <1>1 DEF PictureStateInv
<1>7. /\ gallery' \in Distinct /\ ToSet(gallery') = ToSet(gallery) \cup {i}
      /\ \A x, y : Before(gallery', x, y) <=> Before(gallery, x, y) \/ (x \in ToSet(gallery) /\ y = i)
  BY <1>1, <1>6, AppendOrder DEF Distinct
<1>8. PictureStateInv'
  BY <1>1, <1>3, <1>7 DEF PictureStateInv
<1>9. QueueInv'
  BY <1>1, <1>2, <1>3 DEF QueueInv
<1>10. /\ OwnTasks' = OwnTasks /\ Uploads' = Uploads
       /\ \A r \in OwnTasks : task'[r].kind = task[r].kind
  BY <1>1, <1>2, <1>3 DEF OwnTasks, Uploads
<1>11. VisitInv'
  BY <1>1, <1>10 DEF VisitInv
<1>12. /\ Added(q) = task[q].images /\ Added(q)' = Append(task[q].images, i)
       /\ ToSet(Added(q)') = ToSet(Added(q)) \cup {i}
       /\ \A x, y : Before(Added(q)', x, y) <=>
            Before(Added(q), x, y) \/ (x \in ToSet(Added(q)) /\ y = i)
       /\ \A r \in Uploads \ {q} : Added(r)' = Added(r)
  <2>1. /\ Added(q) = task[q].images /\ Added(q)' = Append(task[q].images, i)
        /\ \A r \in Uploads \ {q} : Added(r)' = Added(r)
    BY <1>1, <1>2, <1>3 DEF Added, Uploads, OwnTasks
  <2> QED BY <1>4, <2>1, AppendOrder DEF Distinct
<1>13. \A r \in Uploads : ToSet(Added(r)) \subseteq born
  BY AddedTyped
<1>14. BatchInv'
  <2>1. \A r \in Uploads : ToSet(Added(r)') = ToSet(Added(r)) \/ (r = q /\ ToSet(Added(r)') = ToSet(Added(r)) \cup {i})
    BY <1>12
  <2>2. \A r \in Uploads : ToSet(Added(r)') \cap ToSet(album'.images) = {}
    BY <1>1, <1>6, <2>1 DEF BatchInv
  <2>3. \A r, u \in Uploads : r # u => ToSet(Added(r)') \cap ToSet(Added(u)') = {}
    BY <1>1, <1>13, <2>1 DEF BatchInv
  <2>4. ASSUME NEW r \in OwnTasks, task'[r].kind = "delete"
        PROVE  /\ \A u \in Uploads : task'[r].image \notin ToSet(Added(u)')
               /\ task'[r].pc = "ok" => task'[r].image \notin ToSet(gallery')
    <3>1. r # q /\ task'[r] = task[r] /\ r \in Calls
      BY <1>2, <1>3, <2>4 DEF OwnTasks
    <3>2. task[r].image \in born
      BY <2>4, <3>1, PictureAssumption DEF Orderly, NoTask
    <3> QED BY <1>1, <1>7, <2>1, <2>4, <3>1, <3>2 DEF BatchInv
  <2> QED BY <1>10, <2>2, <2>3, <2>4 DEF BatchInv
<1>15. SyncInv'
  <2> SUFFICES ASSUME ~ Trouble' PROVE SyncInv'
    BY DEF SyncInv
  <2>1. task[q].mine /\ ~ Trouble /\ q \in Uploads /\ q \in OwnTasks
    BY <1>1, <1>2, <1>3, <1>10 DEF Trouble, OwnTasks, Uploads
  <2>2. album.loaded /\ \A r \in OwnTasks : task[r].kind # "load"
    BY <1>1, <2>1 DEF VisitInv
  <2> SUFFICES ASSUME Editing
               PROVE /\ \A r, u \in Uploads' : r = u
                     /\ ToSet(Batch') \subseteq ToSet(gallery')
                     /\ OwnOrders' = {} => Level'
                     /\ \A r \in Calls : SentLastOf(r)' => LevelAfter(task[r].images)'
    BY <1>1, <1>10, <2>2 DEF SyncInv, Editing
  <2>3. /\ \A r, u \in Uploads : r = u
        /\ ToSet(Batch) \subseteq ToSet(gallery)
        /\ OwnOrders = {} => Level
        /\ \A r \in Calls : SentLastOf(r) => LevelAfter(task[r].images)
    BY <2>1, InSync
  <2>4. Batch = Added(q)
    BY <2>1, <2>3, BatchOfOne
  <2>5. Batch' = Added(q)'
    <3>1. (CHOOSE r \in Uploads : TRUE) = q
      BY <2>1, <2>3
    <3> QED BY <1>10, <2>1, <3>1 DEF Batch
  <2>6. /\ Batch \in Distinct /\ Batch' \in Distinct
        /\ ToSet(Batch') = ToSet(Batch) \cup {i}
        /\ \A x, y : Before(Batch', x, y) <=> Before(Batch, x, y) \/ (x \in ToSet(Batch) /\ y = i)
    <3>1. Added(q)' \in Distinct
      BY <1>1, <1>4, <1>12, AppendOrder DEF Distinct
    <3> QED BY <1>12, <2>4, <2>5, <3>1, AddedTyped
  <2>7. /\ ToSet(Settled) = ToSet(album.images) \cup ToSet(Batch)
        /\ \A x, y : Before(Settled, x, y) <=>
             \/ Before(album.images, x, y) \/ Before(Batch, x, y)
             \/ (x \in ToSet(album.images) /\ y \in ToSet(Batch))
    BY <1>6, <2>6, SettledIs DEF Settled
  <2>8. /\ ToSet(Settled') = ToSet(album.images) \cup ToSet(Batch')
        /\ \A x, y : Before(Settled', x, y) <=>
             \/ Before(album.images, x, y) \/ Before(Batch', x, y)
             \/ (x \in ToSet(album.images) /\ y \in ToSet(Batch'))
    <3>1. Settled' = album.images \o Batch'
      BY <1>1 DEF Settled
    <3> QED BY <1>6, <2>6, <3>1, SettledIs
  <2>9. /\ ToSet(Settled') = ToSet(Settled) \cup {i}
        /\ \A x, y : Before(Settled, x, y) => Before(Settled', x, y)
        /\ \A x \in ToSet(Settled) : Before(Settled', x, i)
    BY <2>6, <2>7, <2>8
  <2>10. Deleted' = Deleted
    BY <1>1, <1>2, <1>3, <1>10 DEF Deleted, OwnTasks
  <2>11. /\ OwnOrders' = OwnOrders
         /\ \A r \in OwnOrders : task'[r].images = task[r].images /\ ToSet(task[r].images) \subseteq born
    <3>1. \A r \in OwnOrders : r # q /\ r \in Calls /\ task'[r] = task[r]
      BY <1>1, <1>3 DEF OwnOrders, OwnTasks
    <3>2. OwnOrders' = OwnOrders
      BY <1>2, <1>3, <1>10, <3>1 DEF OwnOrders, OwnTasks
    <3>3. \A r \in OwnOrders : ToSet(task[r].images) \subseteq born
      BY <3>1 DEF Orderly, OwnOrders, NoTask
    <3> QED BY <3>1, <3>2, <3>3
  <2>12. OwnOrders' = {} => Level'
    <3>1. SUFFICES ASSUME OwnOrders = {} PROVE Level'
      BY <2>11
    <3>2. Level
      BY <2>3, <3>1
    <3>3. ASSUME NEW x, NEW y, Before(gallery', x, y) PROVE Before(Settled', x, y)
      <4>1. CASE Before(gallery, x, y)
        BY <2>9, <3>2, <4>1, BeforeMembers DEF Level, Keeps
      <4>2. CASE x \in ToSet(gallery) /\ y = i
        BY <2>9, <3>2, <4>2 DEF Level
      <4> QED BY <1>7, <3>3, <4>1, <4>2
    <3> QED BY <1>7, <2>9, <2>10, <3>2, <3>3 DEF Level, Keeps
  <2>13. ASSUME NEW r \in Calls, SentLastOf(r)' PROVE LevelAfter(task[r].images)'
    <3>1. SentLastOf(r) /\ r \in OwnOrders
      BY <1>1, <2>11, <2>13 DEF SentLastOf
    <3>2. PICK sent : /\ sent = task[r].images /\ sent = task'[r].images
                      /\ ToSet(sent) \subseteq born /\ LevelAfter(sent)
      BY <2>3, <2>11, <3>1
    <3>3. ASSUME NEW x, NEW y, Before(sent, x, y), x \in ToSet(Settled'), y \in ToSet(Settled')
          PROVE  Before(Settled', x, y)
      <4>1. x # i /\ y # i
        BY <1>1, <3>2, <3>3, BeforeMembers
      <4> QED BY <2>9, <3>2, <3>3, <4>1 DEF LevelAfter, Keeps
    <3> QED BY <1>1, <1>7, <2>9, <2>10, <3>2, <3>3 DEF LevelAfter, Keeps
  <2> QED BY <1>7, <1>10, <2>3, <2>6, <2>12, <2>13
<1> QED BY <1>5, <1>8, <1>9, <1>11, <1>14, <1>15

\* While another own call is known to be no load, none is.
LEMMA NoLoadWith ==
  ASSUME PictureInv, NEW q \in OwnTasks, task[q].kind # "load"
  PROVE  album.loaded /\ \A r \in OwnTasks : task[r].kind # "load"
BY DEF PictureInv, VisitInv

LEMMA DeletionServed ==
  ASSUME PictureInv, NEW q \in Calls, ServeDelete(q)
  PROVE  PictureInv'
<1> USE DEF PictureInv
<1> DEFINE i == task[q].image
           pc == IF i \in ToSet(gallery) THEN "ok" ELSE "refused"
           t == [task[q] EXCEPT !.pc = pc]
<1>1. /\ task[q].pc = "sent" /\ task[q].kind = "delete" /\ task[q] \in TaskState
      /\ gallery' = Without(gallery, i)
      /\ task[q].mine => task' = [task EXCEPT ![q] = t]
      /\ ~ task[q].mine => Done(q)
      /\ spoiled' = (spoiled \/ ~ task[q].mine) /\ UNCHANGED <<born, album, orders>>
  <2>1. task[q].mine => task' = [task EXCEPT ![q].pc = pc]
    BY DEF ServeDelete, Reply
  <2>2. [task EXCEPT ![q].pc = pc] = [task EXCEPT ![q] = t]
    OBVIOUS
  <2> QED BY <2>1, <2>2 DEF ServeDelete, NoteStray, Reply, PictureStateInv
<1>2. /\ gallery' \in Distinct /\ ToSet(gallery') = ToSet(gallery) \ {i}
      /\ \A x, y : Before(gallery', x, y) => Before(gallery, x, y)
  BY <1>1, WithoutOrder DEF PictureStateInv, Distinct
<1>3. ASSUME task' \in [Calls -> TaskState],
             \A r \in Calls : (task'[r].pc = "sent" /\ task'[r].kind = "order")
                                <=> (task[r].pc = "sent" /\ task[r].kind = "order")
      PROVE  PictureStateInv' /\ QueueInv'
  BY <1>1, <1>2, <1>3 DEF PictureStateInv, QueueInv
<1>4. CASE ~ task[q].mine
  <2>1. /\ task' \in [Calls -> TaskState] /\ task'[q] = NoTask
        /\ \A r \in Calls \ {q} : task'[r] = task[r]
        /\ (\A r \in Calls : Orderly(task[r])') /\ VisitInv' /\ BatchInv'
    BY <1>1, <1>2, <1>4, TaskEnds
  <2>2. SyncInv'
    BY <1>1, <1>4 DEF SyncInv, Trouble
  <2>3. NoTask.pc # "sent"
    BY DEF NoTask
  <2> QED BY <1>1, <1>3, <2>1, <2>2, <2>3
<1>5. CASE task[q].mine
  <2>1. /\ t \in TaskState /\ t.mine /\ t.kind = "delete" /\ t.image = i
        /\ t.pc = pc /\ t.images = task[q].images
    BY <1>1, <1>5 DEF TaskState
  <2>2. task' = [task EXCEPT ![q] = t]
    BY <1>1, <1>5
  <2> HIDE DEF t
  <2>3. task[q] # NoTask
    BY <1>1 DEF NoTask
  <2>4. Orderly(t)
    <3>1. ToSet(task[q].images) \subseteq born /\ i \in born
      BY <1>1, <2>3 DEF Orderly
    <3> QED BY <2>1, <3>1, PictureAssumption DEF Orderly
  <2>5. /\ task' \in [Calls -> TaskState] /\ task'[q] = t
        /\ \A r \in Calls \ {q} : task'[r] = task[r]
        /\ (\A r \in Calls : Orderly(task[r])') /\ VisitInv' /\ BatchInv'
        /\ OwnTasks' = OwnTasks /\ Uploads' = Uploads
        /\ \A r \in Uploads : Added(r)' = Added(r)
    <3>1. /\ task[q].pc # "idle" /\ task[q].kind # "upload" /\ t.mine = task[q].mine
          /\ t.kind = task[q].kind /\ t.image = task[q].image
          /\ born' = born /\ album' = album
          /\ ToSet(gallery') \subseteq ToSet(gallery)
          /\ t.mine /\ t.kind = "delete" /\ t.pc = "ok" => t.image \notin ToSet(gallery')
      BY <1>1, <1>2, <1>5, <2>1
    <3> QED BY <2>1, <2>2, <2>4, <3>1, TaskMoves
  <2>6. SyncInv'
    <3> SUFFICES ASSUME ~ Trouble' PROVE SyncInv'
      BY DEF SyncInv
    <3>1. q \in OwnTasks /\ pc = "ok" /\ i \in ToSet(gallery) /\ ~ Trouble
      <4>1. q \in OwnTasks
        BY <1>5 DEF OwnTasks
      <4>2. task'[q].pc # "refused" /\ ~ spoiled
        BY <1>1, <1>5, <2>5, <4>1 DEF Trouble
      <4>3. \A r \in OwnTasks : task[r].pc # "refused"
        BY <1>1, <2>5 DEF Trouble, OwnTasks
      <4> QED BY <2>1, <2>5, <4>1, <4>2, <4>3 DEF Trouble
    <3>2. \A r \in OwnTasks : task[r].kind # "load" /\ task'[r].kind # "load"
      BY <1>1, <2>1, <2>5, <3>1, NoLoadWith DEF OwnTasks
    <3> SUFFICES ASSUME Editing
                 PROVE /\ \A r, u \in Uploads' : r = u
                       /\ ToSet(Batch') \subseteq ToSet(gallery')
                       /\ OwnOrders' = {} => Level'
                       /\ \A r \in Calls : SentLastOf(r)' => LevelAfter(task[r].images)'
      BY <1>1, <2>5, <3>2 DEF SyncInv, Editing
    <3>3. /\ \A r, u \in Uploads : r = u
          /\ ToSet(Batch) \subseteq ToSet(gallery)
          /\ OwnOrders = {} => Level
          /\ \A r \in Calls : SentLastOf(r) => LevelAfter(task[r].images)
      BY <3>1, InSync
    <3>4. Batch' = Batch /\ Settled' = Settled
      BY <1>1, <2>5, <3>3, BatchStays DEF Settled
    <3>5. i \notin ToSet(Batch)
      <4>1. CASE Uploads = {}
        BY <4>1, BatchOfNone, EmptyPictures
      <4>2. CASE Uploads # {}
        <5>1. PICK u \in Uploads : Batch = Added(u)
          BY <3>3, <4>2, BatchOfOne
        <5> QED BY <1>1, <3>1, <5>1 DEF BatchInv
      <4> QED BY <4>1, <4>2
    <3>6. i \in Deleted' /\ Deleted \subseteq Deleted'
      <4>1. i \in Deleted'
        BY <2>1, <2>5, <3>1 DEF Deleted
      <4>2. Deleted \subseteq Deleted'
        BY <1>1, <2>5 DEF Deleted, OwnTasks
      <4> QED BY <4>1, <4>2
    <3>7. OwnOrders' = OwnOrders /\ \A r \in OwnOrders : task'[r].images = task[r].images
      BY <1>1, <2>1, <2>5 DEF OwnOrders, OwnTasks
    <3>8. OwnOrders' = {} => Level'
      BY <1>2, <3>3, <3>4, <3>6, <3>7 DEF Level, Keeps
    <3>9. ASSUME NEW r \in Calls, SentLastOf(r)' PROVE LevelAfter(task[r].images)'
      <4>1. SentLastOf(r) /\ r \in OwnOrders
        BY <1>1, <3>7, <3>9 DEF SentLastOf
      <4>2. LevelAfter(task[r].images) /\ task'[r].images = task[r].images
        BY <3>3, <3>7, <4>1
      <4> QED BY <1>2, <3>4, <3>6, <4>2 DEF LevelAfter, Keeps
    <3> QED BY <1>2, <2>5, <3>3, <3>4, <3>5, <3>8, <3>9
  <2>7. PictureStateInv' /\ QueueInv'
    <3>1. \A r \in Calls : (task'[r].pc = "sent" /\ task'[r].kind = "order")
                             <=> (task[r].pc = "sent" /\ task[r].kind = "order")
      BY <1>1, <2>1, <2>5
    <3> QED BY <1>3, <2>5, <3>1
  <2> QED BY <2>5, <2>6, <2>7
<1> QED BY <1>4, <1>5

LEMMA OrderServed ==
  ASSUME PictureInv, NEW q \in Calls, ServeOrder(q)
  PROVE  PictureInv'
<1> USE DEF PictureInv
<1> DEFINE wanted == task[q].images
           accepted == ToSet(wanted) = ToSet(gallery)
           pc == IF accepted THEN "ok" ELSE "refused"
           t == [task[q] EXCEPT !.pc = pc]
<1>1. /\ task[q].pc = "sent" /\ task[q].kind = "order" /\ task[q] \in TaskState
      /\ gallery' = IF accepted THEN wanted ELSE gallery
      /\ task[q].mine => task' = [task EXCEPT ![q] = t]
      /\ ~ task[q].mine => Done(q)
      /\ orders' = Without(orders, q)
      /\ spoiled' = (spoiled \/ ~ task[q].mine \/ Head(orders) # q)
      /\ UNCHANGED <<born, album>>
  <2>1. task[q].mine => task' = [task EXCEPT ![q].pc = pc]
    BY DEF ServeOrder, Reply
  <2>2. [task EXCEPT ![q].pc = pc] = [task EXCEPT ![q] = t]
    OBVIOUS
  <2> QED BY <2>1, <2>2 DEF ServeOrder, Reply, PictureStateInv
<1>2. wanted \in Distinct /\ gallery' \in Distinct /\ ToSet(gallery') = ToSet(gallery)
  BY <1>1 DEF PictureStateInv, TaskState
<1>3. /\ orders' \in Seq(Calls) /\ IsInjective(orders') /\ ToSet(orders') = ToSet(orders) \ {q}
      /\ \A x, y : Before(orders', x, y) <=> Before(orders, x, y) /\ x # q /\ y # q
  BY <1>1, WithoutOrder DEF QueueInv
<1>4. ASSUME task' \in [Calls -> TaskState], \A r \in Calls \ {q} : task'[r] = task[r],
             task'[q].pc # "sent"
      PROVE  PictureStateInv' /\ QueueInv'
  BY <1>1, <1>2, <1>3, <1>4 DEF PictureStateInv, QueueInv
<1>5. CASE ~ task[q].mine
  <2>1. /\ task' \in [Calls -> TaskState] /\ task'[q] = NoTask
        /\ \A r \in Calls \ {q} : task'[r] = task[r]
        /\ (\A r \in Calls : Orderly(task[r])') /\ VisitInv' /\ BatchInv'
    BY <1>1, <1>2, <1>5, TaskEnds
  <2>2. SyncInv'
    BY <1>1, <1>5 DEF SyncInv, Trouble
  <2>3. NoTask.pc # "sent"
    BY DEF NoTask
  <2> QED BY <1>4, <2>1, <2>2, <2>3
<1>6. CASE task[q].mine
  <2>1. /\ t \in TaskState /\ t.mine /\ t.kind = "order" /\ t.image = task[q].image
        /\ t.pc = pc /\ t.images = wanted
    BY <1>1, <1>6 DEF TaskState
  <2>2. task' = [task EXCEPT ![q] = t]
    BY <1>1, <1>6
  <2> HIDE DEF t
  <2>3. Orderly(t)
    <3>1. ToSet(wanted) \subseteq born
      BY <1>1 DEF Orderly, NoTask
    <3> QED BY <2>1, <3>1, PictureAssumption DEF Orderly
  <2>4. /\ task' \in [Calls -> TaskState] /\ task'[q] = t
        /\ \A r \in Calls \ {q} : task'[r] = task[r]
        /\ (\A r \in Calls : Orderly(task[r])') /\ VisitInv' /\ BatchInv'
        /\ OwnTasks' = OwnTasks /\ Uploads' = Uploads
        /\ \A r \in Uploads : Added(r)' = Added(r)
    <3>1. /\ task[q].pc # "idle" /\ task[q].kind # "upload" /\ t.mine = task[q].mine
          /\ t.kind = task[q].kind /\ t.image = task[q].image
          /\ born' = born /\ album' = album
          /\ ToSet(gallery') \subseteq ToSet(gallery)
          /\ ~ (t.mine /\ t.kind = "delete" /\ t.pc = "ok")
      BY <1>1, <1>2, <1>6, <2>1
    <3> QED BY <2>1, <2>2, <2>3, <3>1, TaskMoves
  <2>5. SyncInv'
    <3> SUFFICES ASSUME ~ Trouble' PROVE SyncInv'
      BY DEF SyncInv
    <3>1. q \in OwnTasks /\ accepted /\ Head(orders) = q /\ ~ Trouble
      <4>1. q \in OwnTasks
        BY <1>6 DEF OwnTasks
      <4>2. task'[q].pc # "refused" /\ ~ spoiled /\ Head(orders) = q
        BY <1>1, <1>6, <2>4, <4>1 DEF Trouble
      <4>3. \A r \in OwnTasks : task[r].pc # "refused"
        BY <1>1, <2>4 DEF Trouble, OwnTasks
      <4> QED BY <2>1, <2>4, <4>1, <4>2, <4>3 DEF Trouble
    <3>2. \A r \in OwnTasks : task[r].kind # "load" /\ task'[r].kind # "load"
      BY <1>1, <2>1, <2>4, <3>1, NoLoadWith DEF OwnTasks
    <3> SUFFICES ASSUME Editing
                 PROVE /\ \A r, u \in Uploads' : r = u
                       /\ ToSet(Batch') \subseteq ToSet(gallery')
                       /\ OwnOrders' = {} => Level'
                       /\ \A r \in Calls : SentLastOf(r)' => LevelAfter(task[r].images)'
      BY <1>1, <2>4, <3>2 DEF SyncInv, Editing
    <3>3. /\ \A r, u \in Uploads : r = u
          /\ ToSet(Batch) \subseteq ToSet(gallery)
          /\ \A r \in Calls : SentLastOf(r) => LevelAfter(task[r].images)
      BY <3>1, InSync
    <3>4. Batch' = Batch /\ Settled' = Settled
      BY <1>1, <2>4, <3>3, BatchStays DEF Settled
    <3>5. Deleted' = Deleted
      BY <1>1, <2>1, <2>4 DEF Deleted, OwnTasks
    <3>6. /\ OwnOrders' = OwnOrders \ {q} /\ q \in OwnOrders
          /\ \A r \in OwnOrders' : task'[r].images = task[r].images
      BY <1>1, <2>1, <2>4, <3>1 DEF OwnOrders, OwnTasks
    <3>7. \A r : ~ Before(orders, r, q)
      <4>1. orders \in Seq(Calls) /\ IsInjective(orders) /\ q \in ToSet(orders)
        BY <1>1 DEF QueueInv
      <4>2. orders # <<>>
        BY <4>1, EmptyPictures
      <4>3. orders[1] = q /\ 1 \in DOMAIN orders /\ DOMAIN orders \subseteq Nat \ {0}
        BY <3>1, <4>1, <4>2
      <4>4. \A k \in DOMAIN orders : orders[k] = q => k = 1
        BY <4>1, <4>3 DEF IsInjective
      <4> QED BY <4>3, <4>4 DEF Before
    <3>8. OwnOrders' = {} => Level'
      <4> SUFFICES ASSUME OwnOrders' = {} PROVE Level'
        OBVIOUS
      <4>1. SentLastOf(q)
        BY <3>6, <3>7 DEF SentLastOf
      <4>2. LevelAfter(wanted)
        BY <3>3, <4>1
      <4> QED BY <1>1, <1>2, <3>1, <3>4, <3>5, <4>2 DEF Level, LevelAfter, Keeps
    <3>9. ASSUME NEW r \in Calls, SentLastOf(r)' PROVE LevelAfter(task[r].images)'
      <4>1. r \in OwnOrders' /\ \A u \in OwnOrders' : ~ Before(orders', r, u)
        BY <3>9 DEF SentLastOf
      <4>2. SentLastOf(r)
        BY <1>3, <3>6, <3>7, <4>1 DEF SentLastOf
      <4>3. LevelAfter(task[r].images) /\ task'[r].images = task[r].images
        BY <3>3, <3>6, <4>1, <4>2
      <4> QED BY <1>2, <3>4, <3>5, <4>3 DEF LevelAfter, Keeps
    <3> QED BY <1>2, <2>4, <3>3, <3>4, <3>8, <3>9
  <2>6. PictureStateInv' /\ QueueInv'
    BY <1>4, <2>1, <2>4
  <2> QED BY <2>4, <2>5, <2>6
<1> QED BY <1>5, <1>6

\* The list of the page arrives: it is alone, and was read from the rows of today.
LEMMA PicturesAnswered ==
  ASSUME PictureInv, NEW q \in Calls, AnswerPictures(q)
  PROVE  PictureInv'
<1> USE DEF PictureInv
<1>1. /\ task[q].pc = "ok" /\ task[q].kind = "load" /\ task[q] \in TaskState
      /\ task' = [task EXCEPT ![q] = NoTask]
      /\ album' = [album EXCEPT !.loaded = TRUE, !.images = task[q].images]
      /\ UNCHANGED <<gallery, born, orders, spoiled>>
  BY DEF AnswerPictures, Done, PictureStateInv
<1>2. q \in OwnTasks /\ ToSet(task[q].images) \subseteq born
  BY <1>1, NoTaskTyped DEF Orderly, OwnTasks, NoTask
<1>3. OwnTasks = {q} /\ album.mounted
  BY <1>1, <1>2 DEF VisitInv
<1>4. /\ task' \in [Calls -> TaskState] /\ task'[q] = NoTask
      /\ \A r \in Calls \ {q} : task'[r] = task[r]
  BY <1>1, NoTaskTyped, TaskChanged
<1>5. OwnTasks' = {} /\ Uploads' = {} /\ OwnOrders' = {}
  <2>1. OwnTasks' = {}
    BY <1>3, <1>4, NoTaskTyped DEF OwnTasks
  <2> QED BY <2>1 DEF Uploads, OwnOrders
<1>6. PictureStateInv'
  <2>1. task[q].images \in Distinct
    BY <1>1 DEF TaskState
  <2> QED BY <1>1, <1>2, <1>3, <1>4, <2>1 DEF PictureStateInv
<1>7. QueueInv'
  <2>1. \A r \in Calls : (task'[r].pc = "sent" /\ task'[r].kind = "order")
                           <=> (task[r].pc = "sent" /\ task[r].kind = "order")
    BY <1>1, <1>4 DEF NoTask
  <2> QED BY <1>1, <2>1 DEF QueueInv
<1>8. \A r \in Calls : Orderly(task[r])'
  BY <1>1, <1>4 DEF Orderly
<1>9. VisitInv' /\ BatchInv'
  BY <1>5 DEF VisitInv, BatchInv
<1>10. SyncInv'
  <2>1. SUFFICES ASSUME ~ Trouble' PROVE SyncInv'
    BY DEF SyncInv
  <2>2. ~ Trouble
    BY <1>1, <1>3, <2>1 DEF Trouble
  <2>3. album'.images = gallery
    <3>1. task[q].images = gallery
      BY <1>1, <1>2, <2>2 DEF SyncInv
    <3> QED BY <1>1, <3>1 DEF PictureStateInv
  <2>4. Batch' = <<>>
    BY <1>5 DEF Batch
  <2>5. Settled' = gallery
    BY <2>3, <2>4 DEF Settled, PictureStateInv, Distinct
  <2>6. Level'
    BY <1>1, <2>5 DEF Level, Keeps
  <2> QED BY <1>5, <2>4, <2>6, EmptyPictures DEF SyncInv, SentLastOf
<1> QED BY <1>6, <1>7, <1>8, <1>9, <1>10

\* A call that leaves the rows and the pictures on the screen as they were ends.
LEMMA TaskOver ==
  ASSUME PictureInv, NEW q \in Calls, Done(q), task[q].pc # "idle", task[q].kind # "upload",
         album' = [album EXCEPT !.failed = @ \/ task[q].kind = "load"],
         gallery' = gallery, born' = born, orders' = Without(orders, q),
         spoiled' = (spoiled \/ (task[q].mine /\ ~ (task[q].kind = "order" /\ task[q].pc = "ok")))
  PROVE  PictureInv'
<1> USE DEF PictureInv
<1>1. /\ task[q] \in TaskState /\ Orderly(task[q]) /\ task[q] # NoTask
      /\ album \in [mounted : BOOLEAN, loaded : BOOLEAN, failed : BOOLEAN,
                    images : Distinct, drag : Nat]
  BY DEF PictureStateInv, NoTask
<1>2. /\ album' \in [mounted : BOOLEAN, loaded : BOOLEAN, failed : BOOLEAN,
                     images : Distinct, drag : Nat]
      /\ album'.mounted = album.mounted /\ album'.loaded = album.loaded
      /\ album'.images = album.images /\ (album.failed => album'.failed)
      /\ task[q].kind # "load" => album' = album
  BY <1>1
<1>3. task[q].kind = "load" => album.mounted
  BY <1>1 DEF Orderly, VisitInv, OwnTasks
<1>4. /\ task' \in [Calls -> TaskState] /\ task'[q] = NoTask
      /\ \A r \in Calls \ {q} : task'[r] = task[r]
      /\ (\A r \in Calls : Orderly(task[r])') /\ VisitInv' /\ BatchInv'
      /\ OwnTasks' = OwnTasks \ {q} /\ Uploads' = Uploads \ {q}
      /\ \A r \in Uploads' : Added(r)' = Added(r)
  BY <1>2, TaskEnds
<1>5. /\ orders' \in Seq(Calls) /\ IsInjective(orders') /\ ToSet(orders') = ToSet(orders) \ {q}
      /\ \A x, y : Before(orders', x, y) <=> Before(orders, x, y) /\ x # q /\ y # q
  BY WithoutOrder DEF QueueInv
<1>6. PictureStateInv'
  <2>1. ~ album'.mounted => album' = Closed
    BY <1>2, <1>3 DEF PictureStateInv
  <2> QED BY <1>2, <1>4, <2>1 DEF PictureStateInv
<1>7. QueueInv'
  BY <1>4, <1>5 DEF QueueInv, NoTask
<1>8. SyncInv'
  <2>1. SUFFICES ASSUME ~ Trouble' PROVE SyncInv'
    BY DEF SyncInv
  <2>2. ~ spoiled /\ (task[q].mine => task[q].kind = "order" /\ task[q].pc = "ok")
    BY <2>1 DEF Trouble
  <2>3. ~ Trouble
    BY <1>4, <2>1, <2>2 DEF Trouble, OwnTasks
  <2>4. Editing' => Editing
    BY <1>2 DEF Editing, PictureStateInv
  <2>5. Uploads' = Uploads
    BY <1>4 DEF Uploads
  <2>6. Editing => \A r, u \in Uploads : r = u
    BY <2>3, InSync
  <2>7. Editing => Batch' = Batch
    BY <1>4, <2>5, <2>6, BatchStays
  <2>8. Deleted' = Deleted
    BY <1>4, <2>2 DEF Deleted, OwnTasks
  <2>9. OwnOrders' = OwnOrders /\ q \notin OwnOrders
    <3>1. q \notin OwnOrders
      BY <2>2 DEF OwnOrders, OwnTasks
    <3> QED BY <1>4, <3>1 DEF OwnOrders, OwnTasks
  <2>10. \A r \in OwnTasks' : task'[r].kind = "load" /\ task'[r].pc = "ok" => task'[r].images = gallery'
    BY <1>4, <2>3 DEF SyncInv, OwnTasks
  <2>11. \A r \in OwnOrders : task'[r].images = task[r].images
    BY <1>4, <2>9 DEF OwnOrders, OwnTasks
  <2>12. \A r, u \in OwnOrders : Before(orders', r, u) <=> Before(orders, r, u)
    BY <1>5, <2>9
  <2> QED BY <1>2, <2>3, <2>4, <2>5, <2>6, <2>7, <2>8, <2>9, <2>10, <2>11, <2>12, PicturesStay
<1> QED BY <1>4, <1>6, <1>7, <1>8

LEMMA OrderAnswered ==
  ASSUME PictureInv, NEW q \in Calls, AnswerOrder(q)
  PROVE  PictureInv'
<1>1. /\ task[q].pc = "ok" /\ task[q].kind = "order" /\ Done(q)
      /\ UNCHANGED <<gallery, born, album, orders, spoiled>>
  BY DEF AnswerOrder
<1>2. q \notin ToSet(orders) /\ orders' = Without(orders, q)
  BY <1>1 DEF PictureInv, QueueInv, Without
<1>3. album' = [album EXCEPT !.failed = @ \/ task[q].kind = "load"]
  BY <1>1 DEF PictureInv, PictureStateInv
<1>4. spoiled' = (spoiled \/ (task[q].mine /\ ~ (task[q].kind = "order" /\ task[q].pc = "ok")))
  BY <1>1 DEF PictureInv, PictureStateInv
<1> QED BY <1>1, <1>2, <1>3, <1>4, TaskOver

\* The page drops a picture that the service had deleted: the order stays.
LEMMA DeletionAnswered ==
  ASSUME PictureInv, NEW q \in Calls, AnswerDelete(q)
  PROVE  PictureInv'
<1> USE DEF PictureInv
<1> DEFINE i == task[q].image
<1>1. /\ task[q].pc = "ok" /\ task[q].kind = "delete" /\ task[q] \in TaskState /\ Done(q)
      /\ album' = [album EXCEPT !.images = Without(@, i)]
      /\ UNCHANGED <<gallery, born, orders, spoiled>>
  BY DEF AnswerDelete, PictureStateInv
<1>2. q \in OwnTasks
  BY <1>1 DEF Orderly, OwnTasks, NoTask
<1>3. /\ album \in [mounted : BOOLEAN, loaded : BOOLEAN, failed : BOOLEAN,
                    images : Distinct, drag : Nat]
      /\ album.mounted
  BY <1>2 DEF PictureStateInv, VisitInv
<1>4. /\ album'.images = Without(album.images, i) /\ album'.images \in Distinct
      /\ ToSet(album'.images) = ToSet(album.images) \ {i}
      /\ \A x, y : Before(album'.images, x, y) <=> Before(album.images, x, y) /\ x # i /\ y # i
  <2>1. album'.images = Without(album.images, i)
    BY <1>1, <1>3
  <2> QED BY <1>3, <2>1, WithoutOrder DEF Distinct
<1>5. /\ album' \in [mounted : BOOLEAN, loaded : BOOLEAN, failed : BOOLEAN,
                     images : Distinct, drag : Nat]
      /\ album'.mounted = album.mounted /\ album'.loaded = album.loaded
      /\ album'.failed = album.failed
  <2>1. Without(album.images, i) \in Distinct
    BY <1>4
  <2> QED BY <1>1, <1>3, <2>1
<1>6. /\ task' \in [Calls -> TaskState] /\ task'[q] = NoTask
      /\ \A r \in Calls \ {q} : task'[r] = task[r]
      /\ (\A r \in Calls : Orderly(task[r])') /\ VisitInv' /\ BatchInv'
      /\ OwnTasks' = OwnTasks \ {q} /\ Uploads' = Uploads \ {q}
      /\ \A r \in Uploads' : Added(r)' = Added(r)
  BY <1>1, <1>4, <1>5, TaskEnds
<1>7. PictureStateInv'
  BY <1>1, <1>3, <1>4, <1>5, <1>6 DEF PictureStateInv
<1>8. QueueInv'
  <2>1. \A r \in Calls : (task'[r].pc = "sent" /\ task'[r].kind = "order")
                           <=> (task[r].pc = "sent" /\ task[r].kind = "order")
    BY <1>1, <1>6 DEF NoTask
  <2> QED BY <1>1, <2>1 DEF QueueInv
<1>9. SyncInv'
  <2> SUFFICES ASSUME ~ Trouble' PROVE SyncInv'
    BY DEF SyncInv
  <2>1. ~ Trouble
    BY <1>1, <1>6 DEF Trouble, OwnTasks
  <2>2. \A r \in OwnTasks : task[r].kind # "load" /\ (r \in OwnTasks' => task'[r].kind # "load")
    BY <1>1, <1>2, <1>6, NoLoadWith DEF OwnTasks
  <2> SUFFICES ASSUME Editing
               PROVE /\ \A r, u \in Uploads' : r = u
                     /\ ToSet(Batch') \subseteq ToSet(gallery')
                     /\ OwnOrders' = {} => Level'
                     /\ \A r \in Calls : SentLastOf(r)' => LevelAfter(task[r].images)'
    BY <1>5, <1>6, <2>2 DEF SyncInv, Editing
  <2>3. /\ \A r, u \in Uploads : r = u
        /\ ToSet(Batch) \subseteq ToSet(gallery)
        /\ OwnOrders = {} => Level
        /\ \A r \in Calls : SentLastOf(r) => LevelAfter(task[r].images)
    BY <2>1, InSync
  <2>4. Uploads' = Uploads
    BY <1>1, <1>6 DEF Uploads
  <2>5. Batch' = Batch
    BY <1>6, <2>3, <2>4, BatchStays
  <2>6. i \notin ToSet(Batch) /\ i \notin ToSet(gallery)
    BY <1>1, <1>2, <2>3 DEF BatchInv
  <2>7. Batch \in Distinct
    BY AddedTyped
  <2>8. /\ ToSet(Settled) = ToSet(album.images) \cup ToSet(Batch)
        /\ \A x, y : Before(Settled, x, y) <=>
             \/ Before(album.images, x, y) \/ Before(Batch, x, y)
             \/ (x \in ToSet(album.images) /\ y \in ToSet(Batch))
    BY <1>3, <2>7, SettledIs DEF Settled
  <2>9. /\ ToSet(Settled') = ToSet(album'.images) \cup ToSet(Batch)
        /\ \A x, y : Before(Settled', x, y) <=>
             \/ Before(album'.images, x, y) \/ Before(Batch, x, y)
             \/ (x \in ToSet(album'.images) /\ y \in ToSet(Batch))
    <3>1. Settled' = album'.images \o Batch
      BY <2>5 DEF Settled
    <3> QED BY <1>4, <2>7, <3>1, SettledIs
  <2>10. /\ ToSet(Settled') = ToSet(Settled) \ {i}
         /\ \A x, y \in ToSet(Settled') : Before(Settled, x, y) => Before(Settled', x, y)
    BY <1>4, <2>6, <2>8, <2>9
  <2>11. Deleted \subseteq Deleted' \cup {i}
    <3>1. \A r \in OwnTasks \ {q} : r \in OwnTasks' /\ task'[r] = task[r]
      BY <1>6 DEF OwnTasks
    <3> QED BY <3>1 DEF Deleted
  <2>12. /\ OwnOrders' = OwnOrders
         /\ \A r \in OwnOrders : task'[r].images = task[r].images
    <3>1. q \notin OwnOrders
      BY <1>1 DEF OwnOrders
    <3> QED BY <1>6, <3>1 DEF OwnOrders, OwnTasks
  <2>13. OwnOrders' = {} => Level'
    BY <1>1, <2>3, <2>6, <2>10, <2>11, <2>12 DEF Level, Keeps
  <2>14. ASSUME NEW r \in Calls, SentLastOf(r)' PROVE LevelAfter(task[r].images)'
    <3>1. SentLastOf(r) /\ r \in OwnOrders
      BY <1>1, <2>12, <2>14 DEF SentLastOf
    <3>2. LevelAfter(task[r].images) /\ task'[r].images = task[r].images
      BY <2>3, <2>12, <3>1
    <3> QED BY <1>1, <2>6, <2>10, <2>11, <3>2 DEF LevelAfter, Keeps
  <2> QED BY <1>1, <2>3, <2>4, <2>5, <2>13, <2>14
<1> QED BY <1>6, <1>7, <1>8, <1>9

\* One file of a batch is over: its pictures stay its own, or become those of the page.
LEMMA FileOver ==
  ASSUME PictureInv, NEW q \in Calls, task[q].kind = "upload", NEW up \in Distinct,
         ToSet(up) \subseteq born, task[q].mine => ToSet(up) \subseteq ToSet(Added(q)),
         NextFile(q, up), gallery' = gallery, born' = born, orders' = orders,
         spoiled' \in BOOLEAN
  PROVE  /\ PictureStateInv' /\ QueueInv' /\ (\A r \in Calls : Orderly(task[r])')
         /\ VisitInv' /\ BatchInv'
         /\ \A r \in Calls \ {q} : task'[r] = task[r]
         /\ ~ task[q].mine => ~ task'[q].mine /\ album' = album
         /\ task'[q].pc # "refused" /\ task'[q].kind \in {"upload", None}
         /\ album'.loaded = album.loaded /\ album'.failed = album.failed
         /\ OwnTasks' \subseteq OwnTasks /\ OwnTasks \subseteq OwnTasks' \cup {q}
<1> USE DEF PictureInv
<1> DEFINE t == [task[q] EXCEPT !.pc = "sent", !.left = @ - 1, !.image = None,
                                !.images = IF task[q].mine THEN up ELSE <<>>]
<1>1. /\ task[q] \in TaskState /\ Orderly(task[q]) /\ task[q] # NoTask
      /\ task[q].pc \in {"sent", "ok"}
      /\ album \in [mounted : BOOLEAN, loaded : BOOLEAN, failed : BOOLEAN,
                    images : Distinct, drag : Nat]
      /\ Uploads \subseteq OwnTasks /\ (task[q].mine <=> q \in OwnTasks)
      /\ (task[q].mine <=> q \in Uploads)
  <2>1. task[q] \in TaskState /\ Orderly(task[q]) /\ task[q] # NoTask
    BY PictureAssumption DEF PictureStateInv, NoTask
  <2> QED BY <2>1 DEF PictureStateInv, Orderly, Uploads, OwnTasks
<1>2. CASE task[q].left > 1
  <2>1. /\ t \in TaskState /\ t.pc = "sent" /\ t.kind = "upload" /\ t.mine = task[q].mine
        /\ t.images = IF task[q].mine THEN up ELSE <<>>
    <3>1. /\ task[q].left - 1 \in Nat
          /\ (IF task[q].mine THEN up ELSE <<>>) \in Distinct
      BY <1>1, <1>2, EmptyPictures DEF TaskState
    <3> DEFINE kept == IF task[q].mine THEN up ELSE <<>>
    <3> HIDE DEF kept
    <3>2. t = [task[q] EXCEPT !.pc = "sent", !.left = @ - 1, !.image = None, !.images = kept]
      BY DEF kept
    <3>3. kept \in Distinct
      BY <3>1 DEF kept
    <3>4. t \in TaskState /\ t.images = kept
      BY <1>1, <3>1, <3>2, <3>3 DEF TaskState
    <3>5. t.pc = "sent" /\ t.kind = "upload" /\ t.mine = task[q].mine
      BY <1>1, <3>2 DEF TaskState
    <3> QED BY <3>4, <3>5 DEF kept
  <2>2. task' = [task EXCEPT ![q] = t] /\ album' = album
    <3>1. [task EXCEPT ![q].pc = "sent", ![q].left = @ - 1, ![q].image = None,
                       ![q].images = IF task[q].mine THEN up ELSE <<>>]
            = [task EXCEPT ![q] = t]
      BY DEF PictureStateInv
    <3> QED BY <1>2, <3>1 DEF NextFile
  <2> HIDE DEF t
  <2>3. /\ task' \in [Calls -> TaskState] /\ task'[q] = t
        /\ \A r \in Calls \ {q} : task'[r] = task[r]
    BY <2>1, <2>2, TaskChanged
  <2>4. OwnTasks' = OwnTasks /\ Uploads' = Uploads
    BY <1>1, <2>1, <2>3 DEF OwnTasks, Uploads
  <2>5. \A r \in Uploads : ToSet(Added(r)') \subseteq ToSet(Added(r))
    <3>1. TAKE r \in Uploads
    <3>2. CASE r # q
      BY <2>3, <3>2 DEF Added, Uploads, OwnTasks
    <3>3. CASE r = q
      BY <1>1, <2>1, <2>3, <3>3 DEF Added
    <3> QED BY <3>2, <3>3
  <2>6. PictureStateInv'
    BY <2>2, <2>3 DEF PictureStateInv
  <2>7. QueueInv'
    BY <2>1, <2>3 DEF QueueInv
  <2>8. \A r \in Calls : Orderly(task[r])'
    <3>1. Orderly(task[q])'
      BY <2>1, <2>3, EmptyPictures, PictureAssumption DEF Orderly
    <3> QED BY <2>3, <3>1 DEF Orderly
  <2>9. VisitInv'
    BY <2>1, <2>2, <2>3, <2>4 DEF VisitInv, OwnTasks
  <2>10. BatchInv'
    <3>1. \A r \in OwnTasks : task'[r].kind = "delete" =>
            task[r].kind = "delete" /\ task'[r] = task[r]
      BY <2>1, <2>3 DEF OwnTasks
    <3> QED BY <2>2, <2>4, <2>5, <3>1 DEF BatchInv
  <2> QED BY <2>1, <2>2, <2>3, <2>4, <2>6, <2>7, <2>8, <2>9, <2>10
<1>3. CASE ~ (task[q].left > 1)
  <2>1. /\ task' = [task EXCEPT ![q] = NoTask]
        /\ album' = IF task[q].mine THEN [album EXCEPT !.images = @ \o up] ELSE album
    BY <1>3 DEF NextFile, Done
  <2>2. /\ task' \in [Calls -> TaskState] /\ task'[q] = NoTask
        /\ \A r \in Calls \ {q} : task'[r] = task[r]
    BY <2>1, NoTaskTyped, TaskChanged
  <2>3. OwnTasks' = OwnTasks \ {q} /\ Uploads' = Uploads \ {q}
    BY <2>2, NoTaskTyped DEF OwnTasks, Uploads
  <2>4. \A r \in Uploads' : r # q /\ r \in Uploads /\ Added(r)' = Added(r)
    BY <2>2, <2>3 DEF Added, Uploads, OwnTasks
  <2>5. /\ album' \in [mounted : BOOLEAN, loaded : BOOLEAN, failed : BOOLEAN,
                       images : Distinct, drag : Nat]
        /\ album'.mounted = album.mounted /\ album'.loaded = album.loaded
        /\ album'.failed = album.failed
        /\ task[q].mine => ToSet(album'.images) = ToSet(album.images) \cup ToSet(up)
        /\ ~ task[q].mine => album' = album
    <3>1. CASE ~ task[q].mine
      BY <1>1, <2>1, <3>1
    <3>2. CASE task[q].mine
      <4>1. ToSet(album.images) \cap ToSet(up) = {}
        BY <1>1, <3>2 DEF BatchInv
      <4>2. album.images \o up \in Distinct /\ ToSet(album.images \o up) = ToSet(album.images) \cup ToSet(up)
        BY <1>1, <4>1, SettledIs
      <4> QED BY <1>1, <2>1, <3>2, <4>2
    <3> QED BY <3>1, <3>2
  <2>6. PictureStateInv'
    <3>1. ~ album'.mounted => album' = Closed
      BY <1>1, <2>5 DEF PictureStateInv, VisitInv
    <3>2. ToSet(album'.images) \subseteq born
      BY <2>5 DEF PictureStateInv
    <3> QED BY <2>2, <2>5, <3>1, <3>2 DEF PictureStateInv
  <2>7. QueueInv'
    <3>1. \A r \in Calls : (task'[r].pc = "sent" /\ task'[r].kind = "order")
                             <=> (task[r].pc = "sent" /\ task[r].kind = "order")
      BY <2>2 DEF NoTask
    <3> QED BY <3>1 DEF QueueInv
  <2>8. \A r \in Calls : Orderly(task[r])'
    BY <2>2 DEF Orderly
  <2>9. VisitInv'
    BY <2>2, <2>3, <2>5 DEF VisitInv, OwnTasks
  <2>10. BatchInv'
    <3>1. \A r \in Uploads' : ToSet(Added(r)') \cap ToSet(album'.images) = {}
      <4>1. TAKE r \in Uploads'
      <4>2. CASE ~ task[q].mine
        BY <2>4, <2>5, <4>2 DEF BatchInv
      <4>3. CASE task[q].mine
        <5>1. ToSet(Added(r)) \cap ToSet(Added(q)) = {}
          BY <1>1, <2>4, <4>3 DEF BatchInv
        <5> QED BY <2>4, <2>5, <4>3, <5>1 DEF BatchInv
      <4> QED BY <4>2, <4>3
    <3>2. \A r, u \in Uploads' : r # u => ToSet(Added(r)') \cap ToSet(Added(u)') = {}
      BY <2>4 DEF BatchInv
    <3>3. \A r \in OwnTasks' : r \in OwnTasks /\ task'[r] = task[r]
      BY <2>2, <2>3 DEF OwnTasks
    <3> QED BY <2>4, <3>1, <3>2, <3>3 DEF BatchInv
  <2> QED BY <2>2, <2>3, <2>5, <2>6, <2>7, <2>8, <2>9, <2>10, NoTaskTyped DEF NoTask
<1> QED BY <1>2, <1>3

\* A batch nobody waits for changes nothing on the screen.
LEMMA StrayFileOver ==
  ASSUME PictureInv, NEW q \in Calls, task[q].kind = "upload", ~ task[q].mine,
         NEW up \in Distinct, ToSet(up) \subseteq born,
         NextFile(q, up), gallery' = gallery, born' = born, orders' = orders, spoiled' = spoiled
  PROVE  PictureInv'
<1> USE DEF PictureInv
<1>1. spoiled' \in BOOLEAN
  BY DEF PictureStateInv
<1>2. /\ PictureStateInv' /\ QueueInv' /\ (\A r \in Calls : Orderly(task[r])')
      /\ VisitInv' /\ BatchInv'
      /\ \A r \in Calls \ {q} : task'[r] = task[r]
      /\ ~ task'[q].mine /\ album' = album
  BY <1>1, FileOver
<1>3. OwnTasks' = OwnTasks /\ q \notin OwnTasks /\ \A r \in OwnTasks : task'[r] = task[r]
  BY <1>2 DEF OwnTasks
<1>4. Uploads' = Uploads /\ \A r \in Uploads : Added(r)' = Added(r)
  BY <1>3 DEF Uploads, Added
<1>5. (Trouble' <=> Trouble) /\ Deleted' = Deleted /\ OwnOrders' = OwnOrders
  <2>1. Trouble' <=> Trouble
    BY <1>3 DEF Trouble
  <2>2. Deleted' = Deleted
    BY <1>3 DEF Deleted
  <2>3. OwnOrders' = OwnOrders
    BY <1>3 DEF OwnOrders
  <2> QED BY <2>1, <2>2, <2>3
<1>6. \A r \in OwnOrders : task'[r].images = task[r].images
  BY <1>3 DEF OwnOrders
<1>7. SyncInv'
  <2>1. SUFFICES ASSUME ~ Trouble' PROVE SyncInv'
    BY DEF SyncInv
  <2>2. \A r \in OwnTasks' : task'[r].kind = "load" /\ task'[r].pc = "ok" => task'[r].images = gallery'
    BY <1>3, <1>5, <2>1 DEF SyncInv
  <2>3. Editing' => Editing
    BY <1>2 DEF Editing
  <2>4. Editing => (\A r, u \in Uploads : r = u) /\ Batch' = Batch
    BY <1>4, <1>5, <2>1, InSync, BatchStays
  <2> QED BY <1>2, <1>4, <1>5, <1>6, <2>1, <2>2, <2>3, <2>4, PicturesStay
<1> QED BY <1>2, <1>7

LEMMA UploadAnswered ==
  ASSUME PictureInv, NEW q \in Calls, AnswerUpload(q)
  PROVE  PictureInv'
<1> USE DEF PictureInv
<1> DEFINE up == Append(task[q].images, task[q].image)
<1>1. /\ task[q].pc = "ok" /\ task[q].kind = "upload" /\ task[q] \in TaskState
      /\ NextFile(q, up)
      /\ gallery' = gallery /\ born' = born /\ orders' = orders /\ spoiled' = spoiled
  BY DEF AnswerUpload, PictureStateInv
<1>2. up \in Distinct /\ ToSet(up) \subseteq born /\ up = Added(q)
  <2>1. /\ task[q].images \in Seq(Pictures) /\ IsInjective(task[q].images)
        /\ ToSet(task[q].images) \subseteq born
        /\ task[q].image \in born \ ToSet(task[q].images) /\ task[q].image \in Pictures
    BY <1>1 DEF TaskState, Distinct, Orderly, NoTask, PictureStateInv
  <2> QED BY <1>1, <2>1, AppendOrder DEF Distinct, Added
<1> HIDE DEF up
<1>3. CASE ~ task[q].mine
  BY <1>1, <1>2, <1>3, StrayFileOver
<1>4. CASE task[q].mine
  <2>1. spoiled' \in BOOLEAN
    BY <1>1 DEF PictureStateInv
  <2>2. /\ PictureStateInv' /\ QueueInv' /\ (\A r \in Calls : Orderly(task[r])')
        /\ VisitInv' /\ BatchInv'
        /\ \A r \in Calls \ {q} : task'[r] = task[r]
        /\ task'[q].pc # "refused" /\ task'[q].kind \in {"upload", None}
        /\ album'.loaded = album.loaded /\ album'.failed = album.failed
        /\ OwnTasks' \subseteq OwnTasks /\ OwnTasks \subseteq OwnTasks' \cup {q}
    BY <1>1, <1>2, <2>1, FileOver
  <2>3. q \in Uploads /\ q \in OwnTasks
    BY <1>1, <1>4 DEF Uploads, OwnTasks
  <2>4. SyncInv'
    <3>1. SUFFICES ASSUME ~ Trouble' PROVE SyncInv'
      BY DEF SyncInv
    <3>2. ~ Trouble
      BY <1>1, <2>2, <3>1 DEF Trouble, OwnTasks
    <3>3. Editing' => Editing
      BY <2>2 DEF Editing
    <3>4. \A r \in OwnTasks' : task'[r].kind # "load"
      BY <1>1, <2>2, <2>3, NoLoadWith, PictureAssumption DEF OwnTasks
    <3>5. Uploads' \subseteq Uploads
      BY <1>1, <2>2 DEF Uploads, OwnTasks
    <3>6. Editing => Uploads = {q}
      BY <2>3, <3>2, InSync
    <3>7. Editing => Batch = up
      BY <1>2, <2>3, <3>6, BatchOfOne
    <3>8. Editing => Settled' = Settled /\ ToSet(Batch') \subseteq ToSet(Batch)
      <4>1. SUFFICES ASSUME Editing PROVE Settled' = Settled /\ ToSet(Batch') \subseteq ToSet(Batch)
        OBVIOUS
      <4>2. CASE task[q].left > 1
        <5>1. /\ album' = album
              /\ task'[q].pc = "sent" /\ task'[q].kind = "upload" /\ task'[q].mine
              /\ task'[q].images = up
          BY <1>1, <1>4, <4>2 DEF NextFile, PictureStateInv, TaskState
        <5>2. Uploads' = {q} /\ Added(q)' = up
          BY <3>5, <3>6, <4>1, <5>1 DEF Uploads, OwnTasks, Added
        <5>3. Batch' = up
          BY <5>2 DEF Batch
        <5> QED BY <3>7, <4>1, <5>1, <5>3 DEF Settled
      <4>3. CASE ~ (task[q].left > 1)
        <5>1. Done(q) /\ album'.images = album.images \o up
          BY <1>1, <1>4, <4>3 DEF NextFile, PictureStateInv
        <5>2. task'[q] = NoTask
          BY <5>1 DEF Done, PictureStateInv
        <5>3. Uploads' = {}
          BY <3>5, <3>6, <4>1, <5>2, NoTaskTyped DEF Uploads, OwnTasks
        <5>4. Batch' = <<>>
          BY <5>3 DEF Batch
        <5>5. Settled' = album'.images
          BY <2>2, <5>4 DEF Settled, PictureStateInv, Distinct
        <5> QED BY <3>7, <4>1, <5>1, <5>4, <5>5, EmptyPictures DEF Settled
      <4> QED BY <4>2, <4>3
    <3>9. Deleted \subseteq Deleted'
      BY <1>1, <2>2 DEF Deleted, OwnTasks
    <3>10. /\ OwnOrders' = OwnOrders
           /\ \A r \in OwnOrders : task'[r].images = task[r].images
      <4>1. q \notin OwnOrders
        BY <1>1 DEF OwnOrders
      <4>2. q \notin OwnOrders'
        BY <2>2, PictureAssumption DEF OwnOrders
      <4> QED BY <2>2, <4>1, <4>2 DEF OwnOrders, OwnTasks
    <3>11. \A r, u \in OwnOrders : Before(orders', r, u) <=> Before(orders, r, u)
      BY <1>1
    <3>12. Editing => \A r, u \in Uploads' : r = u
      BY <3>5, <3>6
    <3> QED BY <1>1, <3>2, <3>3, <3>4, <3>8, <3>9, <3>10, <3>11, <3>12, SettledStays
  <2> QED BY <2>2, <2>4
<1> QED BY <1>3, <1>4

LEMMA FailedTask ==
  ASSUME PictureInv, NEW q \in Calls, TaskFails(q)
  PROVE  PictureInv'
<1> USE DEF PictureInv
<1>1. /\ task[q].pc # "idle" /\ task[q] \in TaskState
      /\ orders' = Without(orders, q) /\ spoiled' = (spoiled \/ task[q].mine)
      /\ gallery' = gallery /\ born' = born
  BY DEF TaskFails, PictureStateInv
<1>2. task[q].mine \in BOOLEAN /\ spoiled \in BOOLEAN
  BY <1>1 DEF TaskState, PictureStateInv
<1>3. CASE task[q].kind = "upload"
  <2>1. NextFile(q, task[q].images)
    BY <1>3 DEF TaskFails
  <2>2. orders' = orders
    BY <1>1, <1>3 DEF QueueInv, Without
  <2>3. /\ task[q].images \in Distinct /\ ToSet(task[q].images) \subseteq born
        /\ ToSet(task[q].images) \subseteq ToSet(Added(q))
    <3>1. task[q].images \in Distinct /\ ToSet(task[q].images) \subseteq born
      BY <1>1 DEF TaskState, Orderly, NoTask
    <3>2. CASE task[q].pc = "ok"
      <4>1. task[q].images \in Seq(Pictures) /\ task[q].image \in Pictures
        BY <1>1, <1>3, <3>2 DEF Orderly, NoTask, TaskState, Distinct, PictureStateInv
      <4> QED BY <3>1, <3>2, <4>1, AppendOrder DEF Added
    <3>3. CASE task[q].pc # "ok"
      BY <3>1, <3>3 DEF Added
    <3> QED BY <3>1, <3>2, <3>3
  <2>4. CASE task[q].mine
    <3>1. spoiled' \in BOOLEAN /\ Trouble'
      BY <1>1, <2>4 DEF Trouble
    <3>2. SyncInv'
      BY <3>1 DEF SyncInv
    <3> QED BY <1>1, <1>3, <2>1, <2>2, <2>3, <3>1, <3>2, FileOver
  <2>5. CASE ~ task[q].mine
    BY <1>1, <1>2, <1>3, <2>1, <2>2, <2>3, <2>5, StrayFileOver
  <2> QED BY <2>4, <2>5
<1>4. CASE task[q].kind # "upload"
  <2>1. Done(q) /\ album' = [album EXCEPT !.failed = @ \/ task[q].kind = "load"]
    BY <1>4 DEF TaskFails
  <2>2. CASE ~ (task[q].mine /\ task[q].kind = "order" /\ task[q].pc = "ok")
    <3>1. spoiled' = (spoiled \/ (task[q].mine /\ ~ (task[q].kind = "order" /\ task[q].pc = "ok")))
      BY <1>1, <1>2, <2>2
    <3> QED BY <1>1, <1>4, <2>1, <3>1, TaskOver
  <2>3. CASE task[q].mine /\ task[q].kind = "order" /\ task[q].pc = "ok"
    <3>1. album' = album /\ q \notin ToSet(orders) /\ orders' = orders
      BY <1>1, <2>1, <2>3 DEF PictureStateInv, QueueInv, Without
    <3>2. /\ task' \in [Calls -> TaskState] /\ task'[q] = NoTask
          /\ \A r \in Calls \ {q} : task'[r] = task[r]
          /\ (\A r \in Calls : Orderly(task[r])') /\ VisitInv' /\ BatchInv'
      BY <1>1, <2>1, <3>1, TaskEnds
    <3>3. PictureStateInv'
      BY <1>1, <1>2, <3>1, <3>2 DEF PictureStateInv
    <3>4. QueueInv'
      <4>1. \A r \in Calls : (task'[r].pc = "sent" /\ task'[r].kind = "order")
                               <=> (task[r].pc = "sent" /\ task[r].kind = "order")
        BY <2>3, <3>2 DEF NoTask
      <4> QED BY <3>1, <4>1 DEF QueueInv
    <3>5. SyncInv'
      BY <1>1, <2>3 DEF SyncInv, Trouble
    <3> QED BY <3>2, <3>3, <3>4, <3>5
  <2> QED BY <2>2, <2>3
<1> QED BY <1>3, <1>4

LEMMA TaskLost ==
  ASSUME PictureInv, NEW q \in Calls, TaskGivenUp(q)
  PROVE  PictureInv'
<1> USE DEF PictureInv
<1> DEFINE t == [task[q] EXCEPT !.mine = FALSE]
<1>1. /\ task[q].pc = "sent" /\ task[q].kind = "order" /\ task[q] \in TaskState
      /\ spoiled' = TRUE /\ UNCHANGED <<gallery, born, album, orders>>
      /\ task' = [task EXCEPT ![q].mine = FALSE]
  BY DEF TaskGivenUp, PictureStateInv
<1>2. task' = [task EXCEPT ![q] = t]
  BY <1>1
<1>3. /\ t \in TaskState /\ t.pc = "sent" /\ t.kind = "order" /\ ~ t.mine
      /\ t.images = task[q].images
  BY <1>1 DEF TaskState
<1> HIDE DEF t
<1>4. /\ task' \in [Calls -> TaskState] /\ task'[q] = t
      /\ \A r \in Calls \ {q} : task'[r] = task[r]
  BY <1>2, <1>3, TaskChanged
<1>5. /\ OwnTasks' = OwnTasks \ {q} /\ Uploads' = Uploads
      /\ \A r \in OwnTasks' : task'[r] = task[r]
  BY <1>1, <1>3, <1>4 DEF OwnTasks, Uploads
<1>6. \A r \in Uploads : Added(r)' = Added(r)
  BY <1>1, <1>4 DEF Uploads, OwnTasks, Added
<1>7. PictureStateInv' /\ QueueInv'
  <2>1. \A r \in Calls : (task'[r].pc = "sent" /\ task'[r].kind = "order")
                           <=> (task[r].pc = "sent" /\ task[r].kind = "order")
    BY <1>1, <1>3, <1>4
  <2> QED BY <1>1, <1>4, <2>1 DEF PictureStateInv, QueueInv
<1>8. \A r \in Calls : Orderly(task[r])'
  <2>1. Orderly(task[q])'
    <3>1. ToSet(task[q].images) \subseteq born
      BY <1>1 DEF Orderly, NoTask
    <3> QED BY <1>1, <1>3, <1>4, <3>1, PictureAssumption DEF Orderly
  <2> QED BY <1>1, <1>4, <2>1 DEF Orderly
<1>9. VisitInv'
  BY <1>1, <1>5 DEF VisitInv
<1>10. BatchInv'
  BY <1>1, <1>5, <1>6 DEF BatchInv
<1>11. SyncInv'
  BY <1>1 DEF SyncInv, Trouble
<1> QED BY <1>7, <1>8, <1>9, <1>10, <1>11

LEMMA PicturesTouched ==
  ASSUME PictureInv, PicturesElsewhere
  PROVE  PictureInv'
<1> USE DEF PictureInv
<1>1. /\ gallery # <<>> /\ spoiled' = TRUE /\ UNCHANGED <<born, album, task, orders>>
      /\ gallery' \in {Tail(gallery), Append(Tail(gallery), Head(gallery))}
      /\ gallery \in Seq(Pictures) /\ IsInjective(gallery)
  BY DEF PicturesElsewhere, PictureStateInv, Distinct
<1> DEFINE h == Head(gallery)
           rest == Tail(gallery)
<1>2. h \in Pictures /\ rest \in Seq(Pictures) /\ gallery = <<h>> \o rest
  BY <1>1, HeadTailProperties, SequencesInductionTail
<1> HIDE DEF h, rest
<1>3. <<h>> \in Seq(Pictures) /\ ToSet(<<h>>) = {h}
  BY <1>2, SingleOrder
<1>4. IsInjective(rest) /\ h \notin ToSet(rest) /\ ToSet(rest) \subseteq ToSet(gallery) /\ h \in ToSet(gallery)
  <2>1. IsInjective(<<h>> \o rest)
    BY <1>1, <1>2
  <2>2. IsInjective(rest) /\ ToSet(<<h>>) \cap ToSet(rest) = {}
    BY <1>2, <1>3, <2>1, PartsInjective
  <2>3. ToSet(<<h>> \o rest) = ToSet(<<h>>) \cup ToSet(rest)
    BY <1>2, <1>3, ConcatOrder
  <2> QED BY <1>2, <1>3, <2>2, <2>3
<1>5. gallery' \in Distinct /\ ToSet(gallery') \subseteq ToSet(gallery)
  <2>1. /\ Append(rest, h) \in Seq(Pictures) /\ ToSet(Append(rest, h)) = ToSet(rest) \cup {h}
        /\ IsInjective(Append(rest, h))
    BY <1>2, <1>4, AppendOrder
  <2>2. gallery' = rest \/ gallery' = Append(rest, h)
    BY <1>1 DEF h, rest
  <2> QED BY <1>2, <1>4, <2>1, <2>2 DEF Distinct
<1>6. PictureStateInv' /\ QueueInv'
  BY <1>1, <1>5 DEF PictureStateInv, QueueInv
<1>7. (\A r \in Calls : Orderly(task[r])') /\ VisitInv'
  BY <1>1 DEF Orderly, VisitInv, OwnTasks
<1>8. BatchInv'
  <2>1. OwnTasks' = OwnTasks /\ Uploads' = Uploads /\ \A r : Added(r)' = Added(r)
    BY <1>1 DEF OwnTasks, Uploads, Added
  <2> QED BY <1>1, <1>5, <2>1 DEF BatchInv
<1>9. SyncInv'
  BY <1>1 DEF SyncInv, Trouble
<1> QED BY <1>6, <1>7, <1>8, <1>9

LEMMA PictureStutter ==
  ASSUME PictureInv, UNCHANGED pictureVars
  PROVE  PictureInv'
<1> USE DEF PictureInv
<1>1. UNCHANGED <<gallery, born, album, task, orders, spoiled>>
  BY DEF pictureVars
<1>2. PictureStateInv' /\ QueueInv'
  BY <1>1 DEF PictureStateInv, QueueInv
<1>3. (\A r \in Calls : Orderly(task[r])') /\ VisitInv'
  BY <1>1 DEF Orderly, VisitInv, OwnTasks
<1>4. OwnTasks' = OwnTasks /\ Uploads' = Uploads /\ \A r : Added(r)' = Added(r)
  BY <1>1 DEF OwnTasks, Uploads, Added
<1>5. BatchInv'
  BY <1>1, <1>4 DEF BatchInv
<1>6. (Trouble' <=> Trouble) /\ Batch' = Batch /\ Deleted' = Deleted /\ OwnOrders' = OwnOrders
  BY <1>1, <1>4 DEF Trouble, Batch, Deleted, OwnOrders
<1>7. SyncInv'
  <2>1. SUFFICES ASSUME ~ Trouble' PROVE SyncInv'
    BY DEF SyncInv
  <2>2. \A r \in OwnTasks' : task'[r].kind = "load" /\ task'[r].pc = "ok" => task'[r].images = gallery'
    BY <1>1, <1>4, <1>6, <2>1 DEF SyncInv
  <2>3. Editing' => Editing
    BY <1>1 DEF Editing
  <2>4. Editing => \A r, u \in Uploads : r = u
    BY <1>6, <2>1, InSync
  <2> QED BY <1>1, <1>4, <1>6, <2>1, <2>2, <2>3, <2>4, PicturesStay
<1> QED BY <1>2, <1>3, <1>5, <1>7

LEMMA PicturesKept == PictureInv /\ [PictureNext]_pictureVars => PictureInv'
<1> SUFFICES ASSUME PictureInv, [PictureNext]_pictureVars PROVE PictureInv'
  OBVIOUS
<1>1. CASE UNCHANGED pictureVars
  BY <1>1, PictureStutter
<1>2. CASE AtAlbum
  <2>1. ASSUME NEW q \in Calls, OpenPictures(q) PROVE PictureInv'
    BY <2>1, PicturesOpened
  <2>2. CASE LeavePictures
    BY <2>2, PicturesLeft
  <2>3. ASSUME NEW q \in Calls, NEW n \in 1 .. MaxBatch, AddPictures(q, n) PROVE PictureInv'
    BY <2>3, PicturesAdded
  <2>4. ASSUME NEW q \in Calls, NEW i \in Pictures, DeletePicture(q, i) PROVE PictureInv'
    BY <2>4, PictureDeleted
  <2>5. ASSUME NEW k \in DOMAIN album.images, StartDrag(k) PROVE PictureInv'
    BY <2>5, DragStarted
  <2>6. ASSUME NEW q \in Calls, NEW k \in DOMAIN album.images, DropOn(q, k) PROVE PictureInv'
    BY <2>6, PictureDropped
  <2> QED BY <1>2, <2>1, <2>2, <2>3, <2>4, <2>5, <2>6 DEF AtAlbum
<1>3. ASSUME NEW q \in Calls, OnTask(q) PROVE PictureInv'
  <2>1. CASE ServePictures(q)
    BY <2>1, PicturesServed
  <2>2. CASE ServeDelete(q)
    BY <2>2, DeletionServed
  <2>3. CASE ServeOrder(q)
    BY <2>3, OrderServed
  <2>4. ASSUME NEW i \in Pictures, ServeUpload(q, i) PROVE PictureInv'
    BY <2>4, PictureUploaded
  <2>5. CASE AnswerPictures(q)
    BY <2>5, PicturesAnswered
  <2>6. CASE AnswerUpload(q)
    BY <2>6, UploadAnswered
  <2>7. CASE AnswerDelete(q)
    BY <2>7, DeletionAnswered
  <2>8. CASE AnswerOrder(q)
    BY <2>8, OrderAnswered
  <2>9. CASE TaskFails(q)
    BY <2>9, FailedTask
  <2>10. CASE TaskGivenUp(q)
    BY <2>10, TaskLost
  <2> QED BY <1>3, <2>1, <2>2, <2>3, <2>4, <2>5, <2>6, <2>7, <2>8, <2>9, <2>10 DEF OnTask
<1>4. CASE PicturesElsewhere
  BY <1>4, PicturesTouched
<1> QED BY <1>1, <1>2, <1>3, <1>4 DEF PictureNext

LEMMA PicturesInvariant == PictureSpec => []PictureInv
BY PicturesKept, PicturesInitially, PTL DEF PictureSpec

LEMMA PicturesAreTyped == PictureInv => PictureTypeOK
<1> SUFFICES ASSUME PictureInv PROVE PictureTypeOK
  OBVIOUS
<1>1. ASSUME NEW q \in Calls PROVE task[q].images \in Distinct
  BY DEF PictureInv, PictureStateInv, TaskState
<1>2. ASSUME NEW q \in Calls PROVE task[q].pc = "idle" <=> task[q] = NoTask
  <2>1. NoTask.pc = "idle"
    BY DEF NoTask
  <2>2. task[q] = NoTask \/ task[q].pc # "idle"
    BY DEF PictureInv, Orderly
  <2> QED BY <2>1, <2>2
<1> QED BY <1>1, <1>2 DEF PictureInv, PictureStateInv, QueueInv, PictureTypeOK

\* In every behaviour of the page, with any number of calls, pictures and files in
\* a batch: when nothing is under way and nothing went wrong, the pictures on the
\* screen are the rows in their stored order.
THEOREM ShownOrdersAreStored == PictureSpec => []ShownOrderIsStored
<1>1. PictureInv => ShownOrderIsStored
  <2> SUFFICES ASSUME PictureInv, Editing, OwnTasks = {}, ~ spoiled
               PROVE  album.images = gallery
    BY DEF ShownOrderIsStored
  <2>1. ~ Trouble /\ Uploads = {} /\ Deleted = {} /\ OwnOrders = {}
    <3>1. ~ Trouble
      BY DEF Trouble
    <3>2. Uploads = {}
      BY DEF Uploads
    <3>3. Deleted = {}
      BY DEF Deleted
    <3>4. OwnOrders = {}
      BY DEF OwnOrders
    <3> QED BY <3>1, <3>2, <3>3, <3>4
  <2>2. Batch = <<>> /\ Level
    BY <2>1, BatchOfNone, InSync
  <2>3. album.images \in Distinct /\ gallery \in Distinct
    BY DEF PictureInv, PictureStateInv
  <2>4. Settled = album.images
    BY <2>2, <2>3 DEF Settled, Distinct
  <2>5. /\ ToSet(gallery) = ToSet(album.images)
        /\ \A x, y \in ToSet(album.images) : Before(gallery, x, y) => Before(album.images, x, y)
    BY <2>1, <2>2, <2>4 DEF Level, Keeps
  <2> QED BY <2>3, <2>5, SameOrder
<1> QED BY <1>1, PicturesInvariant, PTL

-----------------------------------------------------------------------------
(* The panel *)

\* A behaviour is about one page, with the invariant of its module.
PanelInv ==
  /\ about \in Pages
  /\ about = "lists"    => ListsInv /\ OnceInv
  /\ about = "desk"     => DeskInv
  /\ about = "pictures" => PictureInv
  /\ about = "form"     => FormInv
  /\ about = "settings" => SettingsInv
  /\ about = "session"  => SessionInv

\* Types of every page, for every number of calls, rows and pictures: one call at a
\* time behind every button that is disabled meanwhile, and no row shown twice.
THEOREM PanelTypes == PanelSpec => []PanelTypeOK
<1>1. PanelInit => PanelInv
  BY ListsInitially, OnceInitially, DeskInitially, PicturesInitially, FormInitially,
     SettingsInitially, SessionInitially DEF PanelInit, PanelInv
<1>2. PanelInv /\ [PanelNext]_panelVars => PanelInv'
  <2> SUFFICES ASSUME PanelInv, [PanelNext]_panelVars PROVE PanelInv'
    OBVIOUS
  <2>1. about' = about
    BY DEF PanelNext, Lists_, Desk_, Pictures_, Form_, Settings_, Session_, panelVars
  <2>2. ASSUME about = "lists" PROVE ListsInv' /\ OnceInv'
    <3>1. [ListsNext]_listVars
      BY <2>2 DEF PanelNext, Lists_, Desk_, Pictures_, Form_, Settings_, Session_, panelVars
    <3> QED BY <2>2, <3>1, ListsKept, OnceKept DEF PanelInv
  <2>3. ASSUME about = "desk" PROVE DeskInv'
    <3>1. [DeskNext]_deskVars
      BY <2>3 DEF PanelNext, Lists_, Desk_, Pictures_, Form_, Settings_, Session_, panelVars
    <3> QED BY <2>3, <3>1, DeskKept DEF PanelInv
  <2>4. ASSUME about = "pictures" PROVE PictureInv'
    <3>1. [PictureNext]_pictureVars
      BY <2>4 DEF PanelNext, Lists_, Desk_, Pictures_, Form_, Settings_, Session_, panelVars
    <3> QED BY <2>4, <3>1, PicturesKept DEF PanelInv
  <2>5. ASSUME about = "form" PROVE FormInv'
    <3>1. [FormNext]_formVars
      BY <2>5 DEF PanelNext, Lists_, Desk_, Pictures_, Form_, Settings_, Session_, panelVars
    <3> QED BY <2>5, <3>1, FormKept DEF PanelInv
  <2>6. ASSUME about = "settings" PROVE SettingsInv'
    <3>1. [SettingsNext]_settingsVars
      BY <2>6 DEF PanelNext, Lists_, Desk_, Pictures_, Form_, Settings_, Session_, panelVars
    <3> QED BY <2>6, <3>1, SettingsKept DEF PanelInv
  <2>7. ASSUME about = "session" PROVE SessionInv'
    <3>1. [SessionNext]_sessionVars
      BY <2>7 DEF PanelNext, Lists_, Desk_, Pictures_, Form_, Settings_, Session_, panelVars
    <3> QED BY <2>7, <3>1, SessionKept DEF PanelInv
  <2>8. about \in Pages
    BY DEF PanelInv
  <2> HIDE DEF PanelInv
  <2> QED BY <2>1, <2>2, <2>3, <2>4, <2>5, <2>6, <2>7, <2>8 DEF PanelInv
<1>3. PanelInv => PanelTypeOK
  BY ListsAreTyped, DeskIsTyped, PicturesAreTyped, FormIsTyped, SettingsAreTyped, SessionIsTyped
  DEF PanelInv, PanelTypeOK
<1> QED BY <1>1, <1>2, <1>3, PTL DEF PanelSpec
=============================================================================
