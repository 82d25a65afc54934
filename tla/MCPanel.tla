------------------------------ MODULE MCPanel ------------------------------
(***************************************************************************)
(* The pages of the browser, one at a time.  They share no state in the    *)
(* browser: a page is mounted afresh at every visit.  What they share is   *)
(* in Postgres, where the others are the "elsewhere" of each module, and   *)
(* the token, which is Session's cookie and every page's TokenHere.  So a  *)
(* behaviour is about one module, and the variables of the rest keep a     *)
(* value that stands for nothing, with the fields the properties read.     *)
(***************************************************************************)
EXTENDS AdminLists, CaseDesk, PictureManager, ListingForm, SettingsPage, Session, TLC

CONSTANT Pages

VARIABLE about

panelVars == <<about, listVars, deskVars, pictureVars, formVars, settingsVars, sessionVars>>

NoLists ==
  /\ list = None /\ table = None /\ page = [mounted |-> FALSE]
  /\ call = None /\ ahead = None
  /\ excuse = None /\ takeover = None

NoDesk ==
  /\ row = None /\ template = None /\ desk = [mounted |-> FALSE]
  /\ errand = None
  /\ doubt = None /\ wrongSms = FALSE

NoPictures ==
  /\ gallery = None /\ born = None /\ album = [loaded |-> FALSE]
  /\ task = None /\ orders = None /\ spoiled = None

NoForm ==
  /\ listing = None /\ sheet = [loaded |-> FALSE]
  /\ save = None /\ clouded = None /\ held = None

NoSettings ==
  /\ setting = None /\ panel = [shown |-> {}, dirty |-> {}] /\ saving = None
  /\ edit = None /\ unsure = {}

NoSession ==
  /\ account = None /\ codes = None /\ tokens = <<>> /\ cookie = None
  /\ form = [step |-> "phone"] /\ login = None /\ act = None
  /\ outdated = {}

PanelInit ==
  /\ about \in Pages
  /\ IF about = "lists"    THEN ListsInit    ELSE NoLists
  /\ IF about = "desk"     THEN DeskInit     ELSE NoDesk
  /\ IF about = "pictures" THEN PictureInit  ELSE NoPictures
  /\ IF about = "form"     THEN FormInit     ELSE NoForm
  /\ IF about = "settings" THEN SettingsInit ELSE NoSettings
  /\ IF about = "session"  THEN SessionInit  ELSE NoSession

Lists_ ==
  /\ about = "lists" /\ ListsNext
  /\ UNCHANGED <<about, deskVars, pictureVars, formVars, settingsVars, sessionVars>>

Desk_ ==
  /\ about = "desk" /\ DeskNext
  /\ UNCHANGED <<about, listVars, pictureVars, formVars, settingsVars, sessionVars>>

Pictures_ ==
  /\ about = "pictures" /\ PictureNext
  /\ UNCHANGED <<about, listVars, deskVars, formVars, settingsVars, sessionVars>>

Form_ ==
  /\ about = "form" /\ FormNext
  /\ UNCHANGED <<about, listVars, deskVars, pictureVars, settingsVars, sessionVars>>

Settings_ ==
  /\ about = "settings" /\ SettingsNext
  /\ UNCHANGED <<about, listVars, deskVars, pictureVars, formVars, sessionVars>>

Session_ ==
  /\ about = "session" /\ SessionNext
  /\ UNCHANGED <<about, listVars, deskVars, pictureVars, formVars, settingsVars>>

PanelNext == Lists_ \/ Desk_ \/ Pictures_ \/ Form_ \/ Settings_ \/ Session_

PanelSpec == PanelInit /\ [][PanelNext]_panelVars

\* Types of the page the behaviour is about, with what each page promises of its
\* own variables: one call of a kind at a time, a loading flag with its call.
PanelTypeOK ==
  /\ about \in Pages
  /\ about = "lists"    => ListsTypeOK
  /\ about = "desk"     => DeskTypeOK
  /\ about = "pictures" => PictureTypeOK
  /\ about = "form"     => FormTypeOK
  /\ about = "settings" => SettingsTypeOK
  /\ about = "session"  => SessionTypeOK

Symmetric == Permutations(Calls) \cup Permutations(Mobiles)
=============================================================================
