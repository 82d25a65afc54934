SPECIFICATION PanelSpec
CONSTANTS
  None = None
  Pages = {"lists", "desk", "pictures", "form", "settings", "session"}
  Mishaps = {"network", "token", "elsewhere"}
  Calls = {q1, q2}
  Lists = {"cases", "logs", "contacts", "users", "properties"}
  Rows = {r1, r2}
  Narrow = {r1}
  CaseStatuses = {a, b}
  Texts = {a, b}
  Notes = {a, b}
  Pictures = {a, b, c}
  MaxBatch = 2
  Conditions = {a, b}
  Blurbs = {a, b}
  Templates = {a, b}
  Contact = contact
  Wordings = {a, b}
  Mobiles = {a, b}
  LoginCalls = {q1, q2}
  MaxTokens = 1
SYMMETRY Symmetric
INVARIANTS
  PanelTypeOK
  QuietPageIsTrue
  SlotGuardsRow
  LoadingIsBacked
  SmsIsAsPreviewed
  DeskIsTrue
  ShownOrderIsStored
  SheetIsStored
  EditorsAreSaved
  TokensAreTrue
  CodeStepNamesNumber
