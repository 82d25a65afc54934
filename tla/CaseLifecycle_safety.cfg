\* Two admins on one case, two changes, any fault between any two awaits.
CONSTANTS
  Logs = {l1, l2}
  Jobs = {j1, j2}
  Callers = {c1, c2}
  Workers = {w1}
  None = None
  MaxAttempts = 1
  MaxStalls = 0
  Faults = {"crash", "redis", "db"}
  Cases = {k1}
  Statuses = {"SUBMITTED", "DOCUMENT_REVIEW", "FAILED"}
  SUBMITTED = "SUBMITTED"
  MaxHistory = 3
SPECIFICATION CaseSpec
SYMMETRY Symmetric
INVARIANTS
  CaseTypeOK
  StatusIsLastInHistory
  OldStatusWasReal
  ChangesAreReported
  TimelineIsDated
