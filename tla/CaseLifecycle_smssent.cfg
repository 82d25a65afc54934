\* No fault at all: the SMS is only queued when the page says it was sent.
CONSTANTS
  Logs = {l1, l2}
  Jobs = {j1, j2}
  Callers = {c1, c2}
  Workers = {w1}
  None = None
  MaxAttempts = 1
  MaxStalls = 0
  Faults = {}
  Cases = {k1}
  Statuses = {"SUBMITTED", "DOCUMENT_REVIEW", "FAILED"}
  SUBMITTED = "SUBMITTED"
  MaxHistory = 3
SPECIFICATION CaseSpec
INVARIANTS
  OkMeansSmsSent
