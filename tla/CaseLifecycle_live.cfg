\* One change, its message, a retry and a resend, crashes and failing queue or database.
CONSTANTS
  Logs = {l1}
  Jobs = {j1, j2}
  Callers = {c1}
  Workers = {w1}
  None = None
  MaxAttempts = 2
  MaxStalls = 0
  Faults = {"crash", "redis", "db"}
  Cases = {k1}
  Statuses = {"SUBMITTED", "DOCUMENT_REVIEW"}
  SUBMITTED = "SUBMITTED"
  MaxHistory = 2
SPECIFICATION CaseFairSpec
PROPERTIES
  ChangesSettle
  PendingSettles
