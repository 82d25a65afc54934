\* Two rows, or one row resent while its first job still runs; two workers, as
\* when the backend is scaled out.
CONSTANTS
  Logs = {l1, l2}
  Jobs = {j1, j2}
  Callers = {c1, c2}
  Workers = {w1, w2}
  None = None
  MaxAttempts = 2
  MaxStalls = 1
  Faults = {"crash", "redis", "db"}
SPECIFICATION Spec
SYMMETRY Symmetric
INVARIANTS
  TypeOK
  SentWasAccepted
  PendingIsOwned
  DuplicateNeedsFault
  SendsBounded
  FailedMeansUndelivered
PROPERTY
  DeliveryPromised
