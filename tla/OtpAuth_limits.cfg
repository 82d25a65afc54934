\* Two overlapping calls, commands that reject, crashes; no symmetry (liveness).
CONSTANTS
  Handlers = {h1, h2}
  Codes = {a}
  NoCode = NoCode
  CodeTtl = 1
  WindowTtl = 2
  MaxRequests = 2
  MaxAttempts = 1
  Faults = {"crash", "reject"}
SPECIFICATION FairSpec
PROPERTIES
  LockoutEndsOrLeaks
