\* One call at a time, and a command may reject while the process lives.
CONSTANTS
  Handlers = {h1}
  Codes = {a}
  NoCode = NoCode
  CodeTtl = 2
  WindowTtl = 2
  MaxRequests = 2
  MaxAttempts = 1
  Faults = {"reject"}
SPECIFICATION FairSpec
PROPERTIES
  LockoutEnds
