\* Calls that overlap and calls that do not, two handlers, commands that reject, crashes; small limits so that all are exceeded.
CONSTANTS
  Handlers = {h1, h2}
  Codes = {a, b}
  NoCode = NoCode
  CodeTtl = 2
  WindowTtl = 3
  MaxRequests = 2
  MaxAttempts = 2
  Faults = {"crash", "reject"}
SPECIFICATION SerialOrNot
SYMMETRY Symmetric
INVARIANTS
  TypeOK
  WindowHasEnd
  CounterOutlivesCode
  TriesBounded
  CodeUseBounded
  SerialGuessLimit
