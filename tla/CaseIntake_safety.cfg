\* One open form, two submissions, one document that is not what it declares.
CONSTANTS
  Customers = {a}
  Requests = {r1, r2}
  Docs = {d1, d2, x1}
  Forged = {x1}
  Codes = {k1, k2}
  MaxFiles = 2
  MaxTries = 2
  None = None
  Faults = {"crash", "db", "storage", "network", "leave"}
SPECIFICATION Spec
SYMMETRY Symmetric
INVARIANTS
  TypeOK
  DocumentsAreStored
  BlobHasOwner
  CaseIsKnown
