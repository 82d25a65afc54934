\* One call at a time and no fault: a list with a repeated id is accepted.
CONSTANTS
  Images = {i1, i2}
  Calls = {c1}
  None = None
  Faults = {}
SPECIFICATION Spec
PROPERTIES
  OrderIsSubmitted
