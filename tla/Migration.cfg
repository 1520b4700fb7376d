\* Every combination of old and new names; two runs at once, an operator who
\* edits, failures at every step.
CONSTANTS
  Texts <- MCTexts
  Proc = {p1, p2}
  Documents <- AllDocuments
  Edits <- LaterDocuments
  MaxNow = 1
  Absent = Absent
  Wrong = Wrong
  Partial = Partial
SPECIFICATION Spec
SYMMETRY ProcSymmetry
INVARIANTS ResultsAreFinal ObservationIsKept NothingIsLost
