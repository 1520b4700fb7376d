\* A host-direct configuration that takes its MAC address from observe_interface.
CONSTANTS
  Texts <- MCTexts
  Proc = {p1}
  Documents <- HostDocuments
  Edits = {}
  MaxNow = 0
  Absent = Absent
  Wrong = Wrong
  Partial = Partial
SPECIFICATION Spec
INVARIANT RuntimeBehaviorIsKept
