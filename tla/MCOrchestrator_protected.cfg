SPECIFICATION Spec
CONSTANTS
  Caller = {c1}
  Path = {src, other}
  Authorized = {src}
  Backend = {src}
  Frontend = {}
  Actor = {po}
  HumanPO = {po}
  Injected = {}
  Waivable = {}
  Recorded = {"scope-clean", "acceptance-criteria", "po-decisions-resolved"}
  Recordable = {}
  None = None
  Validity = 0
  MaxClock = 1
  MaxEdits = 1
  MaxFaults = 0
  MaxNotes = 1
INVARIANT ProtectedUntouched
CHECK_DEADLOCK FALSE
