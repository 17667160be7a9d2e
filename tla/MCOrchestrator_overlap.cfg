SPECIFICATION Spec
CONSTANTS
  Caller = {c1, c2}
  Path = {src, ui}
  Authorized = {src}
  Backend = {src}
  Frontend = {ui}
  Actor = {po}
  HumanPO = {po}
  Injected = {}
  Waivable = {}
  Recorded = {"scope-clean", "acceptance-criteria", "po-decisions-resolved"}
  Recordable = {}
  None = None
  Validity = 0
  MaxClock = 1
  MaxEdits = 1
  MaxFaults = 1
  MaxNotes = 1
SYMMETRY Symmetry
INVARIANTS TypeOK RecordTruthful
PROPERTIES GrantStands KeepsPromise
CHECK_DEADLOCK FALSE
