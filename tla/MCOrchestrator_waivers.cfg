SPECIFICATION Spec
CONSTANTS
  Caller = {c1, c2}
  Path = {}
  Authorized = {}
  Backend = {}
  Frontend = {}
  Actor = {po, human, orchestrator}
  HumanPO = {po, human}
  Injected = {"acceptance-criteria"}
  Waivable = {"acceptance-criteria"}
  Recorded = {"scope-clean", "po-decisions-resolved"}
  Recordable = {"acceptance-criteria"}
  None = None
  Validity = 0
  MaxClock = 0
  MaxEdits = 0
  MaxFaults = 0
  MaxNotes = 3
SYMMETRY Symmetry
INVARIANTS LedgerAudited VerifiedOnEvidence
CHECK_DEADLOCK FALSE
