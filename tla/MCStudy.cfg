SPECIFICATION StudySpec
CONSTANTS
  None = None
  Gone = Gone
  Only = {o}
  Twin = {a1, a2}
  Double = {b1, b2}
  Handler = {h1, h2}
INVARIANTS StudyTypeOK MarksAgree RecordsHold
PROPERTIES RecordsStay
SYMMETRY StudySymmetry
CHECK_DEADLOCK FALSE
