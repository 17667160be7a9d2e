SPECIFICATION Spec
CONSTANTS
  Conversation = {c1}
  Request = {r1, r2}
  Attempt = {a1, a2, a3}
  Key = {}
  Question = {q1}
  Handler = {h1, h2}
  MaxFaults = 1
  None = None
SYMMETRY Symmetry
INVARIANTS AnswerMatchesStatus OneInFlightPerRequest RowsAgree
PROPERTIES EndedIsFinal DeletedIsFrozen KeepsPromise
CHECK_DEADLOCK FALSE
