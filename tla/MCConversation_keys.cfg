SPECIFICATION Spec
CONSTANTS
  Conversation = {c1, c2}
  Request = {r1, r2}
  Attempt = {a1, a2}
  Key = {k1}
  Question = {q1, q2}
  Handler = {h1, h2}
  MaxFaults = 1
  None = None
SYMMETRY Symmetry
INVARIANTS TypeOK Linked OneEffectPerKey RepliesTruthful OneWorkerPerAttempt
CHECK_DEADLOCK FALSE
