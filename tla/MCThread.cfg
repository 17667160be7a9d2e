SPECIFICATION ThreadSpec
CONSTANTS
  None = None
  Handler = {h1, h2}
  Primary = b0
  Branch = {b0, b1, b2}
  RequestId = {r1, r2, r3}
  AnswerId = {m1, m2}
  HistoryLimit = 2
  Lone = {x}
  Pair = {p1, p2}
  Other = {q1, q2}
  Tries = 2
INVARIANTS ThreadTypeOK HistorySound PageFaithful
PROPERTIES PageForward
SYMMETRY ThreadSymmetry
CHECK_DEADLOCK FALSE
