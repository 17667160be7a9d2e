SPECIFICATION EndingsSpec
CONSTANTS
  None = None
  One = {a}
  Two = {b1, b2}
  Handler = {h1, h2}
  Place = {s1, s2}
  Fetch = {f1, f2}
  MaxOutput = 2
  MaxChunk = 2
  MaxProduced = 4
INVARIANT ToolRunTruthful
PROPERTIES GenerationsEnd SessionSettles PageSettles ToolRunEnds
CHECK_DEADLOCK FALSE
