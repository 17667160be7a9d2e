SPECIFICATION Spec
CONSTANTS
  None = None
  Handler = {h1, h2}
  Tab = {a1, a2}
  Slot = {x}
  Token = {t1, t2, t3}
  MaxFaults = 1
  Org = {b1, b2}
  User = {u1, u2}
  Teacher = {a1, a2}
  Student = {x}
  Parent = {y}
  Class = {x}
  Subject = {a1, a2}
  Assignment = {a1, a2}
  MaxSteps = 8
  Seeded = {u1}
  Year = {x}
  Invite = {x}
  Enrol = {t1, t2, t3}
  MaxUses = 1
  MaxCalls = 6
  Syllabus = {a1, a2}
  Code = {b1, b2}
  Key = {"u", "c", "d"}
  Config <- Configs
  Version = {a1, a2}
  MaxCopies = 2
  Structure = {x}
  Linked = {x}
  Node = {t1, t2, t3}
  Name = {a1, a2}
  Resource = {a1, a2}
  Topic = {x}
  Title = {b1, b2}
INVARIANTS TypeOK SessionsRotate SchoolConsistent CurriculumSound
PROPERTIES SessionsEnd SettledStays
SYMMETRY Symmetry
CHECK_DEADLOCK FALSE
