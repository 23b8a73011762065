SPECIFICATION Spec
CONSTANTS
  c1 = c1
  c2 = c2
  nil = nil
CHECK_DEADLOCK FALSE
INVARIANTS AckedSurvives AckedKnown OldInstanceSilent
PROPERTIES ImplementsTopology
