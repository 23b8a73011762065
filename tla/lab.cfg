CONSTANTS
  c1 = c1  c2 = c2  e1 = e1  e2 = e2  s1 = s1  o1 = o1  o2 = o2  nil = nil
  Calls = {c1, c2}
  Ends = {e1}
  Servers = {s1}
  Objects = {o1, o2}
  Hangs = {c2}
  Unknown = {c2}
  MaxSwitches = 7
SPECIFICATION FairSpec
CHECK_DEADLOCK FALSE
INVARIANTS NoStalePositive
PROPERTIES ImplementsLossyCalls HandlersEnd
