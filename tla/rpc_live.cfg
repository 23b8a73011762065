SPECIFICATION FairSpec
CONSTANTS
  Calls = {c1, c2}
  Timed = {c1}
  Kinds = {"ok"}
  Limits = {TRUE, FALSE}
  Seqs = {1, 2}
  Requests = {1, 2}
  Faults = {"lose", "early"}
PROPERTIES TimedCallsReturn HealthyCallsReturn ServerHangsUp NoReceiverLeft
CHECK_DEADLOCK FALSE
