SPECIFICATION Spec
CONSTANTS
  Calls = {c1, c2}
  Timed = {c1}
  Kinds = {"ok", "fails", "unknown", "badargs", "noencode", "badreply", "noreply"}
  Limits = {TRUE}
  Seqs = {1, 2}
  Requests = {1, 2}
  Faults = {"lose", "close"}
CHECK_DEADLOCK FALSE
INVARIANTS ReturnsOwnOutcome PendingExact OneResponse AnsweredBeforeClose
