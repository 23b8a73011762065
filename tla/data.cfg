SPECIFICATION Spec
CHECK_DEADLOCK FALSE
INVARIANTS SameAsSequential ReportedOnce
