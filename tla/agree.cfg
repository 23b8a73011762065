SPECIFICATION Spec
CONSTANTS
  Cmds = {"a", "b"}
  Mine = {"a"}
  MaxStarts = 2
  Sizes <- MCSizes
CHECK_DEADLOCK FALSE
INVARIANTS NoFalseAlarm AgreementReal MismatchCaught
