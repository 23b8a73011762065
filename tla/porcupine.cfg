SPECIFICATION Spec
CONSTANTS
  WordBits = 2
  Cases <- MCCases
CHECK_DEADLOCK FALSE
INVARIANTS SearchCorrect LongestTrue VerdictTrue InfoSettled
PROPERTIES AllEnd
