SPECIFICATION Spec
CONSTANTS
  Cases <- MCCases
  Longer <- OneLonger
CHECK_DEADLOCK FALSE
INVARIANTS RoutedToBest GroupMiddlewareRuns InOrderOnce PanicContained
PROPERTIES RequestEnds
