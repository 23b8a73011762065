SPECIFICATION Spec
CONSTANTS
  Clerks = {c, d}
  Shards = {1}
  Gids = {100, 101}
  Kinds = {"Get", "Append"}
  NServers = 2
  key2shard <- OneKey
  MaxConfigs = 3
  MaxFails = 1
  MaxMoves = 1
  MaxOps = 1
SYMMETRY Symmetric
CHECK_DEADLOCK FALSE
INVARIANTS ExecutedBeforeReturn GetIsCurrent
