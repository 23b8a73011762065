SPECIFICATION FairSpec
CONSTANTS
  Clerks = {"c"}
  Shards = {1}
  Gids = {100, 101}
  Kinds = {"Get", "Put"}
  NServers = 2
  key2shard <- OneKey
  MaxConfigs = 3
  MaxFails = 2
  MaxMoves = 1
  MaxOps = 1
PROPERTY OperationReturns
CHECK_DEADLOCK FALSE
