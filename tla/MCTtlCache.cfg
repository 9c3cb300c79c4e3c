SPECIFICATION MCSpec
CONSTANTS
  a = a
  b = b
  c = c
  left = left
  right = right
  small = small
  large = large
  NoValue = NoValue
  Keys = {a, b, c}
  Values = {small, large}
  Shards = {left, right}
  ShardOf <- MCShardOf
  Weight <- MCWeight
  max_entries = 2
  max_memory = 4
  ttl_seconds = 1
  MaxLag = 1
  MaxLog = 2
  L1ShardOf <- MCL1ShardOf
  l1_shard_size = 1
INVARIANTS
  TypeOK
  LayersAgree
PROPERTIES
  OnlyRollbackExceedsLimits
  CleanupSparesLiveEntries
  RollbackRestores
  ExpiredEntriesGo
