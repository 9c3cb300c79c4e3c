CONSTANTS
  max_memory_entries = 2
  max_entries_per_block = 2
  NoBlock = NoBlock
  MaxHashes = 7
  MaxBlocks = 3
SPECIFICATION Spec
INVARIANTS
  TypeOK
  OneChain
  OverflowLeavesAGap
CHECK_DEADLOCK FALSE
