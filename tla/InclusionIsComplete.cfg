SPECIFICATION MerkleSpec
CHECK_DEADLOCK FALSE
CONSTANTS
  LargestTree = 5
  CommonPrefix = 2
INVARIANT InclusionIsComplete
