SPECIFICATION FairSpec
CONSTANTS
  MaxSpawns = 2
INVARIANTS HandleIsProbed FailedSpawnCleansUp HarnessBehindProxy
PROPERTY SpawnSettles
CHECK_DEADLOCK FALSE
