\* One mishap anywhere: a fault, a query that hangs or one that is slow
SPECIFICATION FairSpec
CONSTANTS
  Records = {r1, r2}
  Provisioning = {r2}
  ChunkSize = 1
  Overlap = 1
  WaitLimit = 1
  MaxResumes = 1
  Lookback = 3
  Interval = 2
  DedupTTL = 3
  Margin = 1
  MaxTime = 3
  MaxMishaps = 1
  Never = Never
INVARIANTS CheckpointCovers ReconCovers
PROPERTIES KeepsPollerPromise EventuallyHanded
