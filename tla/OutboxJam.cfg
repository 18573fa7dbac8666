CONSTANTS
  refused = refused
  e1 = e1
  e2 = e2
  Events <- MCEvents
  Poison <- MCPoison
  CreatedAt <- MCCreatedAt
  Replicas = {r1, r2}
  BatchSize = 1
  MaxFaults = 0
  AttemptCap = 1
SPECIFICATION FairSpec
PROPERTY EventuallyPublished
