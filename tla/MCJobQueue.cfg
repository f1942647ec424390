CONSTANTS
  Workers = {w1, w2}
  Jobs = {j1, j2}
  ReviewJobs = {j1}
  MaxAttempts = 2
  Lease = 3
  Interval = 1
  Punctual = {w1}
  MaxDelay = 1
  Backoff <- MCBackoff
  MaxRetries = 1
  MaxCrashes = 1

SPECIFICATION FairSpec
INVARIANT TypeOK
INVARIANT ResultFromLastClaim
INVARIANT ReviewAgreesWithJob
INVARIANT AttemptBudget
INVARIANT HealthyOwnerKeepsJob
PROPERTY ImplementsContract
PROPERTY EveryJobSettles
