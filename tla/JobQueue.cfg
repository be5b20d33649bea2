\* Three jobs with the three attempts of the code, and a stop at any time.
CONSTANTS
  j1 = j1 j2 = j2 j3 = j3
  Jobs = {j1, j2, j3}
  MaxAttempts = 3
SPECIFICATION QueueFairSpec
INVARIANTS JobsPlaced MetricsExact
PROPERTIES JobsFinish
\* Once all jobs have ended nothing happens.
CHECK_DEADLOCK FALSE
