CONSTANTS
  j1 = j1
  j2 = j2
  Jobs <- TwoJobs
  MaxBuilds = 2
  MaxOld = 1
  CheckSha = TRUE
  Minutes = 2
  Horizon = 12
  MaxStarts = 2
SPECIFICATION Spec
SYMMETRY AnyJob
INVARIANTS TypeOK VerifiedOnly NeverLost SummaryOnce OncePerProcess
PROPERTIES DoneIsTrue
CHECK_DEADLOCK FALSE
