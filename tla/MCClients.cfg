SPECIFICATION Spec
CONSTANTS
  ana = ana
  ben = ben
  t1 = t1
  t2 = t2
  Bidders <- MCBidders
  Wallet = ana
  SessionKey = ana
  Sound <- MCSound
  Tasks <- MCTasks
  Schedules <- MCSchedules
  Mandates <- MCMandates
  Prices = {0, 1, 3}
  Suggestions = {0, 1, 3}
  MaxRuns = 2
  MaxRounds = 1
  MaxTime = 4
  MaxBeacon = 1
  VOID_GRACE = 0
  MAX_U64 = 100
  drand_genesis = 1
  drand_period = 1
SYMMETRY TaskSymmetry
INVARIANTS
  RevealCompleteMeansAll
  LiveLags
  PaidAndWithinMandate
CHECK_DEADLOCK FALSE
