\* Two rounds that share the contract's token balance, a place for one bidder in each, a
\* beacon that may stall, an account that freezes; schedules on both sides of each check,
\* with a commit deadline at the time of R and with one before it.
SPECIFICATION FairSpec
CONSTANTS
  b1 = b1
  b2 = b2
  b3 = b3
  op = op
  n1 = n1
  None = None
  Garbage = Garbage
  Bidders = {b1, b2}
  Operators = {op}
  MaxRounds = 2
  MaxTime = 6
  MaxBeacon = 2
  Values = {1}
  Nonces = {n1}
  Sealings <- AllSealings
  Escrows = {2}
  Funds = 4
  Schedules <- EdgeSchedules
  Rules = {"LowestBid"}
  Freezable = {b2}
  MAX_BIDDERS = 1
  VOID_GRACE = 1
  MAX_U64 = 20
  drand_genesis = 1
  drand_period = 1
  LEDGERS_PER_DAY = 1
  POST_REVEAL_SEAL_BUFFER = 1
  TEMP_THRESHOLD = 2
  PERSISTENT_BUMP = 10
  U32_RANGE = 16
INVARIANTS
  TypeOK
  BalancesExplained
PROPERTIES
  CommitsPrecedeNext
  EveryRoundEnds
CHECK_DEADLOCK FALSE
