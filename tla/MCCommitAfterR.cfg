\* Two bidders, a commit deadline at the very time of R.
SPECIFICATION Spec
CONSTANTS
  b1 = b1
  b2 = b2
  b3 = b3
  op = op
  n1 = n1
  None = None
  Garbage = Garbage
  Bidders = {b1, b2}
  Operators = {op}
  MaxRounds = 1
  MaxTime = 6
  MaxBeacon = 1
  Values = {1, 2}
  Nonces = {n1}
  Sealings <- AllSealings
  Escrows = {1}
  Funds = 4
  Schedules <- OneSchedule
  Rules = {"LowestBid"}
  Freezable = {}
  MAX_BIDDERS = 2
  VOID_GRACE = 1
  MAX_U64 = 20
  drand_genesis = 1
  drand_period = 1
  LEDGERS_PER_DAY = 1
  POST_REVEAL_SEAL_BUFFER = 1
  TEMP_THRESHOLD = 2
  PERSISTENT_BUMP = 10
  U32_RANGE = 16
PROPERTIES
  NoCommitAfterR
CHECK_DEADLOCK FALSE
