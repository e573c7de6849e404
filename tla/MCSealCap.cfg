\* A reveal deadline further away than PERSISTENT_BUMP ledgers.
SPECIFICATION Spec
CONSTANTS
  b1 = b1
  b2 = b2
  b3 = b3
  op = op
  n1 = n1
  None = None
  Garbage = Garbage
  Bidders = {b1}
  Operators = {op}
  MaxRounds = 1
  MaxTime = 9
  MaxBeacon = 3
  Values = {1, 2}
  Nonces = {n1}
  Sealings <- HonestSealings
  Escrows = {1}
  Funds = 4
  Schedules <- FarSchedule
  Rules = {"LowestBid"}
  Freezable = {}
  MAX_BIDDERS = 2
  VOID_GRACE = 1
  MAX_U64 = 20
  drand_genesis = 1
  drand_period = 2
  LEDGERS_PER_DAY = 1
  POST_REVEAL_SEAL_BUFFER = 1
  TEMP_THRESHOLD = 2
  PERSISTENT_BUMP = 3
  U32_RANGE = 16
INVARIANTS
  SealsReachR
CHECK_DEADLOCK FALSE
