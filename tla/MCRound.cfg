\* One round, three bidders with a place each, one of whom also operates it and
\* may be frozen for a while; clear taken apart into the steps of its loop.
SPECIFICATION LoopSpec
CONSTANTS
  b1 = b1
  b2 = b2
  b3 = b3
  op = op
  n1 = n1
  None = None
  Garbage = Garbage
  Bidders = {b1, b2, b3}
  Operators = {b1}
  MaxRounds = 1
  MaxTime = 4
  MaxBeacon = 1
  Values = {1, 2}
  Nonces = {n1}
  Sealings <- HonestSealings
  Escrows = {1, 2}
  Funds = 2
  Schedules <- OneSchedule
  Rules = {"HighestBid", "LowestBid"}
  Freezable = {b1}
  MAX_BIDDERS = 3
  VOID_GRACE = 0
  MAX_U64 = 20
  drand_genesis = 1
  drand_period = 1
  LEDGERS_PER_DAY = 1
  POST_REVEAL_SEAL_BUFFER = 1
  TEMP_THRESHOLD = 2
  PERSISTENT_BUMP = 10
  U32_RANGE = 16
INVARIANTS
  IndexIsExact
  EscrowBacked
  SettlementFunded
  SealedUntilR
  RevealBinding
  WinnerIsFirstBest
  NoValidBidVoided
  FinalIsPaid
  SealsOutliveReveal
  BestSoFar
PROPERTIES
  FinalIsFinal
  ImplementsLife
  ImplementsRound
SYMMETRY LaterBidders
CHECK_DEADLOCK FALSE
