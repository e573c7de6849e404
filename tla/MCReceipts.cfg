\* Two bidders, one of them a contract; values below, at and above the escrow; a page
\* holds one bidder.
SPECIFICATION ReceiptsSpec
CONSTANTS
  b1 = b1
  b2 = b2
  op = op
  n1 = n1
  n2 = n2
  None = None
  Garbage = Garbage
  Bidders = {b1, b2}
  Operators = {op}
  MaxRounds = 1
  MaxTime = 4
  MaxBeacon = 1
  Values = {1, 2, 3}
  Nonces = {n1, n2}
  Sealings <- OneSealPerValue
  Escrows = {2}
  Funds = 2
  Schedules <- OneSchedule
  Rules = {"HighestBid", "LowestBid"}
  Freezable = {}
  PAGE_SIZE = 1
  ContractAccounts = {b2}
  EmptySeals = {Garbage}
  MAX_BIDDERS = 2
  VOID_GRACE = 0
  MAX_U64 = 20
  drand_genesis = 1
  drand_period = 1
  LEDGERS_PER_DAY = 1
  POST_REVEAL_SEAL_BUFFER = 0
  TEMP_THRESHOLD = 2
  PERSISTENT_BUMP = 10
  U32_RANGE = 16
INVARIANTS
  FinishedReceiptsAgree
  HonestReceiptsVerify
  OutcomeIsTamperEvident
CHECK_DEADLOCK FALSE
