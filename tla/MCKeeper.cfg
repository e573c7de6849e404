SPECIFICATION FairSpec
CONSTANTS
  b1 = b1
  b2 = b2
  Bidders = {b1, b2}
  Honest = {b1}
  Corrupt = {}
  MaxRounds = 1
  MaxTime = 5
  MaxBeacon = 1
  Schedules <- OneSchedule
  VOID_GRACE = 1
  MAX_U64 = 20
  drand_genesis = 1
  drand_period = 1
  Deployment = "here"
  Elsewhere = "elsewhere"
  Configured = {}
  WATCH_FROM = 1
  WATCH_MAX_ROUNDS = 1
  LeftOver <- NothingLeft
  MaxSkew = 1
  MaxFaults = 1
  MaxCrashes = 1
  MaxEdits = 1
INVARIANTS
  TypeOK
  GuardTerminalIsFinal
  DroppedIsFinal
  PassRevealsAll
  
PROPERTIES
  KeptRoundEnds
CHECK_DEADLOCK FALSE
