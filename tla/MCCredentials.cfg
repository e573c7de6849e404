SPECIFICATION Spec
CONSTANTS
  w1 = w1
  w2 = w2
  c1 = c1
  c2 = c2
  mit = mit
  rust = rust
  tlock = tlock
  Windows = {w1, w2}
  Creds = {c1, c2}
  Issuers = {mit}
  Accredited = {mit}
  Skills = {rust, tlock}
  Selections <- SomeSelections
  SeedActive = {c1}
  SeedRevoked = {}
  SeedExpired = {}
  Expiries = {1}
  MaxTime = 2
  MaxShared = 1
INVARIANTS
  TypeOK
  RevocationReachesVerifiers
  ValidIsGenuine
  JudgementsAgree
PROPERTIES
  RevocationIsPermanent
SYMMETRY WindowSymmetry
CHECK_DEADLOCK FALSE
