\* Two accounts that may be administrator, institution and learner; two credentials.
SPECIFICATION Spec
CONSTANTS
  a1 = a1
  a2 = a2
  a3 = a3
  c1 = c1
  c2 = c2
  h1 = h1
  h2 = h2
  t1 = t1
  n1 = n1
  n2 = n2
  r1 = r1
  r2 = r2
  None = None
  Addresses = {a1, a2}
  CredentialIds = {c1, c2}
  Hashes = {h1, h2}
  Templates = {t1}
  Names = {n1}
  Reasons = {r1, r2}
  Expirations <- SomeExpirations
  MaxTime = 2
SYMMETRY Interchangeable
INVARIANTS
  TypeOK
  ListsAreExact
PROPERTIES
  CommitmentsArePermanent
  IssuedByAuthorized
  NeverValidAgain
  ReasonIsImmutable
CHECK_DEADLOCK FALSE
