SPECIFICATION FairSpec
CONSTANTS
  r1 = r1  r2 = r2  r3 = r3
  Request = {r1, r2, r3}
  NumProviders = 2
  Threshold = 2
  MayHangUp <- AtTheLast
INVARIANTS TypeOK HalfOpenIsTested
PROPERTIES TestedAfterRest FirstIsTriedAgain
