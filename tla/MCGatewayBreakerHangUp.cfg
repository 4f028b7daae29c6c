SPECIFICATION FairSpec
CONSTANTS
  r1 = r1  r2 = r2  r3 = r3
  Request = {r1, r2}
  NumProviders = 1
  Threshold = 1
  MayHangUp <- AtTheLast
PROPERTIES FirstIsTriedAgain
