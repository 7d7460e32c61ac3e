SPECIFICATION FairSpec
CONSTANTS
  r1 = r1  r2 = r2
  Requests = {r1, r2}
  Threshold = 2
  Retries = 1
  MaxOutages = 3
INVARIANTS TypeOK OpenIffStreak
PROPERTIES CoolingShields PrimaryRecovers
