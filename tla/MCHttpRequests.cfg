SPECIFICATION FairSpec
CONSTANTS
  Messages = {m1, m2}
  MaxClock = 1
  MaxFaults = 9
INVARIANTS AtMostOnce LostToTwinOnly
PROPERTIES OutlastsOutages
