SPECIFICATION FairSpec
CONSTANTS
  Handlers = {h1, h2}
  None = None
  Callers = {c1}
  MaxChanges = 4
  MaxFails = 2
  dev_soft_fail = FALSE
INVARIANTS TypeOK CacheCatchesUp AssertHolds MembersPost
PROPERTIES NamelessStays UnregisteredBlocks EventsAcked
