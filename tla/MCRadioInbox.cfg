SPECIFICATION FairSpec
CONSTANTS
  Handlers = {h1, h2}
  Main = Main
  None = None
  MaxMessages = 3
  dev_enable_receive = TRUE
INVARIANTS TypeOK NoneForgotten
PROPERTIES RelaySpec Drained
