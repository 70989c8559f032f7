SPECIFICATION Spec
CONSTANTS
  Handlers = {h1, h2}
  None = None
  MaxMessages = 3
  MaxPushes = 3
  Kinds = {"own", "long", "foreign", "broken"}
  dev_enable_send = TRUE
  dev_soft_fail = FALSE
SYMMETRY Symmetry
INVARIANTS TypeOK NoneLost NoneOvertakes
PROPERTIES BrokenBlocks RelaySpec
