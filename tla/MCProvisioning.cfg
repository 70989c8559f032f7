SPECIFICATION FairSpec
CONSTANTS
  Contacts = {c}
  Labels = {x, y}
  Names = {a, cmd}
  Own = {cmd}
  None = None
  Nameless = Nameless
  MaxStops = 2
INVARIANTS TypeOK UpIsComplete
PROPERTIES DetachedStay OnlyUsersReadmit NewContactsWait ComesUp
