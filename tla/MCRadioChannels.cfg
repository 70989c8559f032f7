SPECIFICATION Spec
CONSTANTS
  MaxChannels = 2
  a = a
  b = b
  Names = {a, b, cmd}
  Own = {cmd}
  Tasks = {t1, t2}
  None = None
  Handler = Handler
SYMMETRY Symmetry
INVARIANTS TypeOK AddedAreBound OwnRoomsKept
PROPERTIES OrphansStay ForgottenRoomsStay
