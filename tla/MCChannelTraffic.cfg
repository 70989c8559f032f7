SPECIFICATION TrafficSpec
CONSTANTS
  MaxChannels = 2
  a = a
  b = b
  c = c
  Names = {a, b, c, cmd}
  Own = {cmd}
  Tasks = {t1, t2}
  None = None
  Handler = Handler
  MaxLink = 2
  MaxInbox = 2
SYMMETRY Symmetry
INVARIANTS SentWhereWritten MisplacedOnlyIfReset EveryChannelHasARoom
