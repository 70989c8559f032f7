SPECIFICATION FairSpec
CONSTANTS
  MaxChannels = 1
  a = a
  b = b
  Names = {a, b, cmd}
  Own = {cmd}
  Tasks = {t1, t2}
  None = None
  Handler = Handler
PROPERTIES CommandsFinish
