\* Two threads, a pipe of two, a console queue of one, two parts of two lines.
CONSTANTS
  Threads = {main, other}
  Meterer = main
  PipeMax = 2
  QueueMax = 1
  PartMax = 2
  MaxParts = 2
  MaxLines = 4
  MaxMeters = 1
SPECIFICATION FairSpec
INVARIANTS
  LogIsTail
  AckMeansWritten
  FatalIsLogged
PROPERTY PrintReturns
CHECK_DEADLOCK FALSE
