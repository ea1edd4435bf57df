\* Thresholds of two rounds, a quit limit of three, one client of the panel.
CONSTANTS
  MainLimit = 2
  PumpLimit = 2
  QuitLimit = 3
  Clients = {c1}
  MaxAge = 8
SPECIFICATION FairSpec
PROPERTY QuitEndsProcess
CHECK_DEADLOCK FALSE
