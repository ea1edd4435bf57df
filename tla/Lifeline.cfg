\* Thresholds of two rounds, a quit limit of three, one client of the panel.
CONSTANTS
  MainLimit = 2
  PumpLimit = 2
  QuitLimit = 3
  Clients = {c1}
  MaxAge = 8
SPECIFICATION FairSpec
PROPERTIES
  NoFalseAlarm
  WedgeLeavesTrail
  StallsAreBracketed
  QuitIsBounded
CHECK_DEADLOCK FALSE
