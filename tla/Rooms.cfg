\* Two room names and places for two rooms, so that twins may use them up.
CONSTANTS
  Names = {A, B}
  People = {p1}
  MaxRooms = 2
  Budget = 5
SPECIFICATION RoomsFairSpec
INVARIANT ConvergedIsTrue
PROPERTY IdempotentRunning
PROPERTY Converges
