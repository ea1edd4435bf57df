\* Somebody leaves and the id comes back.
CONSTANTS
  NumSlots = 2
  MaxMembers = 2
  Users = {u1}
  Ids = {c1, c2}
  NoId = NoId
  MaxAsked = 0
  MaxFlight = 4
  MaxInbox = 2
  MaxUnheard = 3
  Base = 1
  Patience = 1
  RemoveWait = 1
  Cap = 2
  Budget = 3
SPECIFICATION Spec
PROPERTY NewcomersHaveAChannel
