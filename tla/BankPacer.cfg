\* Two slots and one person: every interleaving of a tick with the grants, in
\* any order and with refusals, and with the copying of their ids, while the
\* person is invited, removed and leaves.
CONSTANTS
  NumSlots = 2
  MaxMembers = 1
  Users = {u1}
  Ids = {c1, c2}
  NoId = NoId
  MaxAsked = 2
  MaxFlight = 1
  MaxInbox = 1
  MaxUnheard = 0
SPECIFICATION FairSpec
INVARIANT WireToOwnChannel
INVARIANT DistinctIds
PROPERTY TickEnds
