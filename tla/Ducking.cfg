\* One channel and one feed: verbs, failed device starts, relaunches, unplugs,
\* sessions and voice in any order.
CONSTANTS
  NumSlots = 1
  Depth = 2
  Hang = 2
  Pace = 1
  Retry = 2
SPECIFICATION DuckFairSpec
INVARIANT LatchedIsServed
PROPERTY FeedsComeBack
PROPERTY UnlatchedGoesQuiet
PROPERTY SilentFeedLeavesUnity
