\* One desk, an outbox of two, one bring-up round.
CONSTANTS
  NumDesks = 1
  Kept = 2
  Rounds = 1
SPECIFICATION FairSpec
INVARIANT CleanSdk
INVARIANT NewestKept
PROPERTY RidesMoves
PROPERTY QuitEnds
PROPERTY EndedMeetingEnds
PROPERTY JoinTellsWhy
PROPERTY PasscodeGoesOut
\* An exited app takes no step.
CHECK_DEADLOCK FALSE
