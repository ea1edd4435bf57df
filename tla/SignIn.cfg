\* Two client threads, three refresh tokens, two sign-ins, one crash.
CONSTANTS
  Clients = {c1, c2}
  MaxTokens = 3
  MaxStarts = 2
  MaxCrashes = 1
SPECIFICATION FairSpec
INVARIANTS
  StoredIsLive
PROPERTIES
  KeepsSignIn
  OneUsePerStart
