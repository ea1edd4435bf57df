\* Frames of two samples in blocks of up to three: a block may complete two.
\* The ring wraps, and overflows before the pacer starts; the window opens and
\* shuts, and the sender goes and comes back, at any point.
CONSTANTS
  Capacity = 4
  MaxFrames = 9
  FrameSamples = 2
  Block = 3
  Jitter = 2
CHECK_DEADLOCK FALSE
SPECIFICATION TxSpec
INVARIANT Realtime
INVARIANT SenderIsLive
INVARIANT DevicesReleased
PROPERTY ImplementsDropQueue
