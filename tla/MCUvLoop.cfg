CONSTANTS
  Watcher = {w1, w2}
  Fd = {3, 6}
  Loop = Loop
  NULL = NULL
  MaxPollFds = 4
  FirstPollFds = 2
SPECIFICATION MemSpec
SYMMETRY Symmetry
INVARIANTS Registered QueueAsserts Armed InBounds
