CONSTANTS
  Server = Server
  ServerFd = f1
  Watcher = {Server, c1, c2}
  Fd = {f1, f2, f3}
  Loop = Loop
  JsQueue = JsQueue
  NULL = NULL
  MaxConns = 1
  CountMod = 4
  MaxRequest = 2
  MaxWork = 2
  MaxUncounted = 1
  Observed = {}
  Builds <- TwoBuilds
  Chunks <- OneRequest
SPECIFICATION Spec
SYMMETRY Symmetry
INVARIANTS TypeOK QueueSafe NoOrphan SocketsAccounted FreedConfined FreshEvents
PROPERTIES RefinesService
CHECK_DEADLOCK FALSE
