CONSTANTS
  Server = Server
  ServerFd = f1
  Watcher = {Server, c1, c2}
  Fd = {f1, f2, f3}
  Loop = Loop
  JsQueue = JsQueue
  NULL = NULL
  MaxConns = 2
  CountMod = 4
  MaxRequest = 2
  MaxWork = 1
  MaxUncounted = 0
  Observed = {c1}
  Builds <- QuickLinux
  Chunks <- JustRequest
SPECIFICATION FairSpec
PROPERTIES HandlerEnds InputRead HangUpSeen
CHECK_DEADLOCK FALSE
