SPECIFICATION Spec
CONSTANTS
    Exporter = w
    Watcher = {w}
    Fd = {f1, f2}
    Loop = loop
    NULL = null
    TickMod = 3
    FieldMod = 6
    Timeout = 1
    Interval = 1
    MaxConns = 1
    CountMod = 3
    MaxLag = 1
    MaxPollFds = 3
SYMMETRY Symmetry
INVARIANTS OneSocket WatchesOwn WholeRequests CountDrifts
