SPECIFICATION FairSpec
CONSTANTS
    Exporter = w
    Watcher = {w}
    Fd = {f1, f2}
    Loop = loop
    NULL = null
    TickMod = 6
    FieldMod = 18
    Timeout = 1
    Interval = 2
    MaxConns = 0
    CountMod = 1
    MaxLag = 2
    MaxPollFds = 2
PROPERTIES RetriesOnlyAttempts
