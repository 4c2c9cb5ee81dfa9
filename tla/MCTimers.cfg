CONSTANTS
    Timer = {t1, t2, t3, t4}
    NULL = null
    MaxTimers = 2
    QueueLength = 2
    MaxJobs = 1
SPECIFICATION Spec
SYMMETRY Symmetry
INVARIANTS TypeOK SlotsMatch FuncsFreedOnce OnlyLateSurvive ClearedQuiet PollMissesOnlyOvertaken
CHECK_DEADLOCK FALSE
