SPECIFICATION MCSpec
CONSTANTS
    p1 = p1
    p2 = p2
    p3 = p3
    Procs = {p1, p2, p3}
    Options <- MCOptions
    None = None
    Targets = {t1, t2}
    MainThread = MainThread
    NoThread = NoThread
INVARIANTS TypeOK OwnPidKept OneDaemon NoStalePid HandlerFindsService LoggerNeverStuck
PROPERTY SignalStops
\* All processes may have ended.
CHECK_DEADLOCK FALSE
