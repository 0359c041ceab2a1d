SPECIFICATION FairSpec
CONSTANTS
    Builtin = {"logfile"}
    SourceNames = {"logfile", "src"}
    OutputNames = {"out"}
    Configs <- MCConfigs
INVARIANTS RunsFullConfig DetachedUnlessGivenUp OnlyLastSource
PROPERTIES EveryTargetTried ProcessReturns
\* The daemon stops.
CHECK_DEADLOCK FALSE
