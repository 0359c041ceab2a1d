SPECIFICATION Spec
CONSTANTS
    eventql = eventql
    hostname = hostname
    other = other
    broken = broken
    Libraries = {eventql, hostname, other, broken}
    Program = Program
    None = None
    Names <- MCNames
    Library <- MCLibrary
    Setups <- MCSetups
INVARIANT CallsLoadedCode
PROPERTY LifecycleSpec
\* The daemon stops.
CHECK_DEADLOCK FALSE
