SPECIFICATION MCSpec
CONSTANTS
    MaxRuns = 2
    NCommands = 4
    Configs = {c1}
INVARIANTS ServerOutsideTunnel CleanExit DaemonInFile
PROPERTIES SignalEnds
CHECK_DEADLOCK FALSE
