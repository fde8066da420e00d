SPECIFICATION Spec
CONSTANTS
    Periods = {"work"}
    MaxMinute = 3
    Ending <- MCEnding
    Mentions <- MCMentions
    Hosts = {"host"}
    Services = {"here", "there"}
    Gone = {}
    HostOf <- MCHostOf
    Unwanted = {"there"}
    PeriodOf <- MCPeriodOf
    Since = 2
    Until = 4
    Grace = 0
    Samples <- MCSamples
    Lines <- MCLines
    MaxRead = 4
INVARIANTS
    HostKnowsServices
    StateIsTold
    PeriodsAreCached
    DurationsAddUp
    LinesUnderstood
PROPERTIES
    ChangesReported
CHECK_DEADLOCK FALSE
