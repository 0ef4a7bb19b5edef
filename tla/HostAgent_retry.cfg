\* The watchdog's restart fails; REST alone, no fault.
SPECIFICATION AgentSpec
CONSTANTS
    Instances = {i1}
    UserSlots = {u1}
    AgentSlots = {main}
    Main = main
    Ctl = ctl
    UseWs = FALSE
    Faults = {}
    MaxFailures = 5
    MaxPerKind = 8
    MaxJobs = 0
    MaxSent = 0
    MaxLosses = 0
PROPERTY RetryStands
CHECK_DEADLOCK FALSE
