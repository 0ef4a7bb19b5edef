\* The host is asked to go while a server is created on it; REST alone, no fault.
SPECIFICATION FairAgentSpec
CONSTANTS
    Instances = {i1}
    UserSlots = {u1}
    AgentSlots = {main}
    Main = main
    Ctl = ctl
    UseWs = FALSE
    Faults = {}
    MaxFailures = 5
    MaxPerKind = 8
    MaxJobs = 0
    MaxSent = 0
    MaxLosses = 0
PROPERTY HostRemovalCompletes
CHECK_DEADLOCK FALSE
