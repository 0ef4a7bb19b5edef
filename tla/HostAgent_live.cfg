\* REST alone; a request may fail or the agent crash, once.
SPECIFICATION FairAgentSpec
CONSTANTS
    Instances = {i1}
    UserSlots = {u1}
    AgentSlots = {main, late}
    Main = main
    Ctl = ctl
    UseWs = FALSE
    Faults = {"http", "crash"}
    MaxFailures = 2
    MaxPerKind = 2
    MaxJobs = 0
    MaxSent = 1
    MaxLosses = 1

CHECK_DEADLOCK FALSE
PROPERTIES
    DataKept
    RequestsProgress
