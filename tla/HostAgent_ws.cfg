\* The agent with its WebSocket: messages wait, overtake and get lost.
SPECIFICATION AgentSpec
CONSTANTS
    Instances = {i1}
    UserSlots = {u1}
    AgentSlots = {main, ctl, late}
    Main = main
    Ctl = ctl
    UseWs = TRUE
    Faults = {}
    MaxFailures = 0
    MaxPerKind = 1
    MaxJobs = 1
    MaxSent = 1
    MaxLosses = 1
ACTION_CONSTRAINT OnlyDeployAndDelete
INVARIANT AgentTypeOK
PROPERTY DataKept
CHECK_DEADLOCK FALSE
