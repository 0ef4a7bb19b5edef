\* A deletion over the WebSocket races the main loop.
SPECIFICATION AgentSpec
CONSTANTS
    Instances = {i1}
    UserSlots = {u1}
    AgentSlots = {main, ctl, late}
    Main = main
    Ctl = ctl
    UseWs = TRUE
    Faults = {}
    MaxFailures = 1
    MaxPerKind = 1
    MaxJobs = 1
    MaxSent = 1
    MaxLosses = 0
INVARIANT GoneMeansGone
CHECK_DEADLOCK FALSE
