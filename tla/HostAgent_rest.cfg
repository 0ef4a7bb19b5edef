\* The agent over REST alone, nothing fails but the game processes.
SPECIFICATION AgentSpec
CONSTANTS
    Instances = {i1, i2}
    UserSlots = {u1}
    AgentSlots = {main, late}
    Main = main
    Ctl = ctl
    UseWs = FALSE
    Faults = {}
    MaxFailures = 2
    MaxPerKind = 2
    MaxJobs = 0
    MaxSent = 1
    MaxLosses = 0
SYMMETRY Symmetry
INVARIANTS
    GoneMeansGone
    StoppedMeansTold
    NoneOutOfReach
CHECK_DEADLOCK FALSE
