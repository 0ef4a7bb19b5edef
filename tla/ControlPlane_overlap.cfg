\* One request of the dashboard and one of the agent overlap.
SPECIFICATION MixSpec
CONSTANTS
    Instances = {i1}
    UserSlots = {u1}
    AgentSlots = {a1}
PROPERTY DeletionSticks
CHECK_DEADLOCK FALSE
