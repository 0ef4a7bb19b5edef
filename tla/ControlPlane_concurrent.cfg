\* Two dashboard requests and one request of the agent in service at a time,
\* or one of either.
SPECIFICATION MixSpec
CONSTANTS
    Instances = {i1, i2}
    UserSlots = {u1, u2}
    AgentSlots = {a1}
SYMMETRY Symmetry
INVARIANTS
    TypeOK
    RowsAreOwned
PROPERTIES
    ImplementsContract
    IntentSticks
CHECK_DEADLOCK FALSE
