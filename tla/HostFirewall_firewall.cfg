\* A machine with nft on which nobody has created the agent's table.
SPECIFICATION FirewallSpec
CONSTANTS
    Ports = {1, 2}
    MaxChanges = 3
PROPERTY IntentIsReapplied
CHECK_DEADLOCK FALSE
