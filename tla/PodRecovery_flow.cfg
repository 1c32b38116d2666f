\* One lookup is enough to end the traffic.
SPECIFICATION Spec
CONSTANTS
    Names = {1, 2, 3}
    Nodes = {1, 2}
    MaxLookups = 1
INVARIANT LookupsFlowUntilReady
CHECK_DEADLOCK FALSE
