\* Two calls whose responses may be impossible to decode.
SPECIFICATION Spec
CONSTANTS
    c1 = c1  c2 = c2
    Calls = {c1, c2}
    MaxRetries = 1
    Statuses <- KindsOfStatus
SYMMETRY Symmetry
INVARIANT UndecodableIsInvalid
CHECK_DEADLOCK FALSE
