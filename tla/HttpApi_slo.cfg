\* Two concurrent requests to any endpoint.
SPECIFICATION Spec
CONSTANTS
    q1 = q1  q2 = q2
    Requests = {q1, q2}
    Paths <- EveryPath
    Trace = Trace
    NoId = NoId
SYMMETRY Symmetry
INVARIANT ServerErrorsAreBadEvents
CHECK_DEADLOCK FALSE
