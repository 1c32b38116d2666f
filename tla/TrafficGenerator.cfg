\* Two requests of the generator on two threads, and one other client with any request.
SPECIFICATION GeneratorSpec
CONSTANTS
    g1 = g1  g2 = g2  q1 = q1
    Requests = {g1, g2, q1}
    Generated = {g1, g2}
    Slices <- Boundaries
    Concurrency = 2
    Paths <- OtherPaths
    Trace = Trace
    NoId = NoId
INVARIANTS GeneratorTypeOK EnvelopeNamesItsRequest HandledResponsesAreMetered NoFalsePass DashboardsShowTheTraffic
PROPERTY GeneratorEnds
CHECK_DEADLOCK FALSE
