\* Two concurrent lookups, of one address or of inputs of any kind, two pods, clocks
\* off by up to one.
SPECIFICATION Spec
CONSTANTS
    r1 = r1  r2 = r2
    p1 = p1  p2 = p2
    us = us  de = de
    google = google  lan = lan  scoped = scoped
    Requests = {r1, r2}
    Pods = {p1, p2}
    Inputs = {"8.8.8.8", " 8.8.8.8 ", "10.0.0.1", "nonsense", "2001:4860:4860::8888%eth0"}
    IPs = {google, lan, scoped}
    Parse <- Kinds
    Malformed = Malformed
    Public = {google, scoped}
    Storable = {google, lan}
    Countries = {us, de}
    NoRow = NoRow
    NoAnswer = NoAnswer
    TTL = 1
    MaxSkew = 1
    MaxTime = 3
SYMMETRY Symmetry
INVARIANTS TypeOK NoTornRow ReplyIsRecent ReplyIsKept MissesAreObservable UpsertsAreObservable
PROPERTY KeepsPromise
CHECK_DEADLOCK FALSE
