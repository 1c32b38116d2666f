\* A database that never fails, and a public address with a zone.
SPECIFICATION HealthySpec
CONSTANTS
    r1 = r1  r2 = r2
    p1 = p1  p2 = p2
    us = us  de = de
    google = google  lan = lan  scoped = scoped
    Requests = {r1}
    Pods = {p1}
    Inputs = {"8.8.8.8", " 8.8.8.8 ", "10.0.0.1", "nonsense", "2001:4860:4860::8888%eth0"}
    IPs = {google, lan, scoped}
    Parse <- Kinds
    Malformed = Malformed
    Public = {google, scoped}
    Storable = {google, lan}
    Countries = {us}
    NoRow = NoRow
    NoAnswer = NoAnswer
    TTL = 1
    MaxSkew = 0
    MaxTime = 1
INVARIANT AvailableDatabaseIsNotBlamed
CHECK_DEADLOCK FALSE
