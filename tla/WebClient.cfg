\* Four submits, one after the other or on top of each other.
SPECIFICATION FairSpec
CONSTANT MaxSubmits = 4
INVARIANTS TypeOK FormFollowsRequest PageShowsLastSubmit
PROPERTY FormComesBack
CHECK_DEADLOCK FALSE
