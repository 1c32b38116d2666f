\* An upgrade or an installation, then verification and drill: five names are two
\* old pods, two new ones and a replacement.
SPECIFICATION RolloutSpec
CONSTANTS
    Names = {1, 2, 3, 4, 5}
    Nodes = {1, 2, 3}
    Spare = {3}
    MaxLookups = 1
    Releases <- ReleasesOfEachKind
INVARIANTS RolloutTypeOK MigrationComesFirst OldPodsStay VerifiedIsReal
    RecoveryIsCaused PassCountsEveryLookup
PROPERTY OperationEnds
CHECK_DEADLOCK FALSE
