SPECIFICATION FairSpec
CONSTANTS
    Serial = {s1, s2}
    Entry = {1, 2}
    Created <- MCCreated
    SamePlant <- MCSamePlant
    MaxChanges = 3
INVARIANTS
    TypeOK
    NoHiddenOverlap
    OwnedIsClaimed
PROPERTIES
    RowsFollowSoleClaimant
    ResolvedIssueCleared
    OneOwnerInTheEnd
CHECK_DEADLOCK FALSE
