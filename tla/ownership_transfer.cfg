SPECIFICATION Spec
CONSTANTS
    Serial = {s1, s2}
    Entry = {1, 2, 3}
    Created <- MCCreated
    SamePlant <- MCSamePlant
    MaxChanges = 1
PROPERTY TransferredToSoleClaimant
CHECK_DEADLOCK FALSE
