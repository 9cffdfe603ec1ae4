SPECIFICATION Spec
CONSTANTS
    Device = {root, node, stranger}
    Connection = root
    Classes = 2
    Attempts = 3
INVARIANTS
    TypeOK
    IdentifiedAll
    CompleteOnSuccess
    AdjustedIsVerified
PROPERTIES
    WrittenOnce
    ImplementsView
CHECK_DEADLOCK FALSE
