SPECIFICATION Spec
CONSTANTS
    Device = {root, node, stranger}
    Connection = root
    Classes = 2
    Attempts = 3
INVARIANT TransportFaultsReported
CHECK_DEADLOCK FALSE
