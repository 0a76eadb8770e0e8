CONSTANTS
    Types = {0, 1, 3}
    Addresses = {0, 1, 2}
    Lengths = {1, 2, 4}
    ByteOrders = {"Default", "LittleEndian"}
    MAX_READ_QUANTITY = 3
    Layouts <- MCLayouts
SPECIFICATION Spec
INVARIANTS BatchBounded ResultsMatch FailureContained
