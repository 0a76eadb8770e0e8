CONSTANTS
    Device = {d1, d2}
    Addr = {a1, a2}
    Bare = {b1}
    SerialWorker = serial
    NoDevice = none
SPECIFICATION Spec
INVARIANTS SnapshotCurrent TableIsConfigured StatusMatchesTable ErrorIsAlarmed
PROPERTIES StoppedIsQuiet
SYMMETRY Renaming
