CONSTANTS
    Device = {d1, d2}
    Addr = {a1, a2}
    Bare = {}
    SerialWorker = serial
    NoDevice = none
SPECIFICATION FixedConfigSpec
PROPERTIES StopCompletes EveryDevicePolled
