CONSTANTS
    v0 = v0
    v1 = v1
    Value = {v0, v1}
    Default = v0
    Changing = {"network", "login_security", "trend"}
    Missing = missing
    Torn = torn
    NoConfig = noConfig
    MaxSaves = 2
SPECIFICATION Spec
INVARIANTS NoSettingLost Bootable
