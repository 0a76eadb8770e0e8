CONSTANTS
    Point = {p1}
    Tag = {t1}
    kManualUnifiedIdMin = 2
    MaxUnified = 2
    MaxDeviceId = 4
    MaxRegisterId = 4
    MaxRequests = 5
SPECIFICATION RegistrySpec
 
PROPERTIES RestoreReproduces TagsFollowAddresses
