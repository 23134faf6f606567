CONSTANTS
    Gpus = {"AMD"}
    Configs <- MCConfigs
    ArgLists <- MCArgLists
    Devices <- MCDevices
    MaxRuns = 3
SPECIFICATION Spec
CHECK_DEADLOCK FALSE
INVARIANTS
    InstallComplete
    OriginalEfiKept
    DeviceWhole
PROPERTY
    EntriesLoadable
