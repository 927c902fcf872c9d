SPECIFICATION FairSpec
CONSTANTS
    absent = absent
    Absent = absent
    Contents <- MCContents
    MaxU32 = 1000000
    Weather = {"clear"}
    MaxFrames = 2
    MaxStarts = 2
INVARIANTS
    SupportedWhileUp
    FramesReachTheLiving
    FramesAreFresh
    SettingsFit
PROPERTIES
    CallsReturn
CHECK_DEADLOCK FALSE
