SPECIFICATION Spec
CONSTANTS
    Streams = {"imu", "gps"}
    Reference = "imu"
    SyncInputs <- MCInputs
    Labels = {0, 1}
    SyncConfigs <- MCSyncConfigs
    CleaningConfigs <- MCCleaningConfigs
    WindowConfigs <- MCWindowConfigs
    PackageConfigs <- MCPackageConfigs
    Unit = 4
    Tolerance = 1
    None = None
INVARIANT AlignedToTheNearest
INVARIANT FirstOccurrencesSurvive
INVARIANT WindowsCoverTheirRows
INVARIANT SplitsShareNoRow
INVARIANT SequentialFillIsTight
CHECK_DEADLOCK FALSE
