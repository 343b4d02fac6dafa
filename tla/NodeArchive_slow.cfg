SPECIFICATION Spec
CONSTANTS
    BlockTime = 1
    Interval = 2
    Base = 4
    Digits = 4
    Scale = 4
    Change = 1
    FloorFactor = 2
    FirstTarget <- MCFirstTarget
    EasiestTarget <- MCEasiestTarget
    CheckpointEvery = 1
    MaxCheckpoints = 2
    BackupEvery = 2
    KeepBackups = 1
    MaxNow = 7
    MaxHeight = 5
    MaxLives = 1
    MaxBackups = 2
INVARIANT SlowIntervalEases
CHECK_DEADLOCK FALSE
