SPECIFICATION SessionFairSpec
CONSTANTS
    Conns = {c1}
    Room = 2
    MaxBroadcasts = 4
CHECK_DEADLOCK FALSE
INVARIANTS
    TypeOK
    CloseAccounted
    NoSilentDrop
    NoHalfUpgrade
    TextsInOrder
PROPERTIES
    UpgradeOutlivesDeadline
    Finishes
    ClientAnswered
    FramesArrive
