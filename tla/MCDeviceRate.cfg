SPECIFICATION Spec
CONSTANTS
    SendLimit = 2
    Window = 3
    MaxTime = 6
    MaxSends = 6
INVARIANTS
    DeviceLimited
