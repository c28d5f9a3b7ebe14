\* No time-out inside an operation: what the lock and the order of saves give.
CONSTANTS
    Settings = {s1}
    Blank = Blank
    NoDriver = NoDriver
    MaxCancels = 0
SPECIFICATION FairSpec
INVARIANTS TypeOK Exclusive MemoryOnDisk 
PROPERTIES FollowsLifecycle OperationsEnd
