\* Once while the agent runs a time-out cuts an operation off inside.
CONSTANTS
    Settings = {s1}
    Blank = Blank
    NoDriver = NoDriver
    MaxCancels = 1
SPECIFICATION Spec
INVARIANTS Exclusive LifecycleCallsSerialized MemoryOnDisk 
PROPERTY FollowsLifecycle
