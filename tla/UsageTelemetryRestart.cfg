\* One core of WireGuard and one poll: the agent restarts while the interface
\* stays.
CONSTANTS
    NumCores = 1
    Keyed = {1}
    Polls = {p1}
    MaxBytes = 2
SPECIFICATION Spec
CONSTRAINT Claimed
INVARIANTS NoOldBytes
