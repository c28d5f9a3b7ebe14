\* Two cores, the first of WireGuard, and two polls; three bytes let a reset
\* counter pass the cursor that the file still holds.
CONSTANTS
    NumCores = 2
    Keyed = {1}
    Polls = {p1, p2}
    MaxBytes = 3
SPECIFICATION Spec
CONSTRAINT Claimed
INVARIANTS TypeOK NoDoubleCount NothingMissed
