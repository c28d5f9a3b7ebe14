\* Five half seconds: bans of up to two seconds, renewed or dropped by a
\* second request while the first still holds.
CONSTANTS
    Ips = {i1, i2}
    Puts = {r1, r2}
    MaxTime = 4
    MaxDelay = 1
SPECIFICATION BanSpec
CHECK_DEADLOCK FALSE
SYMMETRY Symmetry
INVARIANTS BanTypeOK BansAsAsked BannedAreOut
