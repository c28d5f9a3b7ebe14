\* Two accounts, so that a set can be changed in part; two PUTs that overlap.
CONSTANTS
    Accounts = {a1, a2}
    Limitable = {a1}
    Puts = {r1, r2}
SPECIFICATION Spec
INVARIANTS TypeOK ServesWhatWasPushed
PROPERTY RestartReshapes
