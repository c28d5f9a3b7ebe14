CONSTANTS
    Accounts = {a1, a2}
    Limitable = {a1}
    Puts = {r1}
SPECIFICATION Spec
INVARIANT IncrementalKeeps
