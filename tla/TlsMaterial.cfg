\* Agent and command line; two generations may die before the third succeeds.
CONSTANTS
    Processes = {agent, cli}
    MaxPairs = 4
SPECIFICATION Spec
CHECK_DEADLOCK FALSE
INVARIANTS TypeOK PairMatches PinHolds
