\* Three requests over two cores: the second job pushes the first out of the
\* history while it may still run, and the third request meets what is left.
CONSTANTS
    Cores = {c1, c2}
    Actions = {install, start}
    Options = {plain}
    Requests = {r1, r2, r3}
    HistoryLimit = 1
    MaxJobs = 2
    NoJob = NoJob
SPECIFICATION FairSpec
CHECK_DEADLOCK FALSE
INVARIANTS TypeOK Serialized HistoryWindow ReplyTruthful
PROPERTIES CoreFreed HandlersAnswered
