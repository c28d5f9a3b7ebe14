\* Two cores and two tasks, two calls of which may be cancelled: enough for a
\* thread to outlive its call and meet the next one on the .part file, and for
\* a waiting call to be cut off beside it.
CONSTANTS
    Cores = {c1, c2}
    Tasks = {t1, t2}
    Settings = {s1}
    Blank = Blank
    Keep = Keep
    Missing = Missing
    NoTask = NoTask
    Torn = Torn
    Absent = Absent
    MaxCancels = 2
SPECIFICATION Spec
CHECK_DEADLOCK FALSE
INVARIANT TypeOK
PROPERTIES ImplementsAtomicStore CallsEnd
