\* The window is shorter than half the time line: a command can be early, in
\* time, expire, and be pruned while another one is accepted.
CONSTANTS
    Nonces = {n1, n2, n3}
    Window = 1
    MaxTime = 4
    None = None
SPECIFICATION Spec
SYMMETRY NonceSymmetry
INVARIANTS TypeOK AtMostOnce OnlyCopiesRefused
