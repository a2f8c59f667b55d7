SPECIFICATION Spec
CONSTANTS
    Sockets = {s1, s2, s3, s4}
    Tokens = {t1, t2}
    NAddr = 3
    Tails = {0, 1}
    None = None
INVARIANTS MapsAgree SessionRouted
SYMMETRY Symmetry
CHECK_DEADLOCK FALSE
