\* Three runs, two probers, kills at any time.
CONSTANTS
    Procs = {p1, p2, p3}
    Probers = {q1, q2}
    Inodes = {i1, i2, i3, i4, i5}
    NoFile = NoFile
    Kills = TRUE

SPECIFICATION Spec
\* Every run ends.
CHECK_DEADLOCK FALSE
SYMMETRY Symmetry

INVARIANTS
    AloneUnlessUndercut
