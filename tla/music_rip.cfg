SPECIFICATION Spec
CONSTANTS
  Jobs = {d1}
  Toc = 2
  Listings <- Lengths
  MaxEdits = 2
  MaxFaults = 2
INVARIANT OneSource ShownTruly VerdictTrue
PROPERTY Finishes
CHECK_DEADLOCK FALSE
