SPECIFICATION Spec
CONSTANTS
  d1 = d1
  d2 = d2
  j1 = j1
  s1 = s1
  s2 = s2
  Devices = {d1, d2}
  SerialOf <- OwnSerials
  NoSerial = NoSerial
  Names = {1, 2}
  Ports = {1}
  Jobs = {j1}
  NoJob = NoJob
  Scans = {s1, s2}
  MaxRow = 2
  MaxReplugs = 1
  MaxScans = 3
INVARIANTS RipKeepsName ScanTruthful
SYMMETRY Interchangeable
CHECK_DEADLOCK FALSE
