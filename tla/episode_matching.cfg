SPECIFICATION Spec
CONSTANTS
  Discs = {1, 2}
  Tracks = 3
  Contents <- Contained
  Series <- TwoSeasons
  Numberings <- Numbered
  Totals = {2}
  MainLength = 4
  Tolerance = 10
  Bias = 1
  MaxCalls = 2
PROPERTY InOrder SplitsSeason SiblingsRespected
CHECK_DEADLOCK FALSE
