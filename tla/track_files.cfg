SPECIFICATION Spec
CONSTANTS
  LastTitle = 2
  Lengths = {1, 2, 3}
  MinLength = 2
  MaxLength = 2
  Customs = {"A"}
  Unnamed = "unnamed"
  NoTitle = 9
  Cleanings <- MCCleanings
  MaxScans = 2
  MaxEdits = 2
INVARIANTS TypeOK KeptSurvive RowsFindTheirFiles
PROPERTY EmptyRipTrue
CHECK_DEADLOCK FALSE
