SPECIFICATION Spec
CONSTANTS
  Discs <- SomeDiscs
  Queries <- SomeQueries
  Configs <- SomeConfigs
  Works <- SomeWorks
  MaxPolls = 2
  MaxMounts = 2
  MaxEdits = 1
  MaxBreaks = 1
INVARIANT ExpectedAgrees ExactWins NotLeftMounted
PROPERTY TitleKept GivesUpLast Finishes
CHECK_DEADLOCK FALSE
