SPECIFICATION RolesSpec
CONSTANTS
  Group = {"support"}
  Acts <- Operators
  Urls <- Somewhere
  Budget = 1
INVARIANTS SetupIsNotRefused
CHECK_DEADLOCK FALSE
