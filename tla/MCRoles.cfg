SPECIFICATION RolesSpec
CONSTANTS
  Group = {"support"}
  Acts <- Operators
  Urls <- Somewhere
  Budget = 3
INVARIANTS RolesTypeOK
PROPERTIES StartsHarmless PublishedStaysHome
CHECK_DEADLOCK FALSE
