SPECIFICATION PagesSpec
CONSTANTS
  Values <- Labels
  BodyLength = 26
  Serials = {4, 8, 9, 10}
INVARIANTS NoFalseAccusation NothingBeyondTheRecord
