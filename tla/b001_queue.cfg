SPECIFICATION Spec
CONSTANTS
  Workers = {w1, w2}
  s1 = s1
  day1 = day1
  Symbols <- OneSymbol
  Archives <- OneArchive
  SymbolOf <- DayOfS1
  Daily <- OneArchive
  MaxAttempts = 2
  MaxDisturbances = 2
  None = None
SYMMETRY Symmetry
INVARIANTS TypeOK SingleOwner ArchiveBacksVerdict GapsInvalidated NotStranded
CHECK_DEADLOCK FALSE
