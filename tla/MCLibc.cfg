SPECIFICATION Spec
CONSTANTS
  INT_MAX = 31
  LONG_MAX = 31
  LLONG_MAX = 31
  INTMAX_MAX = 31
  Strings <- MCStrings
  Bases = {0, 4, 10, 16}
  MaxDigits = 3
  MAXYEAR = 2001
  FIELD_MAX = 32767
  Times <- MCTimes
  Changes <- MCChanges
INVARIANTS
  Converts
  Dates
