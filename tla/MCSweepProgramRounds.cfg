SPECIFICATION Spec
CONSTANTS
  MaxU32 = 7
  MaxU64 = 63
  Kilo = 2
  Mega = 4
  MinBlock = 2
  Defaults <- MCDefaults
  CommandLines <- ManyRounds
PROPERTIES RoundsEnd
