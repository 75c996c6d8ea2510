CONSTANTS
  Copies = 2
  MaxRows = 3
  Null = Null
SPECIFICATION DeletionsSpec
CHECK_DEADLOCK FALSE
PROPERTIES
  KeysMeanWhatTheySay
