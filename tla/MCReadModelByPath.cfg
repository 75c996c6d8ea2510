CONSTANTS
  a1 = a1
  a2 = a2
  k1 = k1
  k2 = k2
  None = None
  Aggregate <- const_Aggregate
  Key <- const_Key
  KeysOf <- const_ByPath
  MaxVersion = 3
SPECIFICATION Spec
CHECK_DEADLOCK FALSE
PROPERTIES
  StaleSuppressed
