CONSTANTS
  m1 = m1
  m2 = m2
  w1 = w1
  w2 = w2
  None = None
  Message <- const_Message
  Malformed <- const_Malformed
  Worker <- const_Worker
  MaxDeliveries = 3
  MaxCopies = 1
SPECIFICATION Spec
SYMMETRY Symmetry
CHECK_DEADLOCK FALSE
INVARIANTS
  BindingSuccessRecorded
