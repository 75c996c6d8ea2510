CONSTANTS
  a1 = a1
  k1 = k1
  r1 = r1
  r2 = r2
  None = None
  Aggregate <- const_Aggregate
  Key <- const_Key
  KeysOf <- const_KeysOf
  Runner <- const_Runner
  Early <- const_Early
  MaxVersion = 1
  MaxDeliveries = 3
  MaxRuns = 3
  d1 = d1
  d2 = d2
  d3 = d3
  e1 = e1
  n1 = n1
  p1 = p1
  w1 = w1
  Nothing = Nothing
  HookDelivery <- const_Delivery
  HookEvent <- const_HookEvent
  Nobody = Nobody
  Email <- const_Email
  Invalid <- const_Invalid
  Publisher <- const_Publisher
  Sender <- const_Sender
  Limit = 1
  DeadLetterAttempts = 2
  MaxFaults = 1
  MaxTries = 2
  MaxSpares = 1
SPECIFICATION WorkerSpec
CHECK_DEADLOCK FALSE
INVARIANTS
  NothingDropped
  RecordsAreTrue
  AcknowledgedIsHandled
PROPERTIES
  EventuallyHandled
  MailSettles
