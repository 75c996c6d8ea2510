CONSTANTS
  m1 = m1
  m2 = m2
  w1 = w1
  w2 = w2
  None = None
  Message <- const_Message
  Malformed <- const_Malformed
  Worker <- const_Worker
  MaxDeliveries = 3
  MaxCopies = 1
  n1 = n1
  p1 = p1
  p2 = p2
  v1 = v1
  v2 = v2
  j1 = j1
  j2 = j2
  j3 = j3
  Nobody = Nobody
  Email <- const_Email
  Invalid <- const_Invalid
  Publisher <- const_Publisher
  Sender <- const_Sender
  Limit = 1
  DeadLetterAttempts = 2
  MaxFaults = 1
  MaxTries = 2
  MaxSpares = 1
  Job <- const_Job
  Spoiled <- const_Spoiled
  Invocation <- const_Sender
  BatchSize = 2
  MaxRetries = 2
  MaxDeaths = 2
SPECIFICATION DeliverySpec
SYMMETRY DeliverySymmetry
CHECK_DEADLOCK FALSE
INVARIANTS
  SentOnceUnlessStolen
  NeverStranded
  NeverForgotten
  JobsSettledApart
PROPERTIES
  KeepsPromise
