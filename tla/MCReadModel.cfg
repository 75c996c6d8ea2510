CONSTANTS
  a1 = a1
  a2 = a2
  k1 = k1
  k2 = k2
  None = None
  Aggregate <- const_Aggregate
  Key <- const_Key
  KeysOf <- const_ById
  MaxVersion = 5
  FormPages <- const_FormPages
  MaxPages = 2
  MaxStarts = 3
  MaxTokens = 2
  MaxRequests = 2
  MaxEvents = 4
  Null = Null
  Entity <- const_Entity
  TableOf <- const_TableOf
  Upserts <- const_Upserts
  P1 = P1
  P2 = P2
  T = T
  O = O
  N1 = N1
  N2 = N2
  N3 = N3
SPECIFICATION SiteSpec
CHECK_DEADLOCK FALSE
INVARIANTS
  NewestWins
  Converges
  TablesConverge
  FormsOwned
PROPERTIES
  SuccessIsNewest
  FormSettles
  TablesKeepReadModel
