CONSTANTS
  i1 = i1
  i2 = i2
  o1 = o1
  t1 = t1
  t2 = t2
  None = None
  Item <- const_Item
  Automatic <- const_Automatic
  Expiring <- const_Expiring
  Owner <- const_Owner
  OwnerOf <- const_OwnerOf
  Tab <- const_Tab
  Window <- const_Tab
  Call <- const_Call
  Theme <- const_Theme
  Limit = 2
  MaxMishaps = 2
  MaxAttempts <- const_MaxAttempts
  k1 = k1
  k2 = k2
  MaxBuilds = 3
  MaxOffers = 3
  MaxEntries = 1
  MaxPages = 2
  MaxStarts = 2
SPECIFICATION BrowserSpec
SYMMETRY Symmetry
CHECK_DEADLOCK FALSE
INVARIANT
  ClearedIsGone
