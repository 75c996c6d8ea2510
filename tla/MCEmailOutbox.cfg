CONSTANTS
  m1 = m1
  m2 = m2
  m3 = m3
  p1 = p1
  p2 = p2
  Message <- const_Message
  Malformed <- const_Malformed
  Publisher <- const_Publisher
  Limit = 2
  DeadLetterAttempts = 2
  MaxFaults = 2
  c1 = c1
  c2 = c2
  s1 = s1
  s2 = s2
  u1 = u1
  u2 = u2
  owner = owner
  editor = editor
  author = author
  None = None
  q1 = q1
  q2 = q2
  t1 = t1
  t2 = t2
  visitor = visitor
  lead = lead
  admin = admin
  Nothing = Nothing
  Request <- const_Request
  Sender <- const_Sender
  Token <- const_Token
  KindsOf <- const_KindsOf
  FormAction <- const_FormAction
  TokenAction <- const_TokenAction
  k1 = k1
  k2 = k2
  o1 = o1
  b1 = b1
  b2 = b2
  DraftLimit = 1
  MaxSaves = 3
  Nowhere = Nowhere
  Null = Null
  Item <- const_Item
  Slug <- const_Slug
  User <- const_User
  Role <- const_Role
  OwnerRole = owner
  PermissionsOf <- const_PermissionsOf
  RolesOf <- const_RolesOf
  Statement <- const_Statement
  Regranted <- const_Regranted
  Owner <- const_Owner
  Tab <- const_Tab
  Key <- const_Key
  MaxTime = 1
  MaxVersion = 3
  Copies = 2
  MaxRows = 3
  ObjectKey <- const_ObjectKey
  Refused <- const_Refused
  Prefixed <- const_Prefixed
  MaxSize = 2
  PageLimit = 2
  MaxDelete = 2
  MaxWrites = 2
SPECIFICATION StoresSpec
SYMMETRY StoresSymmetry
CHECK_DEADLOCK FALSE
INVARIANTS
  ReferencesHold
  SettledTruthfully
  OneHolderUnlessStolen
  VisibleWasPermitted
  StoredAsEntitled
  NothingOpened
  StorageKeepsItsWord
PROPERTIES
  HistoryInOrder
  DraftsHold
  HistoryAloneLasts
