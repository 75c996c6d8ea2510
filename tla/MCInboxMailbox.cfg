CONSTANTS
  m1 = m1
  m2 = m2
  m3 = m3
  f1 = f1
  r1 = r1
  r2 = r2
  r3 = r3
  None = None
  Mail <- const_Mail
  Form <- const_Form
  Attached <- const_Attached
  PartyOf <- const_PartyOf
  IdOf <- const_IdOf
  Follows <- const_Follows
  Receipt <- const_Receipt
SPECIFICATION Spec
SYMMETRY Symmetry
CHECK_DEADLOCK FALSE
INVARIANT FiledInItsMailbox
