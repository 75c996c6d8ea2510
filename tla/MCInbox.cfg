CONSTANTS
  m1 = m1
  m2 = m2
  m3 = m3
  f1 = f1
  r1 = r1
  r2 = r2
  r3 = r3
  None = None
  Mail <- const_Mail
  Form <- const_Form
  Attached <- const_Attached
  PartyOf <- const_PartyOf
  IdOf <- const_IdOf
  Follows <- const_Follows
  Receipt <- const_Receipt
  p1 = p1
  p2 = p2
  x1 = x1
  a1 = a1
  k1 = k1
  c1 = c1
  Altered = Altered
  Nil = Nil
  Parties <- const_Parties
  MaxMessages = 4
  Sender <- const_Sender
  Subject <- const_Subject
  BodyLength <- const_BodyLength
  Chain <- const_Chain
  Absent = Absent
  OwnId = 60
  MaxThreads = 1
  MaxReplies = 2
SPECIFICATION MailSpec
SYMMETRY MailSymmetry
CHECK_DEADLOCK FALSE
INVARIANTS
  AcceptedIsFiled
  RightParty
  UnseenIsUnread
  AttachmentsKept
  AnswersReturn
  CorrespondenceHolds
  DrainedIsCurrent
