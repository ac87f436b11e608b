SPECIFICATION FairSpec
CONSTANTS
  t1 = t1
  t2 = t2
  t3 = t3
  m1 = m1
  m2 = m2
  NoMail = NoMail
  Thread = {t1, t2, t3}
  Mail = {m1}
  Size = 1
  MaxTimeout = 1
PROPERTIES
  MailReachesReceiver
  RoomReachesSender
  DetachWakesWaiters
CHECK_DEADLOCK FALSE
