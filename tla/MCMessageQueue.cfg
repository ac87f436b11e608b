SPECIFICATION Spec
CONSTANTS
  t1 = t1
  t2 = t2
  t3 = t3
  m1 = m1
  m2 = m2
  big = big
  NoMail = NoMail
  Thread = {t1, t2, t3}
  Mail = {m1, m2, big}
  Oversize = {big}
  max_msgs = 2
  MaxTimeout = 1
SYMMETRY Sym
INVARIANTS
  QueueInv
  NoLostWakeup
PROPERTIES
  IsMsgChannel
CHECK_DEADLOCK FALSE
