SPECIFICATION RxSpec
CONSTANTS
  isr = isr
  reader = reader
  m1 = m1
  NoMail = NoMail
  Thread = {isr, reader}
  Mail = {m1}
  Oversize = {}
  max_msgs = 3
  MaxTimeout = 1
INVARIANTS
  StaysInPool
CHECK_DEADLOCK FALSE
