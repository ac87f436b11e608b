SPECIFICATION Spec
CONSTANTS
  t1 = t1
  t2 = t2
  t3 = t3
  m1 = m1
  m2 = m2
  NoMail = NoMail
  Thread = {t1, t2, t3}
  Mail = {m1, m2}
  Size = 2
  MaxTimeout = 1
SYMMETRY Sym
INVARIANTS
  ResumesOnlyThreads
CHECK_DEADLOCK FALSE
