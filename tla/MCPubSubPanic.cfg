SPECIFICATION Spec
CONSTANTS
  Topics = {t1}
  Subs = {s1}
  Publishers = {p1}
  Closers = {c1}
  NoTopic = NoTopic
  NoCloser = NoCloser
  ChanCap = 1
  MaxMessages = 1
CHECK_DEADLOCK FALSE
INVARIANTS
  NoPanic
