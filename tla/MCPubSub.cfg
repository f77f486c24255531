SPECIFICATION Spec
CONSTANTS
  Topics = {t1}
  Subs = {s1, s2}
  Publishers = {p1, p2}
  Closers = {c1, c2}
  NoTopic = NoTopic
  NoCloser = NoCloser
  ChanCap = 2
  MaxMessages = 1
SYMMETRY Symmetric
CHECK_DEADLOCK FALSE
INVARIANTS
  MessageReachesItsAudience
  OrderIsKept
  FirstCloseDrains
