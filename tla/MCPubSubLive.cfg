SPECIFICATION FairSpec
CONSTANTS
  Topics = {t1}
  Subs = {s1, s2}
  Publishers = {p1}
  Closers = {c1}
  NoTopic = NoTopic
  NoCloser = NoCloser
  ChanCap = 1
  MaxMessages = 2
CHECK_DEADLOCK FALSE
PROPERTIES
  HandlersEndAfterClose
  PublishReturns
  CloseReturns
