SPECIFICATION FairSpec
CONSTANTS
  Host = {h1, h2}
  Channel = {c1, c2, c3}
  Thread = {t1, t2}
  NoChannel = NoChannel
  NoHost = NoHost
INVARIANTS
  TypeOK
  LogicErrorUnreachable
  ErasedIsGone
  KeyNamesItsHost
  UnremovableOnlyIfReappended
  ReadWithinStorage
PROPERTIES
  ImplementsLoadBalancer
  NoStarvation
