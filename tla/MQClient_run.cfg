SPECIFICATION FairSpec
CONSTANTS
  Publisher = {p1}
  Consumer = {c1}
  NMessage = 2
  MaxStarts = 2
  NoMessage = NoMessage
CHECK_DEADLOCK FALSE
INVARIANTS
  NothingUnrouted
  ArriveInOrder
  NothingForgotten
  KeptIsSentLater
PROPERTIES
  JoinReturns
  AcceptedArrives
  ConsumerDrains
