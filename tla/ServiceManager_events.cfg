SPECIFICATION Spec
CONSTANTS
  Host = {h1, h2}
  Channel = {c1, c2}
  NoChannel = NoChannel
  Service <- Services
  Instance <- Instances
  Obj = {o1, o2}
  NoObj = NoObj
  Callback = {b1, b2}
  Client = {t1}
  Free = Free
  NoEvent = NoEvent
SYMMETRY Symmetry
INVARIANTS
  WorkReachesChoose
  ServicesApart
  ViewFollowsEvents
  NoOfflineHostServed
