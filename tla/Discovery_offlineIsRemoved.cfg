SPECIFICATION Spec
CONSTANTS
  Key = {k1}
  Host = {h1, h2}
  NoHost = NoHost
  Lease = {l1, l2}
  NoLease = NoLease
  Channel = {c1, c2}
  NoChannel = NoChannel
PROPERTY
  OfflineIsRemoved
