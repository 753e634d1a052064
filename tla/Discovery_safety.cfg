SPECIFICATION Spec
CONSTANTS
  Key = {k1, k2}
  Host = {h1, h2}
  NoHost = NoHost
  Lease = {l1, l2, l3}
  NoLease = NoLease
  Channel = {c1, c2}
  NoChannel = NoChannel
SYMMETRY Symmetry
INVARIANTS
  KeysAreLeased
  RegisteredStays
  ToldTheStore
  ServesTheStore
