SPECIFICATION SpecBrpc
CONSTANTS
  Host = {h1, h2}
  Channel = {c1, c2, c3, c4}
  Thread = {t1}
  NoChannel = NoChannel
  NoHost = NoHost
INVARIANT
  StaleKeyWasErased
PROPERTIES
  ImplementsLoadBalancer
