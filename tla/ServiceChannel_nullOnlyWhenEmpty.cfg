SPECIFICATION Spec
CONSTANTS
  Host = {h1, h2}
  Channel = {c1, c2, c3}
  Thread = {t1}
  NoChannel = NoChannel
  NoHost = NoHost
PROPERTY
  NullOnlyWhenEmpty
