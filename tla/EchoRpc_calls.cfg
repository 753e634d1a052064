SPECIFICATION FairSpec
CONSTANTS
  c1 = c1
  c2 = c2
  Text <- Texts
  NotUtf8 = {}
  Unknown = {}
  Client = {c1, c2}
  Hello <- Hellos
  Reply <- Replies
  MaxRetry = 1
  MaxRuns = 2
  Gone = Gone
INVARIANTS
  ResponseIsThere
  LineTellsTheCall
PROPERTY
  CallsEnd
CHECK_DEADLOCK FALSE
