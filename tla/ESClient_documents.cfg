SPECIFICATION Spec
CONSTANTS
  Field = {"key", "name"}
  Val = {v1}
  Named = {d1, d2}
  Generated = {g1}
  DefaultId = d1
  NoId = NoId
  NoDoc = NoDoc
  NoRequest = NoRequest
  Unknown = Unknown
  Null = Null
  MaxRequests = 3
  MaxConds = 2
INVARIANTS
  AcknowledgedIsStored
  SearchAnswersQuery
CHECK_DEADLOCK FALSE
