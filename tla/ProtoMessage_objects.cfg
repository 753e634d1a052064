SPECIFICATION ObjectsSpec
CONSTANTS
  t1 = t1
  t2 = t2
  bad = bad
  u1 = u1
  u2 = u2
  Text = {t1, t2, bad}
  NotUtf8 = {bad}
  Unknown = {u1, u2}
  Obj = {a, b}
  Str = {s1, s2, s3}
  Default = Default
  Wires <- SomeWires
  MaxUnknown = 2
SYMMETRY Symmetry
INVARIANTS
  OneOwner
  ParsesBack
  ConcatenationMerges
PROPERTY
  CopyIsEqual
