SPECIFICATION Spec
CONSTANTS
  s1 = s1  s2 = s2  s3 = s3
  c1 = c1  c2 = c2  c3 = c3  c4 = c4
  w1 = w1  w2 = w2  w3 = w3  w4 = w4
  Sections = {s1, s2, s3}
  Columns = {c1, c2, c3, c4}
  Widgets = {w1, w2, w3, w4}
  Containers = {w1, w3}
  Root = Root
  FullSpan = 12
  MaxColumns = 3
  Pulls = {0, 11}
  Limit = 1
  MaxEdits = 2
  Documents <- MCDocuments
INVARIANTS TypeOK DocumentsAreTrees  HistoryBounded
PROPERTIES  NothingGoneForGood KeepsTheLine
CHECK_DEADLOCK FALSE
