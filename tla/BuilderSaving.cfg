SPECIFICATION Spec
CONSTANTS
  Editors = {ann, bob}
  Nobody = Nobody
  Docs = {Page, Edited}
  Empty = Page
  Page = Page
  Posts = {p1, p2}
INVARIANTS TypeOK CleanWasStored  UnsavedIsWatched  
SYMMETRY Symmetry
CHECK_DEADLOCK FALSE
