\* Two requests in flight; every edit submits something new; room for two of three files.
SPECIFICATION Spec
CONSTANTS
  Editors = {e1, e2}
  Paths = {"index", "a", "b"}
  Index = "index"
  Contents = {starter, c1, c2, c3, c4}
  Starter = starter

  Absent = Absent
  NoSite = NoSite
  MaxFiles = 2
  Repeats = FALSE
SYMMETRY FreshSymmetry
INVARIANTS
  TypeOK
  
  DraftInv
  DraftValid
PROPERTIES
  OneFileAtATime
CHECK_DEADLOCK FALSE
