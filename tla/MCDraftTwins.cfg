\* Two requests in flight that may submit the same edit.
SPECIFICATION Spec
CONSTANTS
  Editors = {e1, e2}
  Paths = {"index", "a"}
  Index = "index"
  Contents = {starter, c1}
  Starter = starter

  Absent = Absent
  NoSite = NoSite
  MaxFiles = 2
  Repeats = TRUE
INVARIANTS
  SavedDraftShown
