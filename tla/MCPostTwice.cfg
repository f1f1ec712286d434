\* Two publications of one revision overlap.
SPECIFICATION Spec
CONSTANTS
  Clients = {p1, p2}
  Contents = {c1}
  None = None
  Lossy = FALSE
  Legacy = FALSE
  MaxDrafts = 1
  MaxPosts = 2
SYMMETRY RequestSymmetry
INVARIANTS
  OneRecord
CHECK_DEADLOCK FALSE
