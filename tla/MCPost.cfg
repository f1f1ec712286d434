\* Two requests in flight, over a repository and a network that lose calls.
SPECIFICATION Spec
CONSTANTS
  Clients = {p1, p2}
  Contents = {c1, c2}
  None = None
  Lossy = TRUE
  Legacy = TRUE
  MaxDrafts = 2
  MaxPosts = 1
SYMMETRY RequestSymmetry
INVARIANTS
  TypeOK
  
  
PROPERTIES
  DraftDropped
CHECK_DEADLOCK FALSE
