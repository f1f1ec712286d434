\* Publications of different revisions that stay within the life of their claims and are not stopped.
SPECIFICATION FairSpec
CONSTANTS
  page = page
  app = app
  other = other
  Publishers = {p1, p2}
  Revisions = {page, app}
  Paths = {"index.html", "_worker.js"}
  FilesOf <- Bundles
  WorkerFile = "_worker.js"
  None = None
  Serverless = TRUE
  Volatile <- PageIndex
  Faults = FALSE
  Twins = FALSE
  Admin = FALSE
  Keep = 1
  Ttl = 1
  MaxTime = 1
  MaxPublish = 3
INVARIANTS
  ClaimExclusive
  CutoverAtomic

  
CHECK_DEADLOCK FALSE
