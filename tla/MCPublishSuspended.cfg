\* A publication meets a suspension.
SPECIFICATION Spec
CONSTANTS
  page = page
  app = app
  other = other
  Publishers = {p1}
  Revisions = {page, app}
  Paths = {"index.html", "_worker.js"}
  FilesOf <- Bundles
  WorkerFile = "_worker.js"
  None = None
  Serverless = TRUE
  Volatile <- NoFiles
  Faults = FALSE
  Twins = FALSE
  Admin = TRUE
  Keep = 1
  Ttl = 1
  MaxTime = 1
  MaxPublish = 2
INVARIANTS
  StatusAudited
CHECK_DEADLOCK FALSE
