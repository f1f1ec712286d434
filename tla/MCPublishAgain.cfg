\* An old revision is published again, undisturbed.
SPECIFICATION Spec
CONSTANTS
  page = page
  app = app
  other = other
  Publishers = {p1}
  Revisions = {page, app}
  Paths = {"index.html", "_worker.js"}
  FilesOf <- Bundles
  WorkerFile = "_worker.js"
  None = None
  Serverless = TRUE
  Volatile <- NoFiles
  Faults = FALSE
  Twins = FALSE
  Admin = FALSE
  Keep = 1
  Ttl = 2
  MaxTime = 2
  MaxPublish = 3
INVARIANTS
  ActiveReleaseServed
CHECK_DEADLOCK FALSE
