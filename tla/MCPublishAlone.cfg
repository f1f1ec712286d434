\* One publication at a time, with crashes and takeovers of expired claims, and an operator.
SPECIFICATION Spec
CONSTANTS
  page = page
  app = app
  other = other
  Publishers = {p1}
  Revisions = {page, app, other}
  Paths = {"index.html", "_worker.js"}
  FilesOf <- Bundles
  WorkerFile = "_worker.js"
  None = None
  Serverless = TRUE
  Volatile <- NoFiles
  Faults = TRUE
  Twins = FALSE
  Admin = TRUE
  Keep = 2
  Ttl = 0
  MaxTime = 3
  MaxPublish = 4
INVARIANTS
  ActiveWorkerDeployed
PROPERTIES
  ImplementsPublishedSite
CHECK_DEADLOCK FALSE
