\* Overlapping publications of the same or other revisions, expiring claims, faults, a draft file that comes and goes.
SPECIFICATION Spec
CONSTANTS
  page = page
  app = app
  other = other
  Publishers = {p1, p2}
  Revisions = {page, app}
  Paths = {"index.html", "_worker.js"}
  FilesOf <- Bundles
  WorkerFile = "_worker.js"
  None = None
  Serverless = TRUE
  Volatile <- AppWorker
  Faults = TRUE
  Twins = TRUE
  Admin = FALSE
  Keep = 1
  Ttl = 0
  MaxTime = 1
  MaxPublish = 3
SYMMETRY PublisherSymmetry
INVARIANTS
  TypeOK
  KeptReleasesComplete
  RowCitesRecord
CHECK_DEADLOCK FALSE
