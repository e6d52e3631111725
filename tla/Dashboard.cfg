SPECIFICATION Spec
CONSTANTS
  Tenants = {a, b}
  Healthy = {a}
  Visitors = {v1}
  Figures = {"totalByContentType", "pendingTasks"}
  MaxCount = 1
  MaxWrites = 2
  MaxFailures = 1
  None = None
INVARIANT TypeOK
PROPERTIES FiguresPlausible SnapshotsRefresh
