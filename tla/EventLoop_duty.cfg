SPECIFICATION WatchedSpec
CONSTANTS
  p1 = p1
  p2 = p2
  Pools = {p1, p2}
  Watchers = {"statefulsets", "pods"}
  ReportedAs <- MCReportedAs
  NoPool = NoPool
  MaxErrors = 1
  Faults = {"watch", "collect"}
INVARIANTS QueueMatchesPending
PROPERTIES DutyKept ChangesAreObserved
