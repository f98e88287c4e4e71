\* Two requests race to build the keys of the app scope; every recipe may fail.
SPECIFICATION Spec
CONSTANTS
  Keys <- LazyKeys
  AppKeys = {"clock", "settings", "db", "pool"}
  Deps <- LazyDeps
  Managed = {"clock", "db", "pool", "session"}
  Async = {"db", "pool", "session"}
  Fallible = {"settings", "pool", "session"}
  App = "app"
  Requests = {"r1", "r2"}
  Callers = {"boot", "one", "two"}
  Home <- LazyHome
  Goals <- LazyGoals
  Detached = {}
  None = None
INVARIANTS
  DependenciesOutliveDependents
  HeldIsLive
  CachedIsLive
  NothingLeaks
PROPERTIES
  TornDownNewestFirst
  ScopesClose
  ResourceContract
