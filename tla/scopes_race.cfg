\* The same wiring, asked whether a type is built at most once per scope.
SPECIFICATION Spec
CONSTANTS
  Keys <- LazyKeys
  AppKeys = {"clock", "settings", "db", "pool"}
  Deps <- LazyDeps
  Managed = {"clock", "db", "pool", "session"}
  Async = {"db", "pool", "session"}
  Fallible = {"settings", "pool", "session"}
  App = "app"
  Requests = {"r1", "r2"}
  Callers = {"boot", "one", "two"}
  Home <- LazyHome
  Goals <- LazyGoals
  Detached = {}
  None = None
INVARIANTS
  BuiltOncePerScope
