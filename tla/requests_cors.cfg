\* One request that fails in a way no handler is registered for.
SPECIFICATION Spec
CONSTANTS
  Requests = {r1}
  Tasks = {t1}
  Apps <- CorsApps
  Inputs <- MCInputs
  Errors <- MCErrors
  None = None
INVARIANTS
  CorsOnEveryResponse
