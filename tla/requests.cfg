\* Two requests: in two tasks, one after the other, or one inside the other.
SPECIFICATION Spec
CONSTANTS
  Requests = {r1, r2}
  Tasks = {t1, t2}
  Apps <- MCApps
  Inputs <- MCInputs
  Errors <- MCErrors
  None = None
INVARIANTS
  ContextIsTheInnermost
  LinksNameTheClientsOrigin
  MistakesBecomeProblems
