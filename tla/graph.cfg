\* Cyclic wirings, wirings of every kind of parameter, and every graph to walk.
SPECIFICATION MCSpec
CONSTANTS
  Keys = {a, b, c}
  Unbound = {x}
  Classes = {"Request", "Connection"}
  NoType = NoType
  Undeclared = Undeclared
  Subclass <- RequestBase
  Scopes = 2
  RootType <- RequestRoot
  RootClass <- RequestRoot
  Bindable = {0, 1, Undeclared}
  Overridable = {a}
  Params <- AllParams
  MaxParams = 2
INVARIANTS
  CyclesFound
  DependenciesOutward
  AcceptedGraphsResolve
  TargetsAreReachableAppKeys
PROPERTIES
  Decides
  Returns
