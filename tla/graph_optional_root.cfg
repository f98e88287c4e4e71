\* An app recipe with an optional parameter typed as the request root.
SPECIFICATION MCSpec
CONSTANTS
  Keys = {a, b}
  Unbound = {}
  Classes = {"Request"}
  NoType = NoType
  Undeclared = Undeclared
  Subclass = {}
  Scopes = 2
  RootType <- RequestRoot
  RootClass <- RequestRoot
  Bindable = {0, 1}
  Overridable = {}
  Params <- AllParams
  MaxParams = 2
INVARIANTS
  RootsNotOutlived
