\* A parameter typed as a subclass of the declared root class.
SPECIFICATION MCSpec
CONSTANTS
  Keys = {a, b}
  Unbound = {}
  Classes = {"Request", "SignedRequest"}
  NoType = NoType
  Undeclared = Undeclared
  Subclass <- RequestKinds
  Scopes = 2
  RootType <- RequestRoot
  RootClass <- RequestRoot
  Bindable = {0, 1}
  Overridable = {}
  Params <- AllParams
  MaxParams = 2
INVARIANTS
  AcceptedGraphsResolve
