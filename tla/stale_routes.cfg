\* The first error of an assembly: a route whose handler is rewritten later.
SPECIFICATION MCSpec
CONSTANTS
  Rows = 1
  Ids = {101}
  SearchCap = 1
  Limits = {1}
  MaxPages = 7
  None = None
  Text = Text
  ParamError = ParamError
  Contents = {x, y}
  Ticks = 2
  EndOfTime = 3
  MaxCopies = 2
  Asterisk = Asterisk
  Fields = {f, g}
  Null = Null
  Malformed = Malformed
  NotAcceptable = NotAcceptable
  Infinite = Infinite
  Open = Open
  Invalid = Invalid
  CRS84 = CRS84
  Workers = {w1, w2}
  MaxCommands = 2
  Bad = Bad
  Settings <- MCSettings
  Handlers1 = {h}
  Signatures <- MCSignatures
  Routers = {one, two}
  Names = {n1, n2, n3}
  MaxRoutes = 3
CHECK_DEADLOCK FALSE
INVARIANTS
  NoUnwiredRouteStarts
