\* A walk, a client, a sort, a process of commands, an assembly, or one call.
\* A sort, an assembly and a call come to an end.
SPECIFICATION MCSpec
CONSTANTS
  Rows = 5
  Ids = {101, 102, 250, 1000}
  SearchCap = 3
  Limits = {1, 2, 3}
  MaxPages = 7
  None = None
  Text = Text
  ParamError = ParamError
  Contents = {x, y}
  Ticks = 2
  EndOfTime = 3
  MaxCopies = 2
  Asterisk = Asterisk
  Fields = {f, g}
  Null = Null
  Malformed = Malformed
  NotAcceptable = NotAcceptable
  Infinite = Infinite
  Open = Open
  Invalid = Invalid
  CRS84 = CRS84
  Workers = {w1, w2}
  MaxCommands = 2
  Bad = Bad
  Settings <- MCSettings
  Handlers1 = {h}
  Signatures <- MCSignatures
  Routers = {one, two}
  Names = {n1, n2, n3}
  MaxRoutes = 3
CHECK_DEADLOCK FALSE
INVARIANTS
  NextWalkTakesEachRowOnce
  PrevWalkReachesTheFirstRow
  LastLinkEndsTheCollection
  NotModifiedIsTrue
  SortIsLexicographic
  WorkersReadTheirCommand
  StartedRoutesAreWired
  ServesWhatIsWanted
  AlternatesAndDocsAgree
  ExtentsHoldTheirPoints
  ServedOrRefused
  NamesReachLeaves
PROPERTIES
  WalksEnd
