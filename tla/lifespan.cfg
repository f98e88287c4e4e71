\* Two sub-apps, three starts, one request, under a polite or an abrupt server.
SPECIFICATION Spec
CONSTANTS
  Apps = 2
  Requests = {r1}
  Probes = {db, cache}
  MaxStarts = 3
INVARIANTS
  RuntimeNamesOpenScope
  ParentStaysOpen
  AllOrNothing
  LaterAppsLeaveFirst
  HealthyMeansProbed
PROPERTIES
  ScopesEndClosed
