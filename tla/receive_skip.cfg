\* Two forks await the channel at once: does each still read the body?
SPECIFICATION Spec
CONSTANTS
  Readers = {root, endpoint}
  Body = 3
  MaxCancels = 1
INVARIANTS
  EachReadsTheBody
