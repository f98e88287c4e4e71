\* Three readers of one body, pulls overlapping and cancelled as they may.
SPECIFICATION Spec
CONSTANTS
  Readers = {root, endpoint, probe}
  Body = 3
  MaxCancels = 2
INVARIANTS
  UndisturbedReadTheBody
  HangsOnlyIfOvertaken
PROPERTIES
  EveryReaderFinishes
