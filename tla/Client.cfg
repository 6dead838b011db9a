CONSTANTS
  w1 = w1
  w2 = w2
  s0 = s0
  Workers = {w1, w2}
  States = {s0, s1}
  Names = {a}
  Target <- MCTarget
  Values = {v1, v2}
  MaxCalls <- MCMaxCalls
  MaxFence = 3
  None = None
  Chosen = {"steps", "agents", "requests", "divided", "codec"}
  Writers = {p1, p2}
  First = First
  Deleted = Deleted
  MaxAttempts = 2
  MaxRuns = 2
  MaxExpiries = 1
  MaxFaults = 1
  Colliding = {"r", "a"}
  MaxItems = 3
  MaxGiven = 2
  MaxRetries = 1
  Missing = Missing
SPECIFICATION PartSpec
INVARIANTS RenewsCurrentLease AnswersAreTrue DeliveredWhole OrderedByWhatItTouches RoutedHome DecodesExactly
PROPERTIES ImplementsStepJournal NoStaleOutcome ImplementsAgentMemory
SYMMETRY Symmetry
CHECK_DEADLOCK FALSE
