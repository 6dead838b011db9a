CONSTANTS
  Calls = {p1, p2}
  Cas = {}
  Pipelines = {}
  MaxRetries = 1
  MaxConnections = 2
SPECIFICATION Spec
INVARIANTS DrainIsGraceful
CHECK_DEADLOCK FALSE
