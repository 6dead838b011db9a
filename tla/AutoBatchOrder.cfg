CONSTANTS
  MaxCalls = 3
  Keys <- MCKeys
  Commands <- WriteOrFence
  MaxCommands = 2
SPECIFICATION Spec
INVARIANTS InvocationOrder
CHECK_DEADLOCK FALSE
