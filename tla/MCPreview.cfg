SPECIFICATION Spec
CONSTANTS
  a = a  b = b
  p1 = p1  p2 = p2  p3 = p3
  Invocations <- MCInvocations
  Pids <- MCPids
  MaxForeign = 1
  MaxCrashes = 1
  MaxStarts = 2
INVARIANTS
  ShellIsTracked
PROPERTIES
  RefusalMeansRunning
