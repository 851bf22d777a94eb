\* Two request threads of one process.
CONSTANTS
  None = None
  r1 = r1  r2 = r2  d1 = d1  d2 = d2  p1 = p1  p2 = p2  c1 = c1  c2 = c2
  Runs = {r1, r2}
  Workdirs = {d1}
  Sites <- OneDirectory
  Procs = {p1}
  Clients = {c1, c2}
  HostOf <- TwoThreads
  MaxIters = 1
  Blocking = FALSE
  Mortal = {}
SPECIFICATION Spec
PROPERTIES TerminalRowIsFinal
\* Every run may be over and every process gone.
CHECK_DEADLOCK FALSE
