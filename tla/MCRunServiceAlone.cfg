\* One process that serves one request at a time and does not die.
CONSTANTS
  None = None
  r1 = r1  r2 = r2  d1 = d1  d2 = d2  p1 = p1  p2 = p2  c1 = c1  c2 = c2
  Runs = {r1, r2}
  Workdirs = {d1, d2}
  Sites <- EitherSite
  Procs = {p1}
  Clients = {c1}
  HostOf <- OneClient
  MaxIters = 1
  Blocking = FALSE
  Mortal = {}
SPECIFICATION FairSpec
INVARIANTS EndedWorkerLeavesTerminalRow
PROPERTIES WorkersEnd SlotsKept
\* Every run may be over and every process gone.
CHECK_DEADLOCK FALSE
