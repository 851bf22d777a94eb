\* Two callers and a run; three graphs or texts, the first of which may see a fault.
CONSTANTS
  c1 = c1  c2 = c2  u1 = u1
  Callers = {c1, c2}
  Users = {u1}
  Runs = {u1}
  MaxIds = 3
  LastFault = 1
SPECIFICATION Spec
SYMMETRY CallerSymmetry
INVARIANTS RowNamesItsGraph NothingLeftOver FilesFollowTheRow
PROPERTY UsedGraphStays
\* The bound on identities may be used up.
CHECK_DEADLOCK FALSE
